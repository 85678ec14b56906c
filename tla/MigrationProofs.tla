--------------------------- MODULE MigrationProofs --------------------------
(***************************************************************************)
(* What Migration keeps for any places, names and arguments, and however   *)
(* many commands are started.                                              *)
(***************************************************************************)
EXTENDS Migration, FiniteSetTheorems, TLAPS

(* What a script was for is there, or is under way, or was refused after   *)
(* its row was marked.                                                     *)
Landed == "documents" \in tables \/ cut \/ InFlight

Made(f) ==
    /\ f = V1 => "users" \in tables
    /\ f = V2 => Landed

(* Types that the tables and files keep.                                   *)
TableState ==
    /\ rows \in SUBSET Row /\ IsFiniteSet(rows) /\ complete \in SUBSET rows
    /\ tables \in SUBSET {"users", "documents"}
    /\ orphans \in SUBSET rows
    /\ alien \in SUBSET Instance /\ places \in SUBSET Instance
    /\ runs \in 0..MaxRuns
    /\ \A r \in complete : Made(r.file)

Flags == torn \in BOOLEAN /\ cut \in BOOLEAN /\ early \in BOOLEAN /\ hurt \in BOOLEAN

(* Types of what a place and its process hold.                             *)
LocalTypes ==
    /\ files \in [Instance -> SUBSET File]
    /\ pc \in [Instance -> Working \cup {"stopped", "serving"}]
    /\ plan \in [Instance -> Plan]
    /\ fresh \in [Instance -> SUBSET File]
    /\ held \in [Instance -> Row \cup {None}]
    /\ todo \in [Instance -> SUBSET rows]
    /\ flight \in [Instance -> SUBSET rows]

(* What a process knows where it stands: a container that is past its      *)
(* check has a row for each script, and has run it or is about to.         *)
PlaceState(i) ==
    /\ Shipped \subseteq files[i]
    /\ pc[i] \in {"s_count", "s_create"} => held[i] \in Row
    /\ pc[i] = "u_mark" => held[i] \in rows /\ Made(held[i].file)
    /\ pc[i] = "u_list" /\ plan[i].kind = "serve" =>
         \A f \in Shipped : \E r \in rows : r.file = f
    /\ pc[i] \in {"u_run", "u_mark", "u_close"} /\ plan[i].kind = "serve" =>
         \A f \in Shipped : Made(f) \/ \E r \in todo[i] : r.file = f
    /\ pc[i] = "u_close" => todo[i] = {}
    /\ pc[i] = "serving" => \A f \in Shipped : Made(f)

State == TableState /\ Flags /\ LocalTypes /\ \A i \in Instance : PlaceState(i)

(* V1 was run: a row says so or is about to, or its process ended first.   *)
V1Accounted ==
    "users" \in tables /\ ~torn =>
        \E r \in rows : /\ r.file = V1
                        /\ r \in complete \/ \E i \in Instance : pc[i] = "u_mark" /\ held[i] = r

-----------------------------------------------------------------------------
(* What was made stays made: a query that ends has made its tables, or     *)
(* found them, or leaves the mark that it was refused.                     *)
LEMMA LandedStays ==
  ASSUME State, [Next]_vars, Landed
  PROVE  Landed'
<1> USE DEF history, schema, local, Landed, InFlight
<1>1. CASE UNCHANGED <<tables, cut, flight, orphans>>
  BY <1>1
<1>2. ASSUME NEW i \in Instance, RunV1(i) PROVE Landed'
  BY <1>2 DEF RunV1
<1>3. ASSUME NEW i \in Instance, RunV2(i) PROVE Landed'
  <2>1. i \in Instance /\ flight'[i] # {}
    BY <1>3 DEF RunV2, State, LocalTypes
  <2>2. QED
    BY <2>1
<1>4. ASSUME NEW i \in Instance, Applied(i) PROVE Landed'
  BY <1>4 DEF Applied
<1>5. ASSUME NEW i \in Instance, Rejected(i) PROVE Landed'
  BY <1>5 DEF Rejected
<1>6. ASSUME NEW i \in Instance, Stop(i) PROVE Landed'
  <2>1. CASE flight[i] # {}
    BY <1>6, <2>1 DEF Stop
  <2>2. CASE flight[i] = {}
    <3>1. flight' = flight /\ orphans' = orphans
      BY <1>6, <2>2 DEF Stop, State, LocalTypes
    <3>2. QED
      BY <1>6, <3>1 DEF Stop
  <2>3. QED
    BY <2>1, <2>2
<1>7. CASE OrphanEnds
  BY <1>7 DEF OrphanEnds
<1>8. ASSUME NEW i \in Instance,
             \/ Deploy(i) \/ AddCommand(i) \/ UpCommand(i)
             \/ List(i) \/ Count(i) \/ Create(i) \/ Check(i)
             \/ UpList(i) \/ RunUnknown(i) \/ RunTemplate(i) \/ Mark(i) \/ Close(i) \/ Fail(i)
      PROVE  UNCHANGED <<tables, cut, flight, orphans>>
  BY <1>8 DEF Deploy, AddCommand, UpCommand, Begin, List, Count, Create, Check,
              UpList, RunUnknown, RunTemplate, Mark, Close, Fail
<1>9. CASE UNCHANGED vars
  BY <1>9 DEF vars
<1>10. QED
  BY <1>1, <1>2, <1>3, <1>4, <1>5, <1>6, <1>7, <1>8, <1>9 DEF Next, Step, Query

(* Other places are not disturbed.                                         *)
LEMMA Elsewhere ==
  ASSUME State, NEW j \in Instance,
         pc'[j] = pc[j], plan'[j] = plan[j], held'[j] = held[j], todo'[j] = todo[j],
         files'[j] = files[j],
         rows \subseteq rows', tables \subseteq tables', Landed => Landed'
  PROVE  PlaceState(j)'
<1>1. \A f : Made(f) => Made(f)'
  BY DEF Made
<1>2. PlaceState(j)
  BY DEF State
<1> HIDE DEF Made
<1>3. QED
  BY <1>1, <1>2 DEF PlaceState

(* A process ends, and nothing is kept of what it held.                    *)
LEMMA EndKeeps ==
  ASSUME State, NEW i \in Instance, NEW label \in {"stopped", "serving"}, End(i, label),
         files' = files, rows \subseteq rows', tables \subseteq tables', Landed => Landed',
         label = "serving" => \A f \in Shipped : Made(f),
         flight' \in [Instance -> SUBSET rows']
  PROVE  LocalTypes' /\ alien' \in SUBSET Instance /\ \A j \in Instance : PlaceState(j)'
<1> USE DEF End, Goto
<1>1. /\ pc'[i] = label
      /\ \A j \in Instance \ {i} : /\ pc'[j] = pc[j] /\ plan'[j] = plan[j]
                                 /\ held'[j] = held[j] /\ todo'[j] = todo[j]
  BY DEF State, LocalTypes
<1>2. LocalTypes'
  <2>1. NoPlan \in Plan
    BY DEF NoPlan, Plan, Shipped
  <2>2. todo' \in [Instance -> SUBSET rows']
    BY DEF State, LocalTypes
  <2>3. QED
    BY <2>1, <2>2 DEF State, LocalTypes
<1>3. \A f : Made(f) => Made(f)'
  BY DEF Made
<1>4. PlaceState(i)'
  <2>1. Shipped \subseteq files'[i]
    BY DEF State, PlaceState
  <2> HIDE DEF Made
  <2>2. QED
    BY <1>1, <1>3, <2>1 DEF PlaceState
<1>5. \A j \in Instance \ {i} : PlaceState(j)'
  BY <1>1, Elsewhere
<1>6. QED
  BY <1>2, <1>4, <1>5 DEF State, TableState

(* The statements of a command that leave the table migrations alone.      *)
LEMMA TableKeeps ==
  ASSUME State, UNCHANGED <<rows, complete, orphans>>,
         tables \subseteq tables', tables' \subseteq {"users", "documents"},
         alien' \in SUBSET Instance, places' \in SUBSET Instance, runs' \in 0..MaxRuns,
         Landed => Landed'
  PROVE  TableState'
BY DEF State, TableState, Made

(* A process is started (package.json:24, cli.ts).                         *)
LEMMA BeginKeeps ==
  ASSUME State, NEW i \in Instance, NEW kind, NEW of, NEW label,
         Begin(i, kind, of, label), [kind |-> kind, of |-> of] \in Plan,
         \/ label \in {"s_list", "u_list"} /\ UNCHANGED held
         \/ label = "s_count" /\ \E r \in Row : held' = [held EXCEPT ![i] = r],
         label = "u_list" => kind # "serve"
  PROVE  State'
<1> USE DEF Begin, Goto, schema
<1>1. UNCHANGED <<rows, complete, files, tables, flight, orphans, fresh, alien, todo, torn, cut, early, hurt>>
  OBVIOUS
<1>2. Landed => Landed'
  BY <1>1 DEF Landed, InFlight
<1>3. TableState'
  <2>1. runs' \in 0..MaxRuns /\ places' \in SUBSET Instance
    BY ConstantsAssumption DEF State, TableState
  <2>2. QED
    BY <1>1, <1>2, <2>1, TableKeeps DEF State, TableState
<1>4. Flags'
  BY <1>1 DEF State, Flags
<1>5. held' \in [Instance -> Row \cup {None}] /\ \A j \in Instance \ {i} : held'[j] = held[j]
  BY DEF State, LocalTypes
<1>6. LocalTypes'
  BY <1>1, <1>5 DEF State, LocalTypes, Working, Syncing, Upping
<1>7. /\ pc'[i] = label /\ plan'[i].kind = kind
      /\ \A j \in Instance \ {i} : pc'[j] = pc[j] /\ plan'[j] = plan[j]
  BY DEF State, LocalTypes
<1>8. PlaceState(i)'
  <2>1. Shipped \subseteq files'[i]
    BY <1>1 DEF State, PlaceState
  <2>2. label = "s_count" => held'[i] \in Row
    BY DEF State, LocalTypes
  <2>3. QED
    BY <1>7, <2>1, <2>2 DEF PlaceState
<1>9. \A j \in Instance \ {i} : PlaceState(j)'
  BY <1>1, <1>2, <1>5, <1>7, Elsewhere
<1>10. QED
  BY <1>3, <1>4, <1>6, <1>8, <1>9 DEF State

(* The next file of sync, or the check (migration.service.ts:38-51).       *)
LEMMA NextFileEffect ==
  ASSUME State, NEW i \in Instance, NEW S \in SUBSET File, NextFile(i, S)
  PROVE  /\ fresh' \in [Instance -> SUBSET File]
         /\ held' \in [Instance -> Row \cup {None}]
         /\ \A j \in Instance \ {i} : held'[j] = held[j]
         /\ \E label \in {"s_check", "s_create", "s_count"} :
              /\ pc' = [pc EXCEPT ![i] = label]
              /\ label # "s_check" => held'[i] \in Row
<1> USE DEF Goto
<1>1. CASE S = {}
  BY <1>1 DEF NextFile, State, LocalTypes
<1>2. CASE S # {}
  <2>1. PICK f \in S :
          /\ held' = [held EXCEPT ![i] = [by |-> i, file |-> f]]
          /\ fresh' = [fresh EXCEPT ![i] = S \ {f}]
          /\ pc' = [pc EXCEPT ![i] = IF f.version > 1 THEN "s_create" ELSE "s_count"]
    BY <1>2 DEF NextFile, LowestFile
  <2>2. [by |-> i, file |-> f] \in Row
    BY DEF Row
  <2>3. QED
    BY <2>1, <2>2 DEF State, LocalTypes
<1>3. QED
  BY <1>1, <1>2

(* sync and add (migration.service.ts:38-110).                             *)
LEMMA SyncKeeps ==
  ASSUME State, NEW i \in Instance, Landed => Landed',
         List(i) \/ Count(i) \/ Create(i) \/ Check(i)
  PROVE  State'
<1> USE DEF Goto, schema, local, history
<1>1. CASE List(i)
  <2>1. UNCHANGED <<rows, complete, files, tables, flight, orphans, plan, todo, runs, torn, cut, early, places, hurt>>
    BY <1>1 DEF List
  <2>2. /\ fresh' \in [Instance -> SUBSET File]
        /\ held' \in [Instance -> Row \cup {None}]
        /\ \A j \in Instance \ {i} : held'[j] = held[j]
        /\ \E label \in {"s_check", "s_create", "s_count"} :
             /\ pc' = [pc EXCEPT ![i] = label]
             /\ label # "s_check" => held'[i] \in Row
    <3>1. files[i] \ {r.file : r \in rows} \in SUBSET File
      BY DEF State, LocalTypes
    <3>2. QED
      BY <1>1, <3>1, NextFileEffect DEF List
  <2>3. alien' \in SUBSET Instance
    BY <1>1 DEF List, State, TableState
  <2>4. TableState' /\ Flags'
    BY <2>1, <2>3, TableKeeps DEF State, TableState, Flags
  <2>5. LocalTypes'
    BY <2>1, <2>2 DEF State, LocalTypes, Working, Syncing
  <2>6. PlaceState(i)'
    BY <2>1, <2>2 DEF State, LocalTypes, PlaceState
  <2>7. \A j \in Instance \ {i} : PlaceState(j)'
    BY <2>1, <2>2, Elsewhere DEF State, LocalTypes
  <2>8. QED
    BY <2>4, <2>5, <2>6, <2>7 DEF State
<1>2. CASE Count(i)
  <2> DEFINE f == [held[i].file EXCEPT !.version = NextNumber]
             row == [by |-> i, file |-> f]
  <2>1. NextNumber \in Nat
    BY FS_CardinalityType DEF NextNumber, State, TableState
  <2>2. held[i] \in Row
    BY <1>2 DEF Count, State, PlaceState
  <2>3. f \in File /\ row \in Row
    BY <2>1, <2>2 DEF File, Row
  <2>4. /\ held' = [held EXCEPT ![i] = row]
        /\ files' = [files EXCEPT ![i] = @ \cup {f}]
        /\ pc' = [pc EXCEPT ![i] = "s_create"]
        /\ UNCHANGED <<rows, complete, tables, flight, orphans, plan, fresh, alien, todo, runs, torn, cut, places, hurt>>
    BY <1>2 DEF Count
  <2>5. early' \in BOOLEAN
    BY Zenon, <1>2 DEF Count
  <2> HIDE DEF f, row
  <2>6. TableState' /\ Flags'
    BY <2>4, <2>5, TableKeeps DEF State, TableState, Flags
  <2>7. LocalTypes'
    BY <2>3, <2>4 DEF State, LocalTypes, Working, Syncing
  <2>8. PlaceState(i)'
    BY <2>3, <2>4 DEF State, LocalTypes, PlaceState
  <2>9. \A j \in Instance \ {i} : PlaceState(j)'
    BY <2>4, Elsewhere DEF State, LocalTypes
  <2>10. QED
    BY <2>6, <2>7, <2>8, <2>9 DEF State
<1>3. CASE Create(i)
  <2>1. /\ held[i] \in Row /\ rows' = rows \cup {held[i]}
        /\ UNCHANGED <<complete, files, tables, flight, orphans, runs, torn, cut, early, places>>
    BY <1>3 DEF Create, State, PlaceState
  <2>2. IsFiniteSet(rows')
    BY <2>1, FS_AddElement DEF State, TableState
  <2>3. hurt' \in BOOLEAN
    BY <1>3 DEF Create, State, Flags
  <2>4. /\ rows \subseteq rows'
        /\ flight' \in [Instance -> SUBSET rows'] /\ todo \in [Instance -> SUBSET rows']
    BY <2>1 DEF State, LocalTypes
  <2>5. /\ rows' \in SUBSET Row /\ complete' \in SUBSET rows' /\ orphans' \in SUBSET rows'
        /\ tables' \in SUBSET {"users", "documents"} /\ places' \in SUBSET Instance
        /\ runs' \in 0..MaxRuns /\ \A r \in complete' : Made(r.file)'
    BY <2>1 DEF State, TableState, Made
  <2>6. Flags'
    BY <2>1, <2>3 DEF State, Flags
  <2>7. CASE plan[i].kind = "serve" /\ NextFile(i, fresh[i]) /\ UNCHANGED <<plan, alien, todo, hurt>>
    <3>1. /\ fresh' \in [Instance -> SUBSET File]
          /\ held' \in [Instance -> Row \cup {None}]
          /\ \A j \in Instance \ {i} : held'[j] = held[j]
          /\ \E label \in {"s_check", "s_create", "s_count"} :
               /\ pc' = [pc EXCEPT ![i] = label]
               /\ label # "s_check" => held'[i] \in Row
      <4>1. fresh[i] \in SUBSET File
        BY DEF State, LocalTypes
      <4>2. QED
        BY <2>7, <4>1, NextFileEffect
    <3>2. LocalTypes'
      BY <2>1, <2>4, <2>7, <3>1 DEF State, LocalTypes, Working, Syncing
    <3>3. PlaceState(i)'
      BY <2>1, <2>7, <3>1 DEF State, LocalTypes, PlaceState
    <3>4. \A j \in Instance \ {i} : PlaceState(j)'
      BY <2>1, <2>4, <2>7, <3>1, Elsewhere DEF State, LocalTypes
    <3>5. TableState'
      BY <2>2, <2>5, <2>7 DEF State, TableState
    <3>6. QED
      BY <2>6, <3>2, <3>3, <3>4, <3>5 DEF State
  <2>8. CASE End(i, "stopped")
    <3>1. LocalTypes' /\ alien' \in SUBSET Instance /\ \A j \in Instance : PlaceState(j)'
      BY <2>1, <2>4, <2>8, EndKeeps
    <3>2. QED
      BY <2>2, <2>5, <2>6, <3>1 DEF State, TableState
  <2>9. QED
    BY <1>3, <2>7, <2>8 DEF Create
<1>4. CASE Check(i)
  <2>1. /\ UNCHANGED <<rows, complete, files, tables, flight, orphans, runs, torn, cut, early, places, hurt>>
        /\ pc[i] = "s_check"
    BY <1>4 DEF Check
  <2>2. CASE i \in alien \/ \E f \in files[i] : \A r \in rows : r.file # f
    <3>1. LocalTypes' /\ alien' \in SUBSET Instance /\ \A j \in Instance : PlaceState(j)'
      BY <1>4, <2>1, <2>2, EndKeeps DEF Check, State, LocalTypes
    <3>2. QED
      BY <2>1, <3>1, TableKeeps DEF State, TableState, Flags
  <2>3. CASE ~(i \in alien \/ \E f \in files[i] : \A r \in rows : r.file # f)
    <3>1. pc' = [pc EXCEPT ![i] = "u_list"] /\ UNCHANGED <<plan, fresh, alien, held, todo>>
      BY <1>4, <2>3 DEF Check
    <3>2. \A f \in Shipped : \E r \in rows : r.file = f
      BY <2>3 DEF State, PlaceState
    <3>3. LocalTypes'
      BY <2>1, <3>1 DEF State, LocalTypes, Working, Upping
    <3>4. PlaceState(i)'
      BY <2>1, <3>1, <3>2 DEF State, LocalTypes, PlaceState
    <3>5. \A j \in Instance \ {i} : PlaceState(j)'
      BY <2>1, <3>1, Elsewhere DEF State, LocalTypes
    <3>6. QED
      BY <2>1, <3>1, <3>3, <3>4, <3>5, TableKeeps DEF State, TableState, Flags
  <2>4. QED
    BY <2>2, <2>3
<1>5. QED
  BY <1>1, <1>2, <1>3, <1>4

(* A row taken from the list is of the file that runs.                     *)
LEMMA Takes ==
  ASSUME State, NEW i \in Instance, NEW f, Take(i, f)
  PROVE  /\ pc[i] = "u_run" /\ f \in files[i]
         /\ \E r \in todo[i] :
              /\ r \in rows /\ r.file = f
              /\ held' = [held EXCEPT ![i] = r] /\ held'[i] = r
              /\ todo' = [todo EXCEPT ![i] = todo[i] \ {r}] /\ todo'[i] = todo[i] \ {r}
BY DEF Take, LowestRow, State, LocalTypes

(* A script that has run, or that has failed.                              *)
LEMMA RunKeeps ==
  ASSUME State, NEW i \in Instance, NEW f \in File, Take(i, f), Landed => Landed',
         \/ pc' = [pc EXCEPT ![i] = "u_mark"] /\ Made(f)'
         \/ pc' = [pc EXCEPT ![i] = "u_abort"],
         UNCHANGED <<rows, complete, files, orphans, plan, fresh, alien, runs, places>>,
         tables \subseteq tables', tables' \subseteq {"users", "documents"},
         flight' \in [Instance -> SUBSET rows], Flags'
  PROVE  State'
<1>1. pc[i] = "u_run"
  BY Takes
<1>2. PICK r \in todo[i] :
        /\ r \in rows /\ r.file = f
        /\ held' = [held EXCEPT ![i] = r] /\ held'[i] = r
        /\ todo' = [todo EXCEPT ![i] = todo[i] \ {r}] /\ todo'[i] = todo[i] \ {r}
  BY Takes
<1>3. TableState'
  BY TableKeeps DEF State, TableState
<1>4. LocalTypes'
  BY <1>2 DEF State, LocalTypes, TableState, Working, Upping
<1>5. \A g : Made(g) => Made(g)'
  BY DEF Made
<1>6. PlaceState(i)'
  <2>1. pc'[i] \in {"u_mark", "u_abort"} /\ (pc'[i] = "u_mark" => Made(f)')
    BY DEF State, LocalTypes
  <2>2. PlaceState(i)
    BY DEF State
  <2>3. pc'[i] = "u_mark" => Made(held[i].file)'
    BY <1>2, <2>1 DEF Made, Landed, InFlight
  <2> HIDE DEF Made
  <2>4. pc'[i] = "u_mark" /\ plan[i].kind = "serve" =>
          \A g \in Shipped : Made(g)' \/ \E q \in todo'[i] : q.file = g
    BY <1>1, <1>2, <1>5, <2>1, <2>2 DEF PlaceState
  <2>5. QED
    BY <1>2, <2>1, <2>2, <2>3, <2>4 DEF PlaceState
<1>7. \A j \in Instance \ {i} : PlaceState(j)'
  BY <1>2, Elsewhere DEF State, LocalTypes
<1>8. QED
  BY <1>3, <1>4, <1>6, <1>7 DEF State

(* The rows still to run, or the end of the command: only rows of files    *)
(* that are not here leave the list without a run.                         *)
LEMMA ContinueKeeps ==
  ASSUME State, NEW i \in Instance, NEW S \in SUBSET rows, Continue(i, S),
         pc[i] \in {"u_list", "u_run", "u_mark"},
         plan[i].kind = "serve" => \A f \in Shipped : Made(f)' \/ \E r \in S : r.file = f,
         UNCHANGED <<rows, files, tables, flight, orphans, plan, fresh, alien, held, runs,
                     torn, cut, early, places, hurt>>,
         complete' = complete \/ \E r \in rows : complete' = complete \cup {r} /\ Made(r.file)
  PROVE  State'
<1> USE DEF Continue, Goto
<1>1. Landed' = Landed /\ \A f : Made(f)' <=> Made(f)
  BY DEF Landed, InFlight, Made
<1>2. TableState' /\ Flags'
  BY <1>1 DEF State, TableState, Flags
<1>3. LocalTypes'
  BY DEF State, LocalTypes, Working, Upping
<1>4. PlaceState(i)'
  <2>1. /\ pc'[i] \in {"u_close", "u_run"} /\ (pc'[i] = "u_close" => todo'[i] = {})
        /\ todo'[i] = S
    BY DEF State, LocalTypes
  <2>2. PlaceState(i)
    BY DEF State
  <2> HIDE DEF Made
  <2>3. QED
    BY <2>1, <2>2 DEF PlaceState
<1>5. \A j \in Instance \ {i} : PlaceState(j)'
  BY <1>1, Elsewhere DEF State, LocalTypes
<1>6. QED
  BY <1>2, <1>3, <1>4, <1>5 DEF State

(* up (migration.service.ts:112-127,161-187).                              *)
LEMMA UpKeeps ==
  ASSUME State, NEW i \in Instance, Landed => Landed',
         \/ UpList(i) \/ RunUnknown(i) \/ RunV1(i) \/ RunV2(i) \/ RunTemplate(i)
         \/ Mark(i) \/ Close(i)
  PROVE  State'
<1> USE DEF schema, history
<1>0. PlaceState(i) /\ V1 # V2 /\ Shipped \subseteq File
  BY DEF State, V1, V2, Shipped, File
<1>1. CASE UpList(i)
  <2>1. /\ Continue(i, Selected(plan[i])) /\ pc[i] = "u_list"
        /\ UNCHANGED <<rows, complete, files, tables, flight, orphans, plan, fresh, alien, held, runs,
                       torn, cut, early, places, hurt>>
    BY <1>1 DEF UpList
  <2>2. Selected(plan[i]) \in SUBSET rows
    BY DEF Selected, Pending
  <2>3. Landed' = Landed /\ \A f : Made(f)' <=> Made(f)
    BY <2>1 DEF Landed, InFlight, Made
  <2>4. ASSUME plan[i].kind = "serve", NEW f \in Shipped
        PROVE  Made(f) \/ \E r \in Selected(plan[i]) : r.file = f
    <3>1. PICK r \in rows : r.file = f
      BY <1>0, <2>1, <2>4 DEF PlaceState
    <3>2. CASE r \in complete
      BY <3>1, <3>2 DEF State, TableState
    <3>3. CASE r \notin complete
      BY <2>4, <3>1, <3>3 DEF Selected, Pending
    <3>4. QED
      BY <3>2, <3>3
  <2>5. QED
    BY <2>1, <2>2, <2>3, <2>4, ContinueKeeps
<1>2. CASE RunUnknown(i)
  <2>1. PICK r \in LowestRow(todo[i]) : r.file \notin files[i] /\ Continue(i, todo[i] \ {r})
    BY <1>2 DEF RunUnknown
  <2>2. /\ pc[i] = "u_run"
        /\ UNCHANGED <<rows, complete, files, tables, flight, orphans, plan, fresh, alien, held, runs,
                       torn, cut, early, places, hurt>>
    BY <1>2 DEF RunUnknown
  <2>3. todo[i] \ {r} \in SUBSET rows
    BY DEF State, LocalTypes
  <2>4. Landed' = Landed /\ \A f : Made(f)' <=> Made(f)
    BY <2>2 DEF Landed, InFlight, Made
  <2>5. plan[i].kind = "serve" =>
          \A f \in Shipped : Made(f) \/ \E q \in todo[i] \ {r} : q.file = f
    BY <1>0, <2>1, <2>2 DEF PlaceState
  <2>6. QED
    BY <2>1, <2>2, <2>3, <2>4, <2>5, ContinueKeeps
<1>3. CASE RunV1(i)
  <2>1. /\ Take(i, V1) /\ tables' = tables \cup {"users"}
        /\ UNCHANGED <<rows, complete, files, flight, orphans, plan, fresh, alien, runs, cut, early, places>>
        /\ \/ pc' = [pc EXCEPT ![i] = "u_mark"]
           \/ pc' = [pc EXCEPT ![i] = "u_abort"]
        /\ torn' \in {torn, TRUE} /\ hurt' \in {hurt, TRUE}
    BY <1>3 DEF RunV1, Goto
  <2>2. Made(V1)'
    BY <1>0, <2>1 DEF Made
  <2>3. V1 \in File /\ Flags'
    BY <1>0, <2>1 DEF Shipped, State, Flags
  <2>4. tables' \subseteq {"users", "documents"} /\ flight' \in [Instance -> SUBSET rows]
    BY <2>1 DEF State, TableState, LocalTypes
  <2>5. QED
    BY <2>1, <2>2, <2>3, <2>4, RunKeeps
<1>4. CASE RunV2(i)
  <2>1. /\ Take(i, V2) /\ flight' = [flight EXCEPT ![i] = @ \cup {held'[i]}]
        /\ pc' = [pc EXCEPT ![i] = "u_mark"]
        /\ UNCHANGED <<rows, complete, files, tables, orphans, plan, fresh, alien, runs,
                       torn, cut, early, places, hurt>>
    BY <1>4 DEF RunV2, Goto
  <2>2. held'[i] \in rows
    BY <2>1, Takes
  <2>3. flight' \in [Instance -> SUBSET rows] /\ flight'[i] # {}
    BY <2>1, <2>2 DEF State, LocalTypes
  <2>4. Made(V2)'
    BY <1>0, <2>3 DEF Made, Landed, InFlight
  <2>5. V2 \in File /\ Flags' /\ tables' \subseteq {"users", "documents"}
    BY <1>0, <2>1 DEF Shipped, State, Flags, TableState
  <2>6. QED
    BY <2>1, <2>3, <2>4, <2>5, RunKeeps
<1>5. CASE RunTemplate(i)
  <2>1. PICK f \in files[i] \ Shipped : Take(i, f)
    BY <1>5 DEF RunTemplate
  <2>2. /\ pc' = [pc EXCEPT ![i] = "u_mark"]
        /\ UNCHANGED <<rows, complete, files, tables, flight, orphans, plan, fresh, alien, runs,
                       torn, cut, early, places, hurt>>
    BY <1>5 DEF RunTemplate, Goto
  <2>3. f \in File /\ Made(f)'
    BY <2>1 DEF State, LocalTypes, Made, Shipped
  <2>4. Flags' /\ tables' \subseteq {"users", "documents"} /\ flight' \in [Instance -> SUBSET rows]
    BY <2>2 DEF State, Flags, TableState, LocalTypes
  <2>5. QED
    BY <2>1, <2>2, <2>3, <2>4, RunKeeps
<1>6. CASE Mark(i)
  <2>1. /\ pc[i] = "u_mark" /\ held[i] \in rows /\ Made(held[i].file)
        /\ complete' = complete \cup {held[i]}
        /\ UNCHANGED <<rows, files, tables, flight, orphans, plan, fresh, alien, held, runs,
                       torn, cut, early, places>>
    BY <1>0, <1>6 DEF Mark, PlaceState
  <2>2. Landed' = Landed /\ \A f : Made(f)' <=> Made(f)
    BY <2>1 DEF Landed, InFlight, Made
  <2>3. CASE Continue(i, todo[i]) /\ UNCHANGED hurt
    <3>1. todo[i] \in SUBSET rows
      BY DEF State, LocalTypes
    <3>2. plan[i].kind = "serve" => \A f \in Shipped : Made(f) \/ \E r \in todo[i] : r.file = f
      BY <1>0, <2>1 DEF PlaceState
    <3>3. QED
      BY <2>1, <2>2, <2>3, <3>1, <3>2, ContinueKeeps
  <2>4. CASE pc' = [pc EXCEPT ![i] = "u_abort"] /\ hurt' = TRUE /\ UNCHANGED todo
    <3>1. TableState' /\ Flags'
      BY <2>1, <2>2, <2>4 DEF State, TableState, Flags
    <3>2. LocalTypes'
      BY <2>1, <2>4 DEF State, LocalTypes, Working, Upping
    <3>3. pc'[i] = "u_abort"
      BY <2>4 DEF State, LocalTypes
    <3>4. PlaceState(i)'
      BY <1>0, <2>1, <3>3 DEF PlaceState
    <3>5. \A j \in Instance \ {i} : PlaceState(j)'
      BY <2>1, <2>2, <2>4, Elsewhere DEF State, LocalTypes
    <3>6. QED
      BY <3>1, <3>2, <3>4, <3>5 DEF State
  <2>5. QED
    BY <1>6, <2>3, <2>4 DEF Mark, Goto
<1>7. CASE Close(i)
  <2> DEFINE label == IF pc[i] = "u_close" /\ plan[i].kind = "serve" THEN "serving" ELSE "stopped"
  <2>1. /\ End(i, label) /\ label \in {"stopped", "serving"}
        /\ UNCHANGED <<rows, complete, files, tables, flight, orphans, runs,
                       torn, cut, early, places, hurt>>
    BY <1>7 DEF Close
  <2>2. label = "serving" => \A f \in Shipped : Made(f)
    BY <1>0 DEF PlaceState
  <2>3. flight' \in [Instance -> SUBSET rows']
    BY <2>1 DEF State, LocalTypes
  <2> HIDE DEF label
  <2>4. LocalTypes' /\ alien' \in SUBSET Instance /\ \A j \in Instance : PlaceState(j)'
    BY <2>1, <2>2, <2>3, EndKeeps
  <2>5. QED
    BY <2>1, <2>4, TableKeeps DEF State, TableState, Flags
<1>8. QED
  BY <1>1, <1>2, <1>3, <1>4, <1>5, <1>6, <1>7

(* The end of a process by its query, a failed statement or a stop.        *)
LEMMA BreaksKeep ==
  ASSUME State, NEW i \in Instance, Landed => Landed',
         Applied(i) \/ Rejected(i) \/ Fail(i) \/ Stop(i)
  PROVE  State'
<1> USE DEF local, schema, history
<1>1. CASE Applied(i)
  <2>1. /\ tables' = tables \cup {"documents"}
        /\ UNCHANGED <<rows, complete, files, orphans, pc, plan, fresh, alien, held, todo, runs,
                       torn, cut, early, places, hurt>>
        /\ flight' \in [Instance -> SUBSET rows]
    BY <1>1 DEF Applied, State, LocalTypes
  <2>2. TableState' /\ Flags'
    BY <2>1, TableKeeps DEF State, TableState, Flags
  <2>3. \A j \in Instance : PlaceState(j)'
    BY <2>1, Elsewhere DEF State
  <2>4. QED
    BY <2>1, <2>2, <2>3 DEF State, LocalTypes
<1>2. CASE Rejected(i)
  <2>1. PICK r \in flight[i] :
          /\ flight' = [flight EXCEPT ![i] = {}]
          /\ orphans' = orphans \cup (flight[i] \ {r})
    BY <1>2 DEF Rejected
  <2>2. /\ End(i, "stopped")
        /\ UNCHANGED <<rows, complete, files, tables, runs, early, places>>
    BY <1>2 DEF Rejected
  <2>3. cut' \in BOOLEAN
    BY Zenon, <1>2 DEF Rejected
  <2>4. torn' \in BOOLEAN
    BY Zenon, <1>2 DEF Rejected
  <2>5. hurt' \in BOOLEAN
    BY Zenon, <1>2 DEF Rejected
  <2>6. flight' \in [Instance -> SUBSET rows'] /\ orphans' \in SUBSET rows
    BY <2>1, <2>2 DEF State, LocalTypes, TableState
  <2>7. LocalTypes' /\ alien' \in SUBSET Instance /\ \A j \in Instance : PlaceState(j)'
    BY <2>2, <2>6, EndKeeps
  <2>8. TableState' /\ Flags'
    BY <2>2, <2>3, <2>4, <2>5, <2>6, <2>7 DEF State, TableState, Flags, Made
  <2>9. QED
    BY <2>7, <2>8 DEF State
<1>3. CASE Fail(i)
  <2>1. UNCHANGED <<rows, complete, files, tables, flight, orphans, runs, cut, early, places>>
    BY <1>3 DEF Fail
  <2>2. torn' \in BOOLEAN
    BY Zenon, <1>3 DEF Fail
  <2>3. Flags'
    BY <1>3, <2>1, <2>2 DEF Fail, State, Flags
  <2>4. CASE End(i, "stopped")
    <3>1. flight' \in [Instance -> SUBSET rows']
      BY <2>1 DEF State, LocalTypes
    <3>2. LocalTypes' /\ alien' \in SUBSET Instance /\ \A j \in Instance : PlaceState(j)'
      BY <2>1, <2>4, <3>1, EndKeeps
    <3>3. QED
      BY <2>1, <2>3, <3>2, TableKeeps DEF State, TableState
  <2>5. CASE Goto(i, "u_abort") /\ UNCHANGED local
    <3>1. LocalTypes'
      BY <2>1, <2>5 DEF State, LocalTypes, Goto, Working, Upping
    <3>2. pc'[i] = "u_abort" /\ \A j \in Instance \ {i} : pc'[j] = pc[j]
      BY <2>5 DEF State, LocalTypes, Goto
    <3>3. PlaceState(i)'
      BY <2>1, <3>2 DEF State, PlaceState
    <3>4. \A j \in Instance \ {i} : PlaceState(j)'
      BY <2>1, <2>5, <3>2, Elsewhere
    <3>5. QED
      BY <2>1, <2>3, <2>5, <3>1, <3>3, <3>4, TableKeeps DEF State, TableState
  <2>6. QED
    BY <1>3, <2>4, <2>5 DEF Fail
<1>4. CASE Stop(i)
  <2>1. /\ End(i, "stopped")
        /\ flight' = [flight EXCEPT ![i] = {}] /\ orphans' = orphans \cup flight[i]
        /\ UNCHANGED <<rows, complete, files, tables, runs, cut, early, places>>
    BY <1>4 DEF Stop
  <2>2. torn' \in BOOLEAN
    BY Zenon, <1>4 DEF Stop
  <2>3. hurt' \in BOOLEAN
    BY Zenon, <1>4 DEF Stop
  <2>4. flight' \in [Instance -> SUBSET rows'] /\ orphans' \in SUBSET rows
    BY <2>1 DEF State, LocalTypes, TableState
  <2>5. LocalTypes' /\ alien' \in SUBSET Instance /\ \A j \in Instance : PlaceState(j)'
    BY <2>1, <2>4, EndKeeps
  <2>6. TableState' /\ Flags'
    BY <2>1, <2>2, <2>3, <2>4, <2>5 DEF State, TableState, Flags, Made
  <2>7. QED
    BY <2>5, <2>6 DEF State
<1>5. QED
  BY <1>1, <1>2, <1>3, <1>4

(* A query that outlived its process ends.                                 *)
LEMMA OrphansKeep ==
  ASSUME State, OrphanEnds, Landed => Landed' PROVE State'
<1> USE DEF local, schema, history
<1>1. /\ tables \subseteq tables' /\ tables' \subseteq {"users", "documents"}
      /\ UNCHANGED <<rows, complete, files, flight, pc, plan, fresh, alien, held, todo, runs,
                     torn, early, places, hurt>>
      /\ orphans' \in SUBSET rows
  BY DEF OrphanEnds, State, TableState
<1>2. cut' \in BOOLEAN
  <2>1. CASE UNCHANGED cut
    BY <2>1 DEF State, Flags
  <2>2. CASE cut' = (cut \/ "documents" \notin tables)
    BY Zenon, <2>2
  <2>3. QED
    BY <2>1, <2>2 DEF OrphanEnds
<1>3. \A j \in Instance : PlaceState(j)'
  BY <1>1, Elsewhere DEF State
<1>4. TableState' /\ Flags' /\ LocalTypes'
  BY <1>1, <1>2 DEF State, TableState, Flags, LocalTypes, Made
<1>5. QED
  BY <1>3, <1>4 DEF State

(* The state a command and a database can be in                            *)
(* (migration.service.ts:38-187, V1, V2, package.json:24).                 *)
THEOREM CommandsAndRows == Spec => []State
<1>1. Init => State
  <2> SUFFICES ASSUME Init PROVE State
    OBVIOUS
  <2>1. NoPlan \in Plan /\ Shipped \subseteq File
    BY DEF NoPlan, Plan, Shipped, File, V1, V2
  <2>2. TableState
    BY ConstantsAssumption, FS_EmptySet DEF Init, TableState
  <2>3. LocalTypes /\ Flags
    BY <2>1 DEF Init, LocalTypes, Flags, Working, Syncing, Upping
  <2>4. \A i \in Instance : PlaceState(i)
    BY DEF Init, PlaceState
  <2>5. QED
    BY <2>2, <2>3, <2>4 DEF State
<1>2. State /\ [Next]_vars => State'
  <2> SUFFICES ASSUME State, [Next]_vars PROVE State'
    OBVIOUS
  <2>0. Landed => Landed'
    BY LandedStays
  <2>1. ASSUME NEW i \in Instance, Deploy(i) PROVE State'
    <3>1. [kind |-> "serve", of |-> V1] \in Plan
      BY DEF Plan, Shipped
    <3>2. QED
      BY <2>1, <3>1, BeginKeeps DEF Deploy
  <2>2. ASSUME NEW i \in Instance, AddCommand(i) PROVE State'
    <3>1. [kind |-> "add", of |-> V1] \in Plan
      BY DEF Plan, Shipped
    <3>2. \A x \in Extra : [by |-> i, file |-> [version |-> 0, name |-> x]] \in Row
      BY DEF Row, File
    <3>3. \E r \in Row : held' = [held EXCEPT ![i] = r]
      BY <2>2, <3>2 DEF AddCommand
    <3>4. QED
      BY <2>2, <3>1, <3>3, BeginKeeps DEF AddCommand
  <2>3. ASSUME NEW i \in Instance, UpCommand(i) PROVE State'
    <3>1. PICK p \in Argument : Begin(i, p.kind, p.of, "u_list")
      BY <2>3 DEF UpCommand
    <3>2. [kind |-> p.kind, of |-> p.of] \in Plan /\ p.kind # "serve"
      BY ConstantsAssumption DEF Plan
    <3>3. QED
      BY <2>3, <3>1, <3>2, BeginKeeps DEF UpCommand
  <2>4. ASSUME NEW i \in Instance, Step(i) PROVE State'
    BY <2>0, <2>4, SyncKeeps, UpKeeps DEF Step
  <2>5. ASSUME NEW i \in Instance, Query(i) \/ Fail(i) \/ Stop(i) PROVE State'
    BY <2>0, <2>5, BreaksKeep DEF Query
  <2>6. CASE OrphanEnds
    BY <2>0, <2>6, OrphansKeep
  <2>7. CASE UNCHANGED vars
    <3>1. \A j \in Instance : PlaceState(j)'
      BY <2>0, <2>7, Elsewhere DEF State, vars, local, schema, history
    <3>2. TableState' /\ Flags' /\ LocalTypes'
      BY <2>7 DEF State, TableState, Flags, LocalTypes, Made, Landed, InFlight, vars, local, schema, history
    <3>3. QED
      BY <3>1, <3>2 DEF State
  <2>8. QED
    BY <2>1, <2>2, <2>3, <2>4, <2>5, <2>6, <2>7 DEF Next
<1>3. QED
  BY <1>1, <1>2, PTL DEF Spec

(* Types of the table, the schema and the processes                        *)
(* (migration.service.ts:38-187).                                          *)
THEOREM MigrationTypes == Spec => []TypeOK
<1>1. State => TypeOK
  BY DEF State, TableState, Flags, LocalTypes, TypeOK
<1>2. QED
  BY <1>1, CommandsAndRows, PTL

(* A row marked Complete is a script that took effect, and the application *)
(* runs over its tables (migration.service.ts:183-187, package.json:24).   *)
THEOREM CompleteIsApplied == Spec => []CompleteMeansApplied
<1>1. State => CompleteMeansApplied
  BY DEF State, TableState, PlaceState, Made, Landed, Shipped, CompleteMeansApplied
<1>2. QED
  BY <1>1, CommandsAndRows, PTL

(* Nothing is unmarked, and another place's process stays where it is.     *)
LEMMA MarksStay ==
  ASSUME State, NEW i \in Instance,
         \/ Deploy(i) \/ AddCommand(i) \/ UpCommand(i)
         \/ Step(i) \/ Query(i) \/ Fail(i) \/ Stop(i)
  PROVE  /\ rows \subseteq rows' /\ complete \subseteq complete'
         /\ \A j \in Instance \ {i} : pc'[j] = pc[j] /\ held'[j] = held[j]
<1> USE DEF schema, local, history, Goto, End, State, LocalTypes
<1>1. CASE Deploy(i) \/ AddCommand(i) \/ UpCommand(i)
  BY <1>1 DEF Deploy, AddCommand, UpCommand, Begin
<1>2. CASE List(i)
  <2>1. NextFile(i, files[i] \ {r.file : r \in rows}) /\ UNCHANGED <<rows, complete>>
    BY <1>2 DEF List
  <2>2. QED
    BY <2>1 DEF NextFile
<1>3. CASE Create(i)
  <2>1. NextFile(i, fresh[i]) \/ End(i, "stopped")
    BY <1>3 DEF Create
  <2>2. rows \subseteq rows' /\ complete' = complete
    BY <1>3 DEF Create
  <2>3. QED
    BY <2>1, <2>2 DEF NextFile
<1>4. CASE Count(i) \/ Check(i) \/ UpList(i) \/ RunUnknown(i) \/ Mark(i) \/ Close(i)
  BY <1>4 DEF Count, Check, UpList, RunUnknown, Mark, Close, Continue
<1>5. CASE RunV1(i) \/ RunV2(i) \/ RunTemplate(i)
  <2>1. PICK f : Take(i, f)
    BY <1>5 DEF RunV1, RunV2, RunTemplate
  <2>2. \E r : held' = [held EXCEPT ![i] = r]
    BY <2>1, Takes
  <2>3. QED
    BY <1>5, <2>2 DEF RunV1, RunV2, RunTemplate
<1>6. CASE Query(i) \/ Fail(i) \/ Stop(i)
  BY <1>6 DEF Query, Applied, Rejected, Fail, Stop
<1>7. QED
  BY <1>1, <1>2, <1>3, <1>4, <1>5, <1>6 DEF Step

(* A wedged database comes from a process that ended before its mark, or   *)
(* from two rows of V1 (migration.service.ts:112-127,173-187).             *)
THEOREM WedgesHaveAReason == Spec => []WedgedForAReason
<1> DEFINE Accounted(r) ==
             /\ r \in rows /\ r.file = V1
             /\ r \in complete \/ \E i \in Instance : pc[i] = "u_mark" /\ held[i] = r
<1>1. Init => V1Accounted
  BY DEF Init, V1Accounted
<1>2. State /\ V1Accounted /\ [Next]_vars => V1Accounted'
  <2> SUFFICES ASSUME State, V1Accounted, [Next]_vars, "users" \in tables', ~torn'
               PROVE  \E r : Accounted(r)'
    BY DEF V1Accounted
  <2> USE DEF schema, local, history
  <2>1. ASSUME NEW i \in Instance,
               \/ Deploy(i) \/ AddCommand(i) \/ UpCommand(i)
               \/ Step(i) \/ Query(i) \/ Fail(i) \/ Stop(i),
               "users" \in tables, ~torn
        PROVE  \E r : Accounted(r)'
    <3>1. PICK q : Accounted(q)
      BY <2>1 DEF V1Accounted
    <3>2. /\ q \in rows' /\ complete \subseteq complete'
          /\ \A j \in Instance \ {i} : pc'[j] = pc[j] /\ held'[j] = held[j]
      BY <2>1, <3>1, MarksStay
    <3>3. CASE ~(pc[i] = "u_mark" /\ held[i] = q)
      BY <3>1, <3>2, <3>3
    <3>4. CASE pc[i] = "u_mark" /\ held[i] = q
      <4>1. CASE Mark(i)
        BY <3>1, <3>2, <3>4, <4>1 DEF Mark
      <4>2. CASE Applied(i)
        BY <3>1, <3>2, <3>4, <4>2 DEF Applied
      <4>3. held[i].file = V1
        BY <3>1, <3>4
      <4>4. ~Rejected(i) /\ ~Fail(i) /\ ~Stop(i)
        BY <3>4, <4>3 DEF Rejected, Fail, Stop
      <4>5. ~Deploy(i) /\ ~AddCommand(i) /\ ~UpCommand(i)
        BY <3>4 DEF Deploy, AddCommand, UpCommand, Begin
      <4>6. Step(i) => Mark(i)
        BY <3>4 DEF Step, List, Count, Create, Check, UpList, RunUnknown, RunV1, RunV2,
                    RunTemplate, Take, Close
      <4>7. QED
        BY <2>1, <4>1, <4>2, <4>4, <4>5, <4>6 DEF Query
    <3>5. QED
      BY <3>3, <3>4
  <2>2. ASSUME NEW i \in Instance, RunV1(i), "users" \notin tables PROVE \E r : Accounted(r)'
    <3>1. Take(i, V1) /\ pc' = [pc EXCEPT ![i] = "u_mark"] /\ rows' = rows
      BY <2>2 DEF RunV1, Goto
    <3>2. PICK r \in todo[i] : r \in rows /\ r.file = V1 /\ held'[i] = r
      BY <3>1, Takes
    <3>3. pc'[i] = "u_mark"
      BY <3>1 DEF State, LocalTypes
    <3>4. QED
      BY <3>1, <3>2, <3>3
  <2>3. ASSUME NEW i \in Instance,
               \/ Deploy(i) \/ AddCommand(i) \/ UpCommand(i)
               \/ Step(i) \/ Query(i) \/ Fail(i) \/ Stop(i)
        PROVE  ~torn /\ ("users" \in tables \/ RunV1(i))
    <3>1. CASE RunV1(i)
      BY <3>1 DEF RunV1
    <3>2. CASE Query(i) \/ Fail(i) \/ Stop(i)
      <4>1. "users" \in tables
        BY <3>2 DEF Query, Applied, Rejected, Fail, Stop
      <4>2. CASE Applied(i)
        BY <4>1, <4>2 DEF Applied
      <4>3. CASE Rejected(i) \/ Fail(i) \/ Stop(i)
        <5>1. torn' = (torn \/ (pc[i] = "u_mark" /\ held[i].file = V1))
          BY <4>3 DEF Rejected, Fail, Stop
        <5>2. ~torn
          BY Zenon, <5>1
        <5>3. QED
          BY <4>1, <5>2
      <4>4. QED
        BY <3>2, <4>2, <4>3 DEF Query
    <3>3. CASE Deploy(i) \/ AddCommand(i) \/ UpCommand(i)
      BY <3>3 DEF Deploy, AddCommand, UpCommand, Begin
    <3>4. CASE Step(i) /\ ~RunV1(i)
      BY <3>4 DEF Step, List, Count, Create, Check, UpList, RunUnknown, RunV2, RunTemplate, Mark, Close
    <3>5. QED
      BY <2>3, <3>1, <3>2, <3>3, <3>4
  <2>4. CASE OrphanEnds \/ UNCHANGED vars
    <3>1. UNCHANGED <<rows, complete, pc, held, torn>> /\ "users" \in tables
      BY <2>4 DEF OrphanEnds, vars
    <3>2. QED
      BY <3>1 DEF V1Accounted
  <2>5. QED
    BY <2>1, <2>2, <2>3, <2>4 DEF Next
<1>3. V1Accounted => WedgedForAReason
  BY DEF V1Accounted, WedgedForAReason, Wedged, Pending
<1>4. QED
  BY <1>1, <1>2, <1>3, CommandsAndRows, PTL DEF Spec

-----------------------------------------------------------------------------
(* A row of V1 that is pending over its own tables, and what keeps a place *)
(* from serving then: its container has the row before it, and V1 throws.  *)
WedgedAt(r) ==
    /\ "users" \in tables
    /\ r \in Pending /\ r.file = V1
    /\ \A i \in Instance : ~(pc[i] = "u_mark" /\ held[i] = r)

Barred(i, r) ==
    /\ pc[i] # "serving"
    /\ pc[i] \in {"u_run", "u_mark", "u_close"} /\ plan[i].kind = "serve" => r \in todo[i]

(* What a place does about such a row: it takes it only to fail.           *)
LEMMA NobodyMarksIt ==
  ASSUME State, NEW r, WedgedAt(r), NEW i \in Instance,
         \/ Deploy(i) \/ AddCommand(i) \/ UpCommand(i)
         \/ Step(i) \/ Query(i) \/ Fail(i) \/ Stop(i)
  PROVE  /\ r \notin complete'
         /\ ~(pc'[i] = "u_mark" /\ held'[i] = r)
         /\ Barred(i, r) => Barred(i, r)'
<1> USE DEF schema, local, history, State, LocalTypes
<1>0. r \notin complete /\ r \in rows /\ r.file = V1 /\ ~(pc[i] = "u_mark" /\ held[i] = r)
  BY DEF WedgedAt, Pending
<1>1. CASE Deploy(i) \/ AddCommand(i) \/ UpCommand(i)
  <2>1. pc'[i] \in {"s_list", "s_count", "u_list"} /\ complete' = complete
    BY <1>1 DEF Deploy, AddCommand, UpCommand, Begin, Goto
  <2> QED
    BY <1>0, <2>1 DEF Barred
<1>2. CASE List(i) \/ Count(i) \/ Create(i) \/ Check(i)
  <2>1. complete' = complete
    BY <1>2 DEF List, Count, Create, Check
  <2>2. pc'[i] \in {"s_check", "s_create", "s_count", "u_list", "stopped"}
    BY <1>2 DEF List, Count, Create, Check, NextFile, End, Goto
  <2> QED
    BY <1>0, <2>1, <2>2 DEF Barred
<1>3. CASE UpList(i)
  <2>1. /\ complete' = complete /\ plan' = plan /\ todo' = [todo EXCEPT ![i] = Selected(plan[i])]
        /\ pc' = [pc EXCEPT ![i] = IF Selected(plan[i]) = {} THEN "u_close" ELSE "u_run"]
    BY <1>3 DEF UpList, Continue, Goto
  <2>2. plan[i].kind = "serve" => r \in Selected(plan[i])
    BY <1>0 DEF Selected, Pending
  <2>3. todo'[i] = Selected(plan[i]) /\ pc'[i] \in {"u_close", "u_run"}
    BY <2>1
  <2> QED
    BY <1>0, <2>1, <2>2, <2>3 DEF Barred
<1>4. CASE RunUnknown(i)
  <2>1. PICK q \in todo[i] : q.file \notin files[i] /\ Continue(i, todo[i] \ {q})
    BY <1>4 DEF RunUnknown, LowestRow
  <2>2. V1 \in files[i]
    BY DEF PlaceState, Shipped
  <2>3. q # r
    BY <1>0, <2>1, <2>2
  <2>4. todo'[i] = todo[i] \ {q} /\ pc'[i] \in {"u_close", "u_run"}
    BY <2>1 DEF Continue, Goto
  <2>5. complete' = complete /\ plan' = plan /\ pc[i] = "u_run"
    BY <1>4 DEF RunUnknown
  <2> QED
    BY <1>0, <2>3, <2>4, <2>5 DEF Barred
<1>5. CASE RunV1(i)
  <2>1. complete' = complete /\ pc' = [pc EXCEPT ![i] = "u_abort"]
    BY <1>5 DEF RunV1, Goto, WedgedAt
  <2>2. pc'[i] = "u_abort"
    BY <2>1
  <2> QED
    BY <1>0, <2>1, <2>2 DEF Barred
<1>6. CASE RunV2(i) \/ RunTemplate(i)
  <2>1. PICK f : Take(i, f) /\ f # V1
    <3>1. V1 # V2 /\ V1 \in Shipped
      BY DEF V1, V2, Shipped
    <3> QED
      BY <1>6, <3>1 DEF RunV2, RunTemplate
  <2>2. PICK q \in todo[i] : q.file = f /\ held'[i] = q /\ todo'[i] = todo[i] \ {q} /\ pc[i] = "u_run"
    BY <2>1, Takes
  <2>3. q # r
    BY <1>0, <2>1, <2>2
  <2>4. complete' = complete /\ plan' = plan /\ pc'[i] = "u_mark"
    BY <1>6 DEF RunV2, RunTemplate, Goto
  <2> QED
    BY <1>0, <2>2, <2>3, <2>4 DEF Barred
<1>7. CASE Mark(i)
  <2>1. pc[i] = "u_mark" /\ complete' = complete \cup {held[i]} /\ plan' = plan
    BY <1>7 DEF Mark
  <2>2. \/ todo' = todo /\ pc' = [pc EXCEPT ![i] = "u_abort"]
        \/ Continue(i, todo[i])
    BY <1>7 DEF Mark, Goto
  <2>3. todo'[i] = todo[i] /\ pc'[i] \in {"u_abort", "u_close", "u_run"}
    BY <2>2 DEF Continue, Goto
  <2> QED
    BY <1>0, <2>1, <2>3 DEF Barred
<1>8. CASE Close(i)
  <2>1. complete' = complete /\ pc[i] \in {"u_close", "u_abort"}
    BY <1>8 DEF Close
  <2>2. pc'[i] = IF pc[i] = "u_close" /\ plan[i].kind = "serve" THEN "serving" ELSE "stopped"
    BY <1>8 DEF Close, End, Goto
  <2>3. pc[i] = "u_close" => todo[i] = {}
    BY DEF PlaceState
  <2> QED
    BY <1>0, <2>1, <2>2, <2>3 DEF Barred
<1>9. CASE Applied(i)
  BY <1>0, <1>9 DEF Applied, Barred
<1>10. CASE Rejected(i) \/ Fail(i) \/ Stop(i)
  <2>1. complete' = complete /\ pc'[i] \in {"stopped", "u_abort"}
    BY <1>10 DEF Rejected, Fail, Stop, End, Goto
  <2> QED
    BY <1>0, <2>1 DEF Barred
<1> QED
  BY <1>1, <1>2, <1>3, <1>4, <1>5, <1>6, <1>7, <1>8, <1>9, <1>10 DEF Step, Query

(* Plans and work are a place's own, and no table is dropped.              *)
LEMMA OthersKeepTheirs ==
  ASSUME State, NEW i \in Instance,
         \/ Deploy(i) \/ AddCommand(i) \/ UpCommand(i)
         \/ Step(i) \/ Query(i) \/ Fail(i) \/ Stop(i)
  PROVE  /\ tables \subseteq tables'
         /\ \A j \in Instance \ {i} : plan'[j] = plan[j] /\ todo'[j] = todo[j]
<1> USE DEF schema, local, history, Goto, End, State, LocalTypes
<1>1. CASE Deploy(i) \/ AddCommand(i) \/ UpCommand(i)
  BY <1>1 DEF Deploy, AddCommand, UpCommand, Begin
<1>2. CASE List(i) \/ Count(i) \/ Check(i)
  BY <1>2 DEF List, Count, Check
<1>3. CASE Create(i)
  BY <1>3 DEF Create
<1>4. CASE UpList(i) \/ RunUnknown(i) \/ Mark(i) \/ Close(i)
  BY <1>4 DEF UpList, RunUnknown, Mark, Close, Continue
<1>5. CASE RunV1(i) \/ RunV2(i) \/ RunTemplate(i)
  <2>1. PICK f : Take(i, f)
    BY <1>5 DEF RunV1, RunV2, RunTemplate
  <2>2. \E S : todo' = [todo EXCEPT ![i] = S]
    BY <2>1, Takes
  <2> QED
    BY <1>5, <2>2 DEF RunV1, RunV2, RunTemplate
<1>6. CASE Query(i) \/ Fail(i) \/ Stop(i)
  BY <1>6 DEF Query, Applied, Rejected, Fail, Stop
<1> QED
  BY <1>1, <1>2, <1>3, <1>4, <1>5, <1>6 DEF Step

LEMMA WedgeHolds ==
  ASSUME State, [Next]_vars, NEW r, WedgedAt(r), NEW j \in Instance, Barred(j, r)
  PROVE  WedgedAt(r)' /\ Barred(j, r)'
<1>1. ASSUME NEW i \in Instance,
             \/ Deploy(i) \/ AddCommand(i) \/ UpCommand(i)
             \/ Step(i) \/ Query(i) \/ Fail(i) \/ Stop(i)
      PROVE  WedgedAt(r)' /\ Barred(j, r)'
  <2>1. /\ r \notin complete' /\ ~(pc'[i] = "u_mark" /\ held'[i] = r)
        /\ Barred(i, r) => Barred(i, r)'
    BY <1>1, NobodyMarksIt
  <2>2. /\ rows \subseteq rows' /\ tables \subseteq tables'
        /\ \A k \in Instance \ {i} : /\ pc'[k] = pc[k] /\ held'[k] = held[k]
                                     /\ plan'[k] = plan[k] /\ todo'[k] = todo[k]
    BY <1>1, MarksStay, OthersKeepTheirs
  <2> QED
    BY <2>1, <2>2 DEF WedgedAt, Barred, Pending
<1>2. CASE OrphanEnds
  <2>1. UNCHANGED <<rows, complete, pc, plan, held, todo>> /\ tables \subseteq tables'
    BY <1>2 DEF OrphanEnds, local
  <2> QED
    BY <2>1 DEF WedgedAt, Barred, Pending
<1>3. CASE UNCHANGED vars
  <2>1. UNCHANGED <<rows, complete, tables, pc, plan, held, todo>>
    BY <1>3 DEF vars, schema, local
  <2> QED
    BY <2>1 DEF WedgedAt, Barred, Pending
<1> QED
  BY <1>1, <1>2, <1>3 DEF Next

(* A database that is wedged stays so, and a container that starts then    *)
(* never serves (migration.service.ts:112-127,173-187).                    *)
THEOREM WedgesAreForGood == Spec => WedgedStaysDown
<1>1. ASSUME NEW i \in Instance
      PROVE  Spec => [](Wedged /\ pc[i] = "stopped" => [](pc[i] # "serving"))
  <2> DEFINE Shut == \E r : WedgedAt(r) /\ Barred(i, r)
  <2>1. Wedged /\ pc[i] = "stopped" => Shut
    BY DEF Wedged, WedgedAt, Barred
  <2>2. State /\ Shut /\ [Next]_vars => Shut'
    <3> SUFFICES ASSUME State, [Next]_vars, NEW r, WedgedAt(r), Barred(i, r)
                 PROVE  \E q : WedgedAt(q)' /\ Barred(i, q)'
      OBVIOUS
    <3> QED
      BY WedgeHolds
  <2>3. Shut => pc[i] # "serving"
    BY DEF Barred
  <2> QED
    BY <2>1, <2>2, <2>3, CommandsAndRows, PTL DEF Spec
<1> QED
  BY <1>1 DEF WedgedStaysDown

-----------------------------------------------------------------------------
(* A container that is alone with a database.                              *)
(*                                                                         *)
(* AloneItServes says that it serves in the end; this is why it never ends *)
(* before: at most one place has started a process, no statement has       *)
(* failed, and no add by hand came first.                                  *)
Lone(i) == places \subseteq {i} /\ ~hurt /\ ~early

Listed(f) == \E r \in rows : r.file = f

(* Complete, or about to be.                                               *)
Marked(i, r) == r \in complete \/ (pc[i] = "u_mark" /\ held[i] = r)

(* The rows are the place's, and each is of a script that it has.          *)
LoneTable(i) ==
    /\ \A j \in Instance \ {i} : pc[j] = "stopped" /\ flight[j] = {}
    /\ orphans = {} /\ i \notin alien
    /\ \A r \in rows : r.by = i /\ r.file \in files[i]
    /\ rows # {} => Listed(V1)
    /\ \A f \in files[i] \ Shipped :
          Listed(f) \/ (pc[i] = "s_create" /\ held[i].file = f)

(* What is still to be listed by a container that syncs, or by add.        *)
Fresh(i) ==
    /\ held[i] \in Row /\ held[i].by = i
    /\ pc[i] = "s_create" => held[i].file \in files[i]
    /\ plan[i].kind = "add" => fresh[i] = {} /\ (pc[i] = "s_create" => rows # {})
    /\ plan[i].kind = "serve" =>
          /\ fresh[i] \subseteq {V2}
          /\ held[i].file = V1 \/ (held[i].file = V2 /\ Listed(V1))
          /\ pc[i] = "s_count" => held[i].file = V1 /\ rows = {}
          /\ \A f \in Shipped : Listed(f) \/ f \in fresh[i] \/ held[i].file = f

LoneSync(i) ==
    /\ pc[i] \in {"s_list", "s_check"} => plan[i].kind = "serve"
    /\ pc[i] \in {"s_count", "s_create"} => plan[i].kind \in {"serve", "add"} /\ Fresh(i)
    /\ pc[i] \notin {"s_count", "s_create"} => fresh[i] = {}
    /\ pc[i] = "s_check" => \A f \in Shipped : Listed(f)

(* A script that has its tables has a row that is marked, so none runs     *)
(* over its own tables; a container sends V2's query once V1 has run.      *)
LoneUp(i) ==
    /\ pc[i] # "u_abort"
    /\ todo[i] \cap complete = {}
    /\ pc[i] = "u_mark" => held[i] \notin todo[i]
    /\ "users" \in tables => \E r \in rows : r.file = V1 /\ Marked(i, r)
    /\ "documents" \in tables => flight[i] = {} /\ \E r \in rows : r.file = V2 /\ Marked(i, r)
    /\ \A r \in flight[i] : r.file = V2 /\ Marked(i, r)
    /\ flight[i] # {} => /\ pc[i] \in {"u_run", "u_mark", "u_close"}
                         /\ plan[i].kind = "serve" => "users" \in tables

LoneState(i) == LoneTable(i) /\ LoneSync(i) /\ LoneUp(i)

(* A container that is left alone with a database and has not served does  *)
(* not end, and does not turn to its end.                                  *)
AloneItGoesOn ==
    \A i \in Instance :
        /\ plan[i].kind = "serve" /\ pc[i] \in Working
        /\ pc'[i] \in {"stopped", "u_abort"}
        => (hurt \/ early \/ places # {i})'

(* Nothing ever happens that makes a place alone.                          *)
LEMMA LoneBefore ==
  ASSUME State, [Next]_vars, NEW i \in Instance, Lone(i)'
  PROVE  Lone(i) /\ hurt' = hurt /\ early' = early
<1> USE DEF Lone, State, Flags
<1>1. CASE UNCHANGED vars
  BY <1>1 DEF vars, history
<1>2. CASE OrphanEnds
  BY <1>2 DEF OrphanEnds
<1>3. ASSUME NEW j \in Instance, Deploy(j) \/ AddCommand(j) \/ UpCommand(j)
      PROVE  Lone(i) /\ hurt' = hurt /\ early' = early
  BY <1>3 DEF Deploy, AddCommand, UpCommand, Begin
<1>4. ASSUME NEW j \in Instance,
             \/ List(j) \/ Check(j) \/ UpList(j) \/ RunUnknown(j) \/ RunV2(j) \/ RunTemplate(j)
             \/ Close(j) \/ Applied(j)
      PROVE  Lone(i) /\ hurt' = hurt /\ early' = early
  BY <1>4 DEF List, Check, UpList, RunUnknown, RunV2, RunTemplate, Close, Applied, history
<1>5. ASSUME NEW j \in Instance, Count(j)
      PROVE  Lone(i) /\ hurt' = hurt /\ early' = early
  <2>1. places' = places /\ hurt' = hurt /\ early' = (early \/ (rows = {} /\ plan[j].kind = "add"))
    BY <1>5 DEF Count
  <2> QED
    BY <2>1, Zenon
<1>6. ASSUME NEW j \in Instance, Create(j) \/ RunV1(j) \/ Mark(j)
      PROVE  Lone(i) /\ hurt' = hurt /\ early' = early
  <2>1. places' = places /\ early' = early /\ (hurt' = hurt \/ hurt' = TRUE)
    BY <1>6 DEF Create, RunV1, Mark
  <2> QED
    BY <2>1
<1>7. ASSUME NEW j \in Instance, Rejected(j) \/ Fail(j) \/ Stop(j)
      PROVE  Lone(i) /\ hurt' = hurt /\ early' = early
  <2>1. places' = places /\ early' = early /\ (hurt => hurt')
    BY <1>7 DEF Rejected, Fail, Stop
  <2>2. hurt' \in BOOLEAN
    BY <1>7 DEF Rejected, Fail, Stop
  <2> QED
    BY <2>1, <2>2
<1> QED
  BY <1>1, <1>2, <1>3, <1>4, <1>5, <1>6, <1>7 DEF Next, Step, Query

(* Every step is then the place's own.                                     *)
LEMMA NobodyElse ==
  ASSUME State, Next, NEW i \in Instance, LoneTable(i), Lone(i)'
  PROVE  \/ Deploy(i) \/ AddCommand(i) \/ UpCommand(i)
         \/ Step(i) \/ Query(i) \/ Fail(i) \/ Stop(i)
<1>1. ~OrphanEnds
  BY DEF OrphanEnds, LoneTable
<1>2. ASSUME NEW j \in Instance \ {i},
             \/ Deploy(j) \/ AddCommand(j) \/ UpCommand(j)
             \/ Step(j) \/ Query(j) \/ Fail(j) \/ Stop(j)
      PROVE  FALSE
  <2>1. pc[j] = "stopped" /\ flight[j] = {}
    BY DEF LoneTable
  <2>2. CASE Deploy(j) \/ AddCommand(j) \/ UpCommand(j)
    <3>1. j \in places'
      BY <2>2 DEF Deploy, AddCommand, UpCommand, Begin
    <3> QED
      BY <3>1 DEF Lone
  <2>3. CASE Query(j)
    BY <2>1, <2>3 DEF Query, Applied, Rejected
  <2>4. CASE Step(j) \/ Fail(j) \/ Stop(j)
    BY <2>1, <2>4 DEF Step, List, Count, Create, Check, UpList, RunUnknown, RunV1, RunV2,
                      RunTemplate, Take, Mark, Close, Fail, Stop, Syncing, Upping
  <2> QED
    BY <1>2, <2>2, <2>3, <2>4
<1> QED
  BY <1>1, <1>2 DEF Next

(* A place has one row of a file.                                          *)
LEMMA OneRowOfAFile ==
  ASSUME State, NEW i \in Instance, LoneTable(i),
         NEW r \in rows, NEW q \in rows, r.file = q.file
  PROVE  r = q
<1>1. r \in Row /\ q \in Row /\ r.by = i /\ q.by = i
  BY DEF State, TableState, LoneTable
<1> QED
  BY <1>1 DEF Row

(* What a step of a lone place must keep; a container does not end in it.  *)
GoesOn(i) == plan[i].kind = "serve" /\ pc[i] \in Working => pc'[i] # "stopped"

LEMMA LoneBegins ==
  ASSUME State, NEW i \in Instance, LoneState(i), Lone(i)',
         Deploy(i) \/ AddCommand(i) \/ UpCommand(i)
  PROVE  LoneState(i)' /\ GoesOn(i)
<1> USE DEF LoneState
<1>1. PICK kind, of, label : Begin(i, kind, of, label) /\ label \in {"s_list", "s_count", "u_list"}
  BY DEF Deploy, AddCommand, UpCommand
<1>2. /\ UNCHANGED <<rows, complete, tables, files, flight, orphans, fresh, alien, todo>>
      /\ pc[i] = "stopped" /\ pc'[i] = label /\ plan'[i] = [kind |-> kind, of |-> of]
      /\ \A j \in Instance \ {i} : pc'[j] = pc[j]
  BY <1>1 DEF Begin, Goto, schema, State, LocalTypes
<1>3. fresh[i] = {} /\ flight[i] = {}
  BY <1>2 DEF LoneSync, LoneUp
<1>4. \/ kind = "serve" /\ label = "s_list"
      \/ kind = "add" /\ label = "s_count" /\ held'[i] \in Row /\ held'[i].by = i
      \/ label = "u_list"
  <2>1. CASE Deploy(i)
    <3>1. pc'[i] = "s_list" /\ plan'[i].kind = "serve"
      BY <2>1 DEF Deploy, Begin, Goto, State, LocalTypes
    <3> QED
      BY <1>2, <3>1
  <2>2. CASE AddCommand(i)
    <3>1. pc'[i] = "s_count" /\ plan'[i].kind = "add"
      BY <2>2 DEF AddCommand, Begin, Goto, State, LocalTypes
    <3>2. \A x \in Extra : [by |-> i, file |-> [version |-> 0, name |-> x]] \in Row
      BY DEF Row, File
    <3>3. held'[i] \in Row /\ held'[i].by = i
      BY <2>2, <3>2 DEF AddCommand, State, LocalTypes
    <3> QED
      BY <1>2, <3>1, <3>3
  <2>3. CASE UpCommand(i)
    <3>1. pc'[i] = "u_list"
      BY <2>3 DEF UpCommand, Begin, Goto, State, LocalTypes
    <3> QED
      BY <1>2, <3>1
  <2> QED
    BY <2>1, <2>2, <2>3
<1>5. LoneTable(i)'
  BY <1>1, <1>2 DEF LoneTable, Listed
<1>6. LoneSync(i)'
  BY <1>2, <1>3, <1>4 DEF LoneSync, Fresh
<1>7. LoneUp(i)'
  BY <1>1, <1>2, <1>3 DEF LoneUp, Marked
<1> QED
  BY <1>2, <1>5, <1>6, <1>7 DEF GoesOn, Working, Syncing, Upping

(* Where no statement of up is under way, and none comes next, what up has *)
(* done is as before.                                                      *)
LEMMA UpAsBefore ==
  ASSUME State, NEW i \in Instance, LoneUp(i), pc[i] \in Syncing,
         pc'[i] \in Syncing \cup {"u_list", "stopped"},
         todo'[i] \in {todo[i], {}}, rows \subseteq rows',
         UNCHANGED <<complete, tables, flight>>
  PROVE  LoneUp(i)'
BY DEF LoneUp, Marked, Syncing

(* The file that NextFile takes in a container, where S holds what is left *)
(* of the shipped scripts.                                                 *)
LEMMA NextOfShipped ==
  ASSUME State, NEW i \in Instance, NEW S, S \subseteq Shipped, NextFile(i, S)
  PROVE  \/ /\ S = {} /\ pc'[i] = "s_check"
            /\ UNCHANGED <<fresh, held>>
         \/ /\ V1 \in S /\ pc'[i] = "s_count"
            /\ held'[i] = [by |-> i, file |-> V1] /\ held'[i] \in Row
            /\ fresh'[i] = S \ {V1}
         \/ /\ S = {V2} /\ pc'[i] = "s_create"
            /\ held'[i] = [by |-> i, file |-> V2] /\ held'[i] \in Row
            /\ fresh'[i] = {}
<1> USE DEF Goto, State, LocalTypes
<1>1. CASE S = {}
  BY <1>1 DEF NextFile
<1>2. CASE S # {}
  <2>1. PICK f \in S :
          /\ \A g \in S : f.version <= g.version
          /\ held' = [held EXCEPT ![i] = [by |-> i, file |-> f]]
          /\ fresh' = [fresh EXCEPT ![i] = S \ {f}]
          /\ pc' = [pc EXCEPT ![i] = IF f.version > 1 THEN "s_create" ELSE "s_count"]
    BY <1>2 DEF NextFile, LowestFile
  <2>2. [by |-> i, file |-> f] \in Row
    BY DEF Row, File, Shipped, V1, V2
  <2>3. /\ held'[i] = [by |-> i, file |-> f] /\ fresh'[i] = S \ {f}
        /\ pc'[i] = IF f.version > 1 THEN "s_create" ELSE "s_count"
    BY <2>1
  <2>4. CASE f = V1
    <3>1. ~(f.version > 1)
      BY <2>4 DEF V1
    <3> QED
      BY <2>2, <2>3, <2>4, <3>1
  <2>5. CASE f = V2
    <3>1. f.version > 1 /\ ~(f.version <= V1.version)
      BY <2>5 DEF V1, V2
    <3>2. S = {V2}
      BY <2>1, <2>5, <3>1 DEF Shipped
    <3> QED
      BY <2>2, <2>3, <2>5, <3>1, <3>2
  <2> QED
    BY <2>4, <2>5 DEF Shipped
<1> QED
  BY <1>1, <1>2

LEMMA LoneLists ==
  ASSUME State, NEW i \in Instance, LoneState(i), Lone(i)', List(i)
  PROVE  LoneState(i)' /\ GoesOn(i)
<1> USE DEF LoneState
<1> DEFINE new == files[i] \ {r.file : r \in rows}
<1>1. /\ UNCHANGED <<rows, complete, files, tables, flight, orphans, plan, todo>>
      /\ pc[i] = "s_list" /\ NextFile(i, new)
  BY DEF List, schema
<1>2. plan[i].kind = "serve" /\ fresh[i] = {}
  BY <1>1 DEF LoneSync
<1>3. {r.file : r \in rows} \subseteq files[i]
  BY DEF LoneTable
<1>4. i \notin alien'
  BY <1>3 DEF List
<1>5. /\ new \subseteq Shipped
      /\ \A f \in Shipped : Listed(f) \/ f \in new
      /\ \A f \in new : ~Listed(f)
  BY <1>1 DEF LoneTable, Listed, State, PlaceState
<1> HIDE DEF new
<1>6. \/ /\ new = {} /\ pc'[i] = "s_check"
         /\ UNCHANGED <<fresh, held>>
      \/ /\ V1 \in new /\ pc'[i] = "s_count"
         /\ held'[i] = [by |-> i, file |-> V1] /\ held'[i] \in Row
         /\ fresh'[i] = new \ {V1}
      \/ /\ new = {V2} /\ pc'[i] = "s_create"
         /\ held'[i] = [by |-> i, file |-> V2] /\ held'[i] \in Row
         /\ fresh'[i] = {}
  BY <1>1, <1>5, NextOfShipped
<1>7. \A j \in Instance \ {i} : pc'[j] = pc[j]
  BY MarksStay DEF Step
<1>8. V1 \in Shipped /\ V2 \in Shipped /\ V1 # V2 /\ Shipped \subseteq files[i] /\ Shipped = {V1, V2}
  BY DEF State, PlaceState, Shipped, V1, V2
<1>9. LoneTable(i)'
  BY <1>1, <1>4, <1>7 DEF LoneTable, Listed
<1>10. LoneUp(i)'
  BY <1>1, <1>6, UpAsBefore DEF Syncing
<1>11. LoneSync(i)'
  <2>1. CASE new = {} /\ pc'[i] = "s_check" /\ UNCHANGED <<fresh, held>>
    BY <1>1, <1>2, <1>5, <2>1 DEF LoneSync, Listed
  <2>2. CASE /\ V1 \in new /\ pc'[i] = "s_count"
             /\ held'[i] = [by |-> i, file |-> V1] /\ held'[i] \in Row
             /\ fresh'[i] = new \ {V1}
    <3>1. rows = {}
      BY <1>5, <2>2 DEF LoneTable
    <3>2. fresh'[i] \subseteq {V2}
      BY <1>5, <1>8, <2>2
    <3> QED
      BY <1>1, <1>2, <1>5, <1>8, <2>2, <3>1, <3>2 DEF LoneSync, Fresh, Listed
  <2>3. CASE /\ new = {V2} /\ pc'[i] = "s_create"
             /\ held'[i] = [by |-> i, file |-> V2] /\ held'[i] \in Row
             /\ fresh'[i] = {}
    <3>1. Listed(V1)
      BY <1>5, <1>8, <2>3
    <3> QED
      BY <1>1, <1>2, <1>5, <1>8, <2>3, <3>1 DEF LoneSync, Fresh, Listed
  <2> QED
    BY <1>6, <2>1, <2>2, <2>3
<1> QED
  BY <1>6, <1>9, <1>10, <1>11 DEF GoesOn

LEMMA LoneCounts ==
  ASSUME State, NEW i \in Instance, LoneState(i), Lone(i)', Count(i)
  PROVE  LoneState(i)' /\ GoesOn(i)
<1> USE DEF LoneState
<1> DEFINE f == [held[i].file EXCEPT !.version = NextNumber]
           row == [by |-> i, file |-> f]
<1>1. /\ UNCHANGED <<rows, complete, tables, flight, orphans, plan, fresh, alien, todo>>
      /\ pc[i] = "s_count" /\ pc'[i] = "s_create" /\ held'[i] = row
      /\ files'[i] = files[i] \cup {f}
      /\ \A j \in Instance \ {i} : pc'[j] = pc[j]
  BY DEF Count, Goto, schema, State, LocalTypes
<1>2. Fresh(i) /\ plan[i].kind \in {"serve", "add"}
  BY <1>1 DEF LoneSync
<1>3. row \in Row
  <2>1. NextNumber \in Nat
    BY FS_CardinalityType DEF NextNumber, State, TableState
  <2> QED
    BY <1>2, <2>1 DEF Fresh, Row, File
<1>4. plan[i].kind = "add" => rows # {}
  <2>1. early' = (early \/ (rows = {} /\ plan[i].kind = "add")) /\ ~early'
    BY DEF Count, Lone
  <2> QED
    BY Zenon, <2>1
<1>5. plan[i].kind = "serve" => rows = {} /\ f = V1
  <2> SUFFICES ASSUME plan[i].kind = "serve"
               PROVE  rows = {} /\ f = V1
    OBVIOUS
  <2>1. rows = {} /\ held[i].file = V1
    BY <1>1, <1>2 DEF Fresh
  <2>2. NextNumber = 1
    BY <2>1, FS_EmptySet DEF NextNumber
  <2> QED
    BY <2>1, <2>2 DEF V1
<1> HIDE DEF f, row
<1>6. row.file = f /\ row.by = i
  BY DEF row
<1>7. LoneTable(i)'
  BY <1>1, <1>6 DEF LoneTable, Listed
<1>8. LoneUp(i)'
  BY <1>1, UpAsBefore DEF Syncing
<1>9. Fresh(i)'
  BY <1>1, <1>2, <1>3, <1>4, <1>5, <1>6 DEF Fresh, Listed
<1>10. LoneSync(i)'
  BY <1>1, <1>2, <1>9 DEF LoneSync
<1> QED
  BY <1>1, <1>7, <1>8, <1>10 DEF GoesOn

LEMMA LoneCreates ==
  ASSUME State, NEW i \in Instance, LoneState(i), Lone(i)', Create(i)
  PROVE  LoneState(i)' /\ GoesOn(i)
<1> USE DEF LoneState
<1>1. /\ UNCHANGED <<complete, tables, files, flight, orphans>>
      /\ pc[i] = "s_create" /\ rows' = rows \cup {held[i]}
  BY DEF Create, schema
<1>2. Fresh(i)
  BY <1>1 DEF LoneSync
<1>3. \A j \in Instance \ {i} : pc'[j] = pc[j]
  BY MarksStay DEF Step
<1>4. held[i].by = i /\ held[i].file \in files[i] /\ Listed(V1)'
  <2>1. plan[i].kind \in {"serve", "add"}
    BY <1>1 DEF LoneSync
  <2>2. Listed(V1) \/ held[i].file = V1
    BY <1>1, <1>2, <2>1 DEF Fresh, LoneTable
  <2> QED
    BY <1>1, <1>2, <2>2 DEF Fresh, Listed
<1>5. \A f : Listed(f)' <=> Listed(f) \/ f = held[i].file
  BY <1>1 DEF Listed
<1>6. \/ /\ plan[i].kind = "serve" /\ NextFile(i, fresh[i])
         /\ UNCHANGED <<plan, alien, todo>>
      \/ plan[i].kind = "add" /\ End(i, "stopped")
  BY DEF Create, Lone
<1>7. i \notin alien'
  BY <1>6 DEF LoneTable, End
<1>8. LoneTable(i)'
  BY <1>1, <1>3, <1>4, <1>5, <1>7 DEF LoneTable
<1>9. CASE plan[i].kind = "serve" /\ NextFile(i, fresh[i]) /\ UNCHANGED <<plan, alien, todo>>
  <2>1. /\ fresh[i] \subseteq {V2}
        /\ \A f \in Shipped : Listed(f)' \/ f \in fresh[i]
    BY <1>2, <1>5, <1>9 DEF Fresh
  <2>2. V1 \in Shipped /\ V2 \in Shipped /\ V1 # V2 /\ V2 \in files[i]
    BY DEF State, PlaceState, Shipped, V1, V2
  <2>3. \/ /\ fresh[i] = {} /\ pc'[i] = "s_check"
           /\ UNCHANGED <<fresh, held>>
        \/ /\ fresh[i] = {V2} /\ pc'[i] = "s_create"
           /\ held'[i] = [by |-> i, file |-> V2] /\ held'[i] \in Row
           /\ fresh'[i] = {}
    <3>1. fresh[i] \subseteq Shipped /\ V1 \notin fresh[i]
      BY <2>1, <2>2
    <3> QED
      BY <1>9, <3>1, NextOfShipped
  <2>4. LoneUp(i)'
    BY <1>1, <1>9, <2>3, UpAsBefore DEF Syncing
  <2>5. LoneSync(i)'
    BY <1>1, <1>4, <1>9, <2>1, <2>2, <2>3 DEF LoneSync, Fresh
  <2> QED
    BY <1>8, <2>3, <2>4, <2>5 DEF GoesOn
<1>10. CASE plan[i].kind = "add" /\ End(i, "stopped")
  <2>1. pc'[i] = "stopped" /\ todo'[i] = {} /\ fresh'[i] = {}
    BY <1>10 DEF End, Goto, State, LocalTypes
  <2>2. LoneUp(i)'
    BY <1>1, <2>1, UpAsBefore DEF Syncing
  <2> QED
    BY <1>8, <1>10, <2>1, <2>2 DEF GoesOn, LoneSync
<1> QED
  BY <1>6, <1>9, <1>10

LEMMA LoneChecks ==
  ASSUME State, NEW i \in Instance, LoneState(i), Lone(i)', Check(i)
  PROVE  LoneState(i)' /\ GoesOn(i)
<1> USE DEF LoneState
<1>1. pc[i] = "s_check" /\ plan[i].kind = "serve" /\ fresh[i] = {} /\ \A f \in Shipped : Listed(f)
  BY DEF Check, LoneSync
<1>2. ~(i \in alien \/ \E f \in files[i] : \A r \in rows : r.file # f)
  BY <1>1 DEF LoneTable, Listed
<1>3. /\ UNCHANGED <<rows, complete, tables, files, flight, orphans, plan, fresh, alien, held, todo>>
      /\ pc'[i] = "u_list" /\ \A j \in Instance \ {i} : pc'[j] = pc[j]
  BY <1>2 DEF Check, Goto, schema, local, State, LocalTypes
<1>4. LoneUp(i)'
  BY <1>1, <1>3, UpAsBefore DEF Syncing
<1> QED
  BY <1>1, <1>3, <1>4 DEF LoneTable, Listed, LoneSync, GoesOn

(* A row that waits to be run has not been marked.                         *)
LEMMA TodoIsUnmarked ==
  ASSUME State, NEW i \in Instance, LoneState(i), pc[i] = "u_run",
         NEW r \in todo[i], NEW q \in rows, q.file = r.file
  PROVE  ~Marked(i, q)
<1>1. q = r
  BY OneRowOfAFile DEF LoneState, State, LocalTypes
<1> QED
  BY <1>1 DEF Marked, LoneState, LoneUp

(* What the statements of up leave as it is.                               *)
LEMMA TableAsBefore ==
  ASSUME NEW i \in Instance, LoneTable(i), LoneSync(i), pc[i] \in Upping,
         UNCHANGED <<rows, files, orphans, alien, plan>>, fresh' = fresh,
         \A j \in Instance \ {i} : pc'[j] = pc[j] /\ flight'[j] = flight[j],
         pc'[i] \in Upping
  PROVE  LoneTable(i)' /\ LoneSync(i)' /\ GoesOn(i)
BY DEF LoneTable, LoneSync, Listed, Upping, GoesOn

LEMMA LoneContinues ==
  ASSUME State, NEW i \in Instance, LoneState(i), Lone(i)',
         UpList(i) \/ RunUnknown(i) \/ Mark(i)
  PROVE  LoneState(i)' /\ GoesOn(i)
<1> USE DEF LoneState
<1>1. /\ UNCHANGED <<rows, files, tables, flight, orphans, alien, plan, fresh, held>>
      /\ pc[i] \in {"u_list", "u_run", "u_mark"}
  BY DEF UpList, RunUnknown, Mark, schema
<1>2. PICK S : Continue(i, S) /\
        \/ pc[i] = "u_list" /\ S = Selected(plan[i]) /\ complete' = complete
        \/ pc[i] = "u_run" /\ S \subseteq todo[i] /\ complete' = complete
        \/ pc[i] = "u_mark" /\ S = todo[i] /\ complete' = complete \cup {held[i]}
  <2>1. Mark(i) => Continue(i, todo[i])
    BY DEF Mark, Lone
  <2>2. RunUnknown(i) => \E r \in todo[i] : Continue(i, todo[i] \ {r})
    BY DEF RunUnknown, LowestRow
  <2> QED
    BY <2>1, <2>2 DEF UpList, RunUnknown, Mark
<1>3. /\ todo'[i] = S /\ pc'[i] \in {"u_run", "u_close"}
      /\ \A j \in Instance \ {i} : pc'[j] = pc[j]
  BY <1>2 DEF Continue, Goto, State, LocalTypes
<1>4. S \cap complete' = {}
  BY <1>2 DEF LoneUp, Selected, Pending
<1>5. \A r : Marked(i, r) => Marked(i, r)'
  BY <1>2 DEF Marked
<1>6. LoneTable(i)' /\ LoneSync(i)' /\ GoesOn(i)
  BY <1>1, <1>3, TableAsBefore DEF Upping
<1>7. LoneUp(i)'
  <2>1. flight[i] # {} => pc[i] # "u_list"
    BY DEF LoneUp
  <2> HIDE DEF Marked
  <2> QED
    BY <1>1, <1>3, <1>4, <1>5, <2>1 DEF LoneUp
<1> QED
  BY <1>6, <1>7

LEMMA LoneRuns ==
  ASSUME State, NEW i \in Instance, LoneState(i), Lone(i)',
         RunV1(i) \/ RunV2(i) \/ RunTemplate(i)
  PROVE  LoneState(i)' /\ GoesOn(i)
<1> USE DEF LoneState
<1>1. PICK f : /\ Take(i, f)
               /\ \/ f = V1 /\ RunV1(i)
                  \/ f = V2 /\ RunV2(i)
                  \/ f \notin Shipped /\ RunTemplate(i)
  BY DEF RunV1, RunV2, RunTemplate
<1>2. PICK r \in todo[i] :
        /\ r \in rows /\ r.file = f /\ held'[i] = r /\ todo'[i] = todo[i] \ {r}
        /\ \A q \in todo[i] : r.file.version <= q.file.version
  BY <1>1 DEF Take, LowestRow, State, LocalTypes
<1>3. pc[i] = "u_run" /\ UNCHANGED <<rows, complete, files, orphans, alien, plan, fresh>>
  BY <1>1 DEF Take, RunV1, RunV2, RunTemplate, schema
<1>4. ~\E q \in rows : q.file = f /\ Marked(i, q)
  BY <1>2, <1>3, TodoIsUnmarked
<1>5. f = V1 => "users" \notin tables
  BY <1>4 DEF LoneUp
<1>6. f = V2 => "documents" \notin tables
  BY <1>4 DEF LoneUp
<1>7. V1 # V2 /\ V1 \in Shipped /\ V2 \in Shipped
  BY DEF V1, V2, Shipped
<1>8. pc' = [pc EXCEPT ![i] = "u_mark"]
  BY <1>1, <1>5, <1>7 DEF RunV1, RunV2, RunTemplate, Goto, Lone
<1>9. pc'[i] = "u_mark" /\ \A j \in Instance \ {i} : pc'[j] = pc[j]
  BY <1>8 DEF State, LocalTypes
<1>10. /\ \A j \in Instance \ {i} : flight'[j] = flight[j]
       /\ flight'[i] \subseteq flight[i] \cup {r}
       /\ f # V2 => flight'[i] = flight[i]
       /\ tables' = IF f = V1 THEN tables \cup {"users"} ELSE tables
  BY <1>1, <1>2, <1>7 DEF RunV1, RunV2, RunTemplate, schema, State, LocalTypes
<1>11. LoneTable(i)' /\ LoneSync(i)' /\ GoesOn(i)
  BY <1>3, <1>9, <1>10, TableAsBefore DEF Upping
<1>12. \A q : Marked(i, q) \/ q = r => Marked(i, q)'
  BY <1>2, <1>3, <1>9 DEF Marked
<1>13. f = V2 /\ plan[i].kind = "serve" => "users" \in tables
  <2> SUFFICES ASSUME f = V2, plan[i].kind = "serve"
               PROVE  Made(V1)
    BY DEF Made
  <2>1. Made(V1) \/ \E q \in todo[i] : q.file = V1
    BY <1>3, <1>7 DEF State, PlaceState
  <2>2. ~(V2.version <= V1.version)
    BY DEF V1, V2
  <2> QED
    BY <1>2, <2>1, <2>2
<1>14. LoneUp(i)'
  <2>1. todo'[i] \cap complete' = {} /\ held'[i] \notin todo'[i]
    BY <1>2, <1>3 DEF LoneUp
  <2>2. "users" \in tables' => \E q \in rows' : q.file = V1 /\ Marked(i, q)'
    <3>1. CASE f = V1
      BY <1>2, <1>3, <1>12, <3>1
    <3>2. CASE f # V1
      BY <1>3, <1>10, <1>12, <3>2 DEF LoneUp
    <3> QED
      BY <3>1, <3>2
  <2>3. "documents" \in tables' =>
          flight'[i] = {} /\ \E q \in rows' : q.file = V2 /\ Marked(i, q)'
    <3> SUFFICES ASSUME "documents" \in tables'
                 PROVE  flight'[i] = {} /\ \E q \in rows' : q.file = V2 /\ Marked(i, q)'
      OBVIOUS
    <3>1. "documents" \in tables
      BY <1>10
    <3> QED
      BY <1>3, <1>6, <1>10, <1>12, <3>1 DEF LoneUp
  <2>4. \A q \in flight'[i] : q.file = V2 /\ Marked(i, q)'
    BY <1>2, <1>10, <1>12 DEF LoneUp
  <2>5. flight'[i] # {} /\ plan'[i].kind = "serve" => "users" \in tables'
    BY <1>3, <1>10, <1>13 DEF LoneUp
  <2> QED
    BY <1>9, <2>1, <2>2, <2>3, <2>4, <2>5 DEF LoneUp
<1> QED
  BY <1>11, <1>14

LEMMA LoneEnds ==
  ASSUME State, NEW i \in Instance, LoneState(i), Lone(i)',
         Close(i) \/ Rejected(i) \/ Fail(i) \/ Stop(i)
  PROVE  LoneState(i)' /\ GoesOn(i)
<1> USE DEF LoneState
<1>1. /\ ~Fail(i)
      /\ UNCHANGED <<rows, complete, files, tables>>
  BY DEF Close, Rejected, Fail, Stop, Lone, schema
<1>2. Rejected(i) => flight[i] # {} /\ ~V2Applies
  <2> SUFFICES ASSUME Rejected(i) PROVE flight[i] # {} /\ ~V2Applies
    OBVIOUS
  <2>1. hurt' = (hurt \/ V2Applies) /\ ~hurt'
    BY DEF Rejected, Lone
  <2>2. ~V2Applies
    BY Zenon, <2>1
  <2> QED
    BY <2>2 DEF Rejected
<1>3. Stop(i) => pc[i] = "serving"
  <2> SUFFICES ASSUME Stop(i) PROVE pc[i] = "serving"
    OBVIOUS
  <2>1. hurt' = (hurt \/ pc[i] # "serving") /\ ~hurt'
    BY DEF Stop, Lone
  <2> QED
    BY Zenon, <2>1
<1>4. Close(i) => flight[i] = {} /\ pc[i] = "u_close"
  BY DEF Close, LoneUp
<1>5. \A q \in flight[i], r \in flight[i] : q = r
  <2> SUFFICES ASSUME NEW q \in flight[i], NEW r \in flight[i] PROVE q = r
    OBVIOUS
  <2>1. q \in rows /\ r \in rows /\ q.file = r.file
    BY DEF LoneUp, State, LocalTypes
  <2> QED
    BY <2>1, OneRowOfAFile
<1>6. orphans' = {} /\ flight' = [flight EXCEPT ![i] = {}]
  <2>1. CASE Close(i)
    BY <1>4, <2>1 DEF Close, schema, LoneTable, State, LocalTypes
  <2>2. CASE Rejected(i)
    BY <1>5, <2>2 DEF Rejected, LoneTable
  <2>3. CASE Stop(i)
    BY <1>3, <2>3 DEF Stop, LoneUp, LoneTable
  <2> QED
    BY <1>1, <2>1, <2>2, <2>3
<1>7. \E label \in {"stopped", "serving"} :
        End(i, label) /\ (label = "stopped" => ~Close(i) \/ plan[i].kind # "serve")
  BY <1>1, <1>4 DEF Close, Rejected, Stop
<1>8. /\ pc'[i] \in {"stopped", "serving"} /\ todo'[i] = {} /\ fresh'[i] = {} /\ i \notin alien'
      /\ flight'[i] = {}
      /\ \A j \in Instance \ {i} : pc'[j] = pc[j] /\ flight'[j] = flight[j]
  BY <1>6, <1>7 DEF End, Goto, State, LocalTypes
<1>9. pc'[i] = "stopped" => ~Close(i) \/ plan[i].kind # "serve"
  BY <1>7 DEF End, Goto, State, LocalTypes
<1>10. Rejected(i) => plan[i].kind # "serve" /\ "users" \notin tables /\ "documents" \notin tables
  BY <1>2 DEF LoneUp, V2Applies
<1>11. GoesOn(i)
  BY <1>1, <1>3, <1>9, <1>10 DEF GoesOn, Working, Syncing, Upping
<1>12. LoneTable(i)'
  <2>1. pc[i] # "s_create"
    BY <1>1, <1>2, <1>3, <1>4 DEF LoneUp
  <2> QED
    BY <1>1, <1>6, <1>8, <2>1 DEF LoneTable, Listed
<1>13. LoneSync(i)'
  BY <1>8 DEF LoneSync
<1>14. LoneUp(i)'
  <2>1. ~Rejected(i) => \A r : Marked(i, r) => Marked(i, r)'
    BY <1>1, <1>3, <1>4 DEF Marked
  <2> HIDE DEF Marked
  <2> QED
    BY <1>1, <1>8, <1>10, <2>1 DEF LoneUp
<1> QED
  BY <1>11, <1>12, <1>13, <1>14

LEMMA LoneIsApplied ==
  ASSUME State, NEW i \in Instance, LoneState(i), Applied(i)
  PROVE  LoneState(i)' /\ GoesOn(i)
<1> USE DEF LoneState
<1>1. PICK r \in flight[i] : flight' = [flight EXCEPT ![i] = flight[i] \ {r}]
  BY DEF Applied
<1>2. /\ UNCHANGED <<rows, complete, files, orphans, pc, plan, fresh, alien, held, todo>>
      /\ tables' = tables \cup {"documents"} /\ "users" \in tables
  BY DEF Applied, local, history, V2Applies
<1>3. r \in rows /\ r.file = V2 /\ Marked(i, r) /\ pc[i] \in {"u_run", "u_mark", "u_close"}
  BY DEF LoneUp, State, LocalTypes
<1>4. \A q \in flight[i] : q = r
  <2> SUFFICES ASSUME NEW q \in flight[i] PROVE q = r
    OBVIOUS
  <2>1. q \in rows /\ q.file = r.file
    BY <1>3 DEF LoneUp, State, LocalTypes
  <2> QED
    BY <1>3, <2>1, OneRowOfAFile
<1>5. flight'[i] = {} /\ \A j \in Instance \ {i} : flight'[j] = flight[j]
  BY <1>1, <1>4 DEF State, LocalTypes
<1>6. LoneTable(i)' /\ LoneSync(i)' /\ GoesOn(i)
  BY <1>2, <1>3, <1>5, TableAsBefore DEF Upping
<1>7. LoneUp(i)'
  BY <1>2, <1>3, <1>5 DEF LoneUp, Marked
<1> QED
  BY <1>6, <1>7

(* A step of a place that stays alone.                                     *)
LEMMA LoneGoesOn ==
  ASSUME State, Next, NEW i \in Instance, LoneState(i), Lone(i)'
  PROVE  LoneState(i)' /\ GoesOn(i)
<1>1. \/ Deploy(i) \/ AddCommand(i) \/ UpCommand(i)
      \/ Step(i) \/ Query(i) \/ Fail(i) \/ Stop(i)
  BY NobodyElse DEF LoneState
<1> QED
  BY <1>1, LoneBegins, LoneLists, LoneCounts, LoneCreates, LoneChecks, LoneContinues, LoneRuns,
     LoneEnds, LoneIsApplied DEF Step, Query

(* The tables and the process of a place that is alone.                    *)
LEMMA LonePlaces == Spec => [](\A i \in Instance : Lone(i) => LoneState(i))
<1>1. Init => \A i \in Instance : Lone(i) => LoneState(i)
  BY DEF Init, LoneState, LoneTable, LoneSync, LoneUp
<1>2. State /\ (\A i \in Instance : Lone(i) => LoneState(i)) /\ [Next]_vars
        => (\A i \in Instance : Lone(i) => LoneState(i))'
  <2> SUFFICES ASSUME State, \A j \in Instance : Lone(j) => LoneState(j), [Next]_vars,
                      NEW i \in Instance, Lone(i)'
               PROVE  LoneState(i)'
    OBVIOUS
  <2>1. LoneState(i)
    BY LoneBefore
  <2>2. CASE Next
    BY <2>1, <2>2, LoneGoesOn
  <2>3. CASE UNCHANGED vars
    <3>1. UNCHANGED <<rows, complete, files, tables, flight, orphans, pc, plan, fresh, alien, held, todo>>
      BY <2>3 DEF vars, schema, local
    <3> QED
      BY <2>1, <3>1 DEF LoneState, LoneTable, LoneSync, LoneUp, Fresh, Listed, Marked
  <2> QED
    BY <2>2, <2>3
<1> QED
  BY <1>1, <1>2, CommandsAndRows, PTL DEF Spec

(* A container alone with a database ends only in its application or in a  *)
(* failure, for however many commands came before it at its place          *)
(* (package.json:24, migration.service.ts:38-51,112-127).                  *)
THEOREM AloneItNeverGivesUp == Spec => [][AloneItGoesOn]_vars
<1>1. State /\ (\A i \in Instance : Lone(i) => LoneState(i)) /\ [Next]_vars
        => [AloneItGoesOn]_vars
  <2> SUFFICES ASSUME State, \A j \in Instance : Lone(j) => LoneState(j), Next,
                      NEW i \in Instance,
                      plan[i].kind = "serve", pc[i] \in Working,
                      pc'[i] \in {"stopped", "u_abort"}, ~(hurt \/ early \/ places # {i})'
               PROVE  FALSE
    BY DEF AloneItGoesOn
  <2>1. Lone(i)'
    BY DEF Lone
  <2>2. LoneState(i)
    BY <2>1, LoneBefore
  <2>3. LoneState(i)' /\ GoesOn(i)
    BY <2>1, <2>2, LoneGoesOn
  <2> QED
    BY <2>3 DEF GoesOn, LoneState, LoneUp
<1> QED
  BY <1>1, CommandsAndRows, LonePlaces, PTL DEF Spec

=============================================================================
