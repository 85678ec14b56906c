----------------------------- MODULE Migration ------------------------------
(***************************************************************************)
(* Migration (backend/migration): the commands sync, add and up over the   *)
(* table migrations, the two scripts shipped with the code, and containers *)
(* that run sync, then up all, then the application, each a process of its *)
(* own that starts only after the last one ended well (package.json:24,    *)
(* Dockerfile).  Nothing keeps two containers, or an operator's command,   *)
(* from doing so at once over one database.                                *)
(*                                                                         *)
(* An action is one statement the command waits for with the code up to    *)
(* the next one.  A statement may fail, or take effect and lose its        *)
(* answer; a process may be stopped anywhere.  V1 awaits its transaction;  *)
(* V2 does not await its query, which runs on beside the command.          *)
(*                                                                         *)
(* The column hex is left out: nothing that changes the schema reads it.   *)
(***************************************************************************)
EXTENDS Naturals, FiniteSets

CONSTANTS
    Instance,   \* containers and checkouts, each with its own files
    Extra,      \* names an operator may pass to add
    Argument,   \* what an operator may pass to up
    MaxRuns,    \* how many commands and containers are started in all
    None        \* no row

V1 == [version |-> 1, name |-> "InitialScripts"]
V2 == [version |-> 2, name |-> "CreateTables"]

Shipped == {V1, V2}

File == [version : Nat, name : {f.name : f \in Shipped} \cup Extra]

(* A row of migrations: the place that made it and the file it is about.   *)
Row == [by : Instance, file : File]

(* What a process was started for: the container, add, or up with all, the *)
(* name of a script or its version.                                        *)
Plan == [kind : {"serve", "add", "all", "name", "version"}, of : Shipped]
NoPlan == [kind |-> "all", of |-> V1]

ASSUME ConstantsAssumption ==
    /\ MaxRuns \in Nat
    /\ None \notin Row
    /\ Argument \subseteq {p \in Plan : p.kind \notin {"serve", "add"}}

VARIABLES
    rows,       \* the rows of the table migrations
    complete,   \* those whose state is Complete; the others are Pending
    tables,     \* what the scripts have made
    files,      \* Instance -> the scripts of its store directory and index
    pc,         \* Instance -> the statement its process waits for
    plan,       \* Instance -> what its process was started for
    fresh,      \* Instance -> the files sync has still to add
    alien,      \* instances whose listing holds a row without a file here
    held,       \* Instance -> the row being made or run
    todo,       \* Instance -> the rows up has still to run
    flight,     \* Instance -> rows whose V2 query runs beside the process
    orphans,    \* rows whose V2 query outlived its process
    runs        \* commands and containers started so far

(* History variables: no action reads them.                                *)
VARIABLES
    torn,       \* V1 took effect and its process did not mark the row
    cut,        \* a query of V2 ended and there is no table documents
    early,      \* an operator's add counted no row
    places,     \* instances where a process was started
    hurt        \* a failure, a lost answer or a stop happened

schema  == <<tables, flight, orphans>>
local   == <<plan, fresh, alien, held, todo>>
history == <<torn, cut, early, places, hurt>>
vars    == <<rows, complete, files, schema, pc, local, runs, history>>

Syncing == {"s_list", "s_count", "s_create", "s_check"}
Upping  == {"u_list", "u_run", "u_mark", "u_close", "u_abort"}
Working == Syncing \cup Upping

TypeOK ==
    /\ rows \in SUBSET Row /\ complete \in SUBSET rows
    /\ tables \in SUBSET {"users", "documents"}
    /\ files \in [Instance -> SUBSET File]
    /\ pc \in [Instance -> Working \cup {"stopped", "serving"}]
    /\ plan \in [Instance -> Plan]
    /\ fresh \in [Instance -> SUBSET File]
    /\ alien \in SUBSET Instance
    /\ held \in [Instance -> Row \cup {None}]
    /\ todo \in [Instance -> SUBSET rows]
    /\ flight \in [Instance -> SUBSET rows] /\ orphans \in SUBSET rows
    /\ runs \in 0..MaxRuns /\ places \in SUBSET Instance
    /\ {torn, cut, early, hurt} \subseteq BOOLEAN

Init ==
    /\ rows = {} /\ complete = {} /\ tables = {}
    /\ files = [i \in Instance |-> Shipped]
    /\ pc = [i \in Instance |-> "stopped"]
    /\ plan = [i \in Instance |-> NoPlan]
    /\ fresh = [i \in Instance |-> {}]
    /\ alien = {}
    /\ held = [i \in Instance |-> None]
    /\ todo = [i \in Instance |-> {}]
    /\ flight = [i \in Instance |-> {}]
    /\ orphans = {}
    /\ runs = 0 /\ places = {}
    /\ torn = FALSE /\ cut = FALSE /\ early = FALSE /\ hurt = FALSE

-----------------------------------------------------------------------------
(* A definition whose name ends in _Bug is a plausible mistake in the      *)
(* definition after it; no specification uses it.                          *)

Goto(i, label) == pc' = [pc EXCEPT ![i] = label]

Pending == rows \ complete

(* sort and ORDER BY version ASC: rows of one version come in any order.   *)
LowestFile(S) == {f \in S : \A g \in S : f.version <= g.version}

LowestRow(S) == {r \in S : \A q \in S : r.file.version <= q.file.version}

(* makeFilter, and the condition on the state.                             *)
Selected(p) ==
    {r \in Pending : /\ p.kind = "name" => r.file.name = p.of.name
                     /\ p.kind = "version" => r.file.version = p.of.version}

(* A process starts only where none runs.                                  *)
Begin(i, kind, of, label) ==
    /\ pc[i] = "stopped"
    /\ runs < MaxRuns
    /\ runs' = runs + 1
    /\ places' = places \cup {i}
    /\ plan' = [plan EXCEPT ![i] = [kind |-> kind, of |-> of]]
    /\ Goto(i, label)
    /\ UNCHANGED <<rows, complete, files, schema, fresh, alien, todo, torn, cut, early, hurt>>

(* The process is gone and its memory with it.                             *)
End(i, label) ==
    /\ Goto(i, label)
    /\ plan' = [plan EXCEPT ![i] = NoPlan]
    /\ fresh' = [fresh EXCEPT ![i] = {}]
    /\ alien' = alien \ {i}
    /\ held' = [held EXCEPT ![i] = None]
    /\ todo' = [todo EXCEPT ![i] = {}]

Deploy(i) == Begin(i, "serve", V1, "s_list") /\ UNCHANGED held

AddCommand(i) ==
    /\ Begin(i, "add", V1, "s_count")
    /\ \E x \in Extra :
         held' = [held EXCEPT ![i] = [by |-> i, file |-> [version |-> 0, name |-> x]]]

UpCommand(i) ==
    /\ \E p \in Argument : Begin(i, p.kind, p.of, "u_list")
    /\ UNCHANGED held

-----------------------------------------------------------------------------
(* sync and add                                                            *)

(* The next file to add, of those in S; when none is left, the check.  A   *)
(* version above one is given to add as it is, the first one is counted.   *)
NextFile(i, S) ==
    IF S = {}
    THEN /\ Goto(i, "s_check")
         /\ UNCHANGED <<fresh, held>>
    ELSE \E f \in LowestFile(S) :
           /\ held' = [held EXCEPT ![i] = [by |-> i, file |-> f]]
           /\ fresh' = [fresh EXCEPT ![i] = S \ {f}]
           /\ Goto(i, IF f.version > 1 THEN "s_create" ELSE "s_count")

(* The files of the store directory without a row.  logInfo, which sync    *)
(* calls at its end when it found any, opens the file of every row listed. *)
List(i) ==
    LET listed == {r.file : r \in rows}
        new    == files[i] \ listed
    IN
    /\ pc[i] = "s_list"
    /\ NextFile(i, new)
    /\ alien' = IF new # {} /\ ~(listed \subseteq files[i])
                THEN alien \cup {i} ELSE alien \ {i}
    /\ UNCHANGED <<rows, complete, files, schema, plan, todo, runs, history>>

NextNumber_Bug == Cardinality(rows)

NextNumber == Cardinality(rows) + 1

(* add without a version takes the number of rows for the last one.        *)
(* generate makes the file from the template unless it is there.           *)
Count(i) ==
    LET f == [held[i].file EXCEPT !.version = NextNumber]
    IN
    /\ pc[i] = "s_count"
    /\ held' = [held EXCEPT ![i] = [by |-> i, file |-> f]]
    /\ files' = [files EXCEPT ![i] = @ \cup {f}]
    /\ Goto(i, "s_create")
    /\ early' = (early \/ (rows = {} /\ plan[i].kind = "add"))
    /\ UNCHANGED <<rows, complete, schema, plan, fresh, alien, todo, runs, torn, cut, places, hurt>>

(* The row is made Pending; add ends here, sync goes on.                   *)
Create(i) ==
    /\ pc[i] = "s_create"
    /\ rows' = rows \cup {held[i]}
    /\ \/ /\ plan[i].kind = "serve"
          /\ NextFile(i, fresh[i])
          /\ UNCHANGED <<plan, alien, todo, hurt>>
       \/ /\ plan[i].kind = "add"
          /\ End(i, "stopped")
          /\ UNCHANGED hurt
       \/ /\ End(i, "stopped")
          /\ hurt' = TRUE
    /\ UNCHANGED <<complete, files, schema, runs, torn, cut, early, places>>

(* Every file is looked up by name and version to compare its hash: one    *)
(* without a row throws.                                                   *)
Check(i) ==
    /\ pc[i] = "s_check"
    /\ IF i \in alien \/ \E f \in files[i] : \A r \in rows : r.file # f
       THEN End(i, "stopped")
       ELSE Goto(i, "u_list") /\ UNCHANGED local
    /\ UNCHANGED <<rows, complete, files, schema, runs, history>>

-----------------------------------------------------------------------------
(* up                                                                      *)

(* The rows still to run, or the end of the command.                       *)
Continue(i, S) ==
    /\ todo' = [todo EXCEPT ![i] = S]
    /\ Goto(i, IF S = {} THEN "u_close" ELSE "u_run")

UpList(i) ==
    /\ pc[i] = "u_list"
    /\ Continue(i, Selected(plan[i]))
    /\ UNCHANGED <<rows, complete, files, schema, plan, fresh, alien, held, runs, history>>

(* A row of another place's file is reported and passed over.              *)
RunUnknown(i) ==
    /\ pc[i] = "u_run"
    /\ \E r \in LowestRow(todo[i]) : r.file \notin files[i] /\ Continue(i, todo[i] \ {r})
    /\ UNCHANGED <<rows, complete, files, schema, plan, fresh, alien, held, runs, history>>

Take(i, f) ==
    /\ pc[i] = "u_run"
    /\ \E r \in LowestRow(todo[i]) :
         /\ r.file = f
         /\ f \in files[i]
         /\ held' = [held EXCEPT ![i] = r]
         /\ todo' = [todo EXCEPT ![i] = @ \ {r}]

(* The catch of V1.up rolls back and does not throw again.                 *)
RunV1Swallow_Bug(i) ==
    /\ Take(i, V1)
    /\ Goto(i, "u_mark")
    /\ \/ tables' = tables \cup {"users"} /\ UNCHANGED hurt
       \/ hurt' = TRUE /\ UNCHANGED tables
    /\ UNCHANGED <<rows, complete, files, flight, orphans, plan, fresh, alien, runs>>
    /\ UNCHANGED <<torn, cut, early, places>>

(* V1 written to run again over its own tables.                            *)
RunV1Again_Bug(i) ==
    /\ Take(i, V1)
    /\ tables' = tables \cup {"users"}
    /\ \/ Goto(i, "u_mark") /\ UNCHANGED <<torn, hurt>>
       \/ Goto(i, "u_abort") /\ torn' = TRUE /\ hurt' = TRUE
    /\ UNCHANGED <<rows, complete, files, flight, orphans, plan, fresh, alien, runs>>
    /\ UNCHANGED <<cut, early, places>>

(* V1.up: one transaction, committed before it returns.  Its function and  *)
(* its table exist after that and a second run throws; so does a commit    *)
(* whose answer is lost.                                                   *)
RunV1(i) ==
    /\ Take(i, V1)
    /\ tables' = tables \cup {"users"}
    /\ \/ /\ "users" \notin tables
          /\ Goto(i, "u_mark")
          /\ UNCHANGED <<torn, hurt>>
       \/ /\ "users" \notin tables
          /\ Goto(i, "u_abort")
          /\ torn' = TRUE /\ hurt' = TRUE
       \/ /\ "users" \in tables
          /\ Goto(i, "u_abort")
          /\ UNCHANGED <<torn, hurt>>
    /\ UNCHANGED <<rows, complete, files, flight, orphans, plan, fresh, alien, runs, cut, early, places>>

(* V2.up sends its query and returns.                                      *)
RunV2(i) ==
    /\ Take(i, V2)
    /\ flight' = [flight EXCEPT ![i] = @ \cup {held'[i]}]
    /\ Goto(i, "u_mark")
    /\ UNCHANGED <<rows, complete, files, tables, orphans, plan, fresh, alien, runs, history>>

(* The up of the template does nothing.                                    *)
RunTemplate(i) ==
    /\ \E f \in files[i] \ Shipped : Take(i, f)
    /\ Goto(i, "u_mark")
    /\ UNCHANGED <<rows, complete, files, schema, plan, fresh, alien, runs, history>>

(* The mark is moved behind the loop, where the last row is at hand.       *)
MarkLast_Bug(i) ==
    /\ pc[i] = "u_mark"
    /\ complete' = IF todo[i] = {} THEN complete \cup {held[i]} ELSE complete
    /\ Continue(i, todo[i])
    /\ UNCHANGED <<rows, files, schema, plan, fresh, alien, held, runs, history>>

(* The row is marked Complete; its answer may be lost.                     *)
Mark(i) ==
    /\ pc[i] = "u_mark"
    /\ complete' = complete \cup {held[i]}
    /\ \/ /\ Continue(i, todo[i])
          /\ UNCHANGED hurt
       \/ /\ Goto(i, "u_abort")
          /\ hurt' = TRUE
          /\ UNCHANGED todo
    /\ UNCHANGED <<rows, files, schema, plan, fresh, alien, held, runs, torn, cut, early, places>>

(* The catch of cli.ts without process.exit(1).                            *)
Close_Bug(i) ==
    /\ pc[i] \in {"u_close", "u_abort"}
    /\ flight[i] = {}
    /\ End(i, IF plan[i].kind = "serve" THEN "serving" ELSE "stopped")
    /\ UNCHANGED <<rows, complete, files, schema, runs, history>>

(* app.close drains the pool of connections; then the process ends, and    *)
(* after a good end the container starts the application.                  *)
Close(i) ==
    /\ pc[i] \in {"u_close", "u_abort"}
    /\ flight[i] = {}
    /\ End(i, IF pc[i] = "u_close" /\ plan[i].kind = "serve" THEN "serving" ELSE "stopped")
    /\ UNCHANGED <<rows, complete, files, schema, runs, history>>

-----------------------------------------------------------------------------
(* The query of V2 beside the process.  It is one transaction: it needs    *)
(* the table users and that its own tables do not exist.                   *)

V2Applies == "users" \in tables /\ "documents" \notin tables

Applied(i) ==
    /\ V2Applies
    /\ \E r \in flight[i] : flight' = [flight EXCEPT ![i] = @ \ {r}]
    /\ tables' = tables \cup {"documents"}
    /\ UNCHANGED <<rows, complete, files, orphans, pc, local, runs, history>>

(* Refused, or its connection lost: nobody catches the rejection, and Node *)
(* ends the process.                                                       *)
Rejected(i) ==
    /\ \E r \in flight[i] :
         /\ flight' = [flight EXCEPT ![i] = {}]
         /\ orphans' = orphans \cup (flight[i] \ {r})
    /\ End(i, "stopped")
    /\ cut' = (cut \/ "documents" \notin tables)
    /\ torn' = (torn \/ (pc[i] = "u_mark" /\ held[i].file = V1))
    /\ hurt' = (hurt \/ V2Applies)
    /\ UNCHANGED <<rows, complete, files, tables, runs, early, places>>

OrphanEnds ==
    /\ \E r \in orphans : orphans' = orphans \ {r}
    /\ \/ V2Applies /\ tables' = tables \cup {"documents"} /\ UNCHANGED cut
       \/ cut' = (cut \/ "documents" \notin tables) /\ UNCHANGED tables
    /\ UNCHANGED <<rows, complete, files, flight, pc, local, runs, torn, early, places, hurt>>

-----------------------------------------------------------------------------
(* A statement fails without effect: the command ends with code 1, up      *)
(* after it has closed its connections.                                    *)
Fail(i) ==
    /\ pc[i] \in (Syncing \cup Upping) \ {"u_close", "u_abort"}
    /\ IF pc[i] \in Syncing
       THEN End(i, "stopped")
       ELSE Goto(i, "u_abort") /\ UNCHANGED local
    /\ torn' = (torn \/ (pc[i] = "u_mark" /\ held[i].file = V1))
    /\ hurt' = TRUE
    /\ UNCHANGED <<rows, complete, files, schema, runs, cut, early, places>>

(* The container is stopped; what the server works on goes on.             *)
Stop(i) ==
    /\ pc[i] # "stopped"
    /\ End(i, "stopped")
    /\ flight' = [flight EXCEPT ![i] = {}]
    /\ orphans' = orphans \cup flight[i]
    /\ torn' = (torn \/ (pc[i] = "u_mark" /\ held[i].file = V1))
    /\ hurt' = (hurt \/ pc[i] # "serving")
    /\ UNCHANGED <<rows, complete, files, tables, runs, cut, early, places>>

Step(i) ==
    \/ List(i) \/ Count(i) \/ Create(i) \/ Check(i)
    \/ UpList(i) \/ RunUnknown(i) \/ RunV1(i) \/ RunV2(i) \/ RunTemplate(i)
    \/ Mark(i) \/ Close(i)

Query(i) == Applied(i) \/ Rejected(i)

Next ==
    \/ \E i \in Instance :
         \/ Deploy(i) \/ AddCommand(i) \/ UpCommand(i)
         \/ Step(i) \/ Query(i) \/ Fail(i) \/ Stop(i)
    \/ OrphanEnds

Spec == Init /\ [][Next]_vars

(* A process goes on once its statement returns; the server ends a query.  *)
FairSpec ==
    /\ Spec
    /\ \A i \in Instance : WF_vars(Step(i)) /\ WF_vars(Query(i))

-----------------------------------------------------------------------------
(* A query of V2 has not ended yet.                                        *)
InFlight == orphans # {} \/ \E i \in Instance : flight[i] # {}

(* A row marked Complete is a script that took effect, except where the    *)
(* query of V2 is still under way or was lost after its row was marked; so *)
(* the application runs over its tables, with the same exception.          *)
CompleteMeansApplied ==
    /\ \A r \in complete :
         /\ r.file = V1 => "users" \in tables
         /\ r.file = V2 => "documents" \in tables \/ cut \/ InFlight
    /\ \A i \in Instance : pc[i] = "serving" =>
         "users" \in tables /\ ("documents" \in tables \/ cut \/ InFlight)

(* V1 is pending although its tables exist, and no process is about to     *)
(* mark it.                                                                *)
Wedged ==
    /\ "users" \in tables
    /\ \E r \in Pending : r.file = V1 /\ \A i \in Instance : ~(pc[i] = "u_mark" /\ held[i] = r)

(* What leads there: a process that ended between V1's commit and its      *)
(* mark, or two places that both counted no row and both added V1.         *)
WedgedForAReason ==
    Wedged => torn \/ \E r, q \in rows : r # q /\ r.file = V1 /\ q.file = V1

(* No command gets a wedged database out of it: a container that starts    *)
(* then never serves.                                                      *)
WedgedStaysDown ==
    \A i \in Instance :
        [](Wedged /\ pc[i] = "stopped" => [](pc[i] # "serving"))

(* A container that is left alone with a database serves in the end.       *)
AloneItServes ==
    \A i \in Instance :
        pc[i] = "s_list" ~>
            \/ pc[i] = "serving"
            \/ hurt \/ early \/ places # {i}

=============================================================================
