------------------------- MODULE DeferredSaveProofs -------------------------
(***************************************************************************)
(* What DeferredSave keeps for any sets of accounts and saves.             *)
(***************************************************************************)
EXTENDS DeferredSave, TLAPS

(* The order of acceptance: a place belongs to one save, and a timer that  *)
(* has fired was armed before those that have not.                         *)
OrderState ==
    /\ \A s \in Save : turn[s] <= accepted /\ (pc[s] = "idle" => turn[s] = 0)
    /\ \A s \in Save : pc[s] \notin {"idle", "failed"} => turn[s] > 0
    /\ \A s, q \in Save : turn[s] = turn[q] /\ turn[s] > 0 => s = q
    /\ \A s, q \in Save : pc[s] \in Running \cup {"stored"} /\ pc[q] = "armed" =>
         turn[s] < turn[q]

(* Types, and the order the timers run in (document.service.ts:113-127).   *)
THEOREM TypesAndOrder == Spec => [](TypeOK /\ OrderState)
<1> DEFINE Inv == TypeOK /\ OrderState
<1> USE ConstantsAssumption DEF Running, Finished
<1>1. Init => Inv
  BY DEF Init, TypeOK, OrderState
<1>2. Inv /\ [Next]_vars => Inv'
  <2> SUFFICES ASSUME Inv, [Next]_vars PROVE Inv'
    OBVIOUS
  <2> USE DEF TypeOK, OrderState, Goto, order, history
  <2>1. ASSUME NEW s \in Save, Accept(s) PROVE Inv'
    <3>1. PICK u \in User :
            /\ temp' = [temp EXCEPT ![u] = s]
            /\ user' = [user EXCEPT ![s] = u]
            /\ accepted' = accepted + 1
            /\ turn' = [turn EXCEPT ![s] = accepted']
            /\ saveTimeouts' = [saveTimeouts EXCEPT ![u] = s]
            /\ pc' = [q \in Save |-> IF q = s THEN "armed"
                                     ELSE IF q \in Cleared(u) THEN "cleared" ELSE pc[q]]
      BY <2>1 DEF Accept
    <3>2. \A q \in Cleared(u) : q \in Save /\ pc[q] = "armed"
      BY DEF Cleared, Of
    <3>3. TypeOK'
      BY <2>1, <3>1, <3>2 DEF Accept
    <3>4. OrderState'
      BY <2>1, <3>1, <3>2 DEF Accept
    <3>5. QED
      BY <3>3, <3>4
  <2>2. ASSUME NEW s \in Save, AcceptFails(s) PROVE Inv'
    BY <2>2 DEF AcceptFails
  <2>3. ASSUME NEW s \in Save, Fire(s) PROVE Inv'
    <3>1. user[s] \in User
      BY <2>3 DEF Fire
    <3>2. QED
      BY <2>3, <3>1 DEF Fire
  <2>4. ASSUME NEW s \in Save, Find(s) PROVE Inv'
    <3>1. \A d \in Rows(user[s]) : documents[d] \in Row /\ d \in Save
      BY DEF Rows
    <3>2. TypeOK'
      <4>1. held' \in [Save -> Held \cup {None}]
        BY <2>4, <3>1 DEF Find, Held, Row
      <4>2. \A q \in Save : pc'[q] = "write" => held'[q] # None
        <5>1. \A d \in Rows(user[s]) : [doc |-> d, version |-> documents[d].version] \in Held
          BY <3>1 DEF Held, Row
        <5>2. QED
          BY <2>4, <5>1 DEF Find
      <4>3. QED
        BY <2>4, <4>1, <4>2 DEF Find
    <3>3. OrderState'
      BY <2>4 DEF Find
    <3>4. QED
      BY <3>2, <3>3
  <2>5. ASSUME NEW s \in Save, Write(s) PROVE Inv'
    <3>1. user[s] \in User /\ held[s] \in Held
      BY <2>5 DEF Write
    <3>2. QED
      BY <2>5, <3>1 DEF Write, Held, Row
  <2>6. ASSUME NEW s \in Save, Insert(s) PROVE Inv'
    <3>1. user[s] \in User
      BY <2>6 DEF Insert
    <3>2. QED
      BY <2>6, <3>1 DEF Insert, Row
  <2>7. ASSUME NEW s \in Save, DelTemp(s) PROVE Inv'
    <3>1. user[s] \in User
      BY <2>7 DEF DelTemp
    <3>2. QED
      BY <2>7, <3>1 DEF DelTemp
  <2>8. ASSUME NEW s \in Save, DelDoc(s) PROVE Inv'
    <3>1. user[s] \in User
      BY <2>8 DEF DelDoc
    <3>2. QED
      BY <2>8, <3>1 DEF DelDoc
  <2>9. ASSUME NEW s \in Save, Fail(s) PROVE Inv'
    <3>1. user[s] \in User
      BY <2>9 DEF Fail
    <3>2. QED
      BY <2>9, <3>1 DEF Fail
  <2>10. CASE Restart
    <3>1. \A s \in Save : pc[s] \in {"armed"} \cup Running => user[s] \in User
      OBVIOUS
    <3>2. QED
      BY <2>10, <3>1 DEF Restart
  <2>11. CASE UNCHANGED vars
    BY <2>11 DEF vars, process
  <2>12. QED
    BY <2>1, <2>2, <2>3, <2>4, <2>5, <2>6, <2>7, <2>8, <2>9, <2>10, <2>11 DEF Next, Step
<1>3. QED
  BY <1>1, <1>2, PTL DEF Spec

-----------------------------------------------------------------------------
(* What is not stored yet is under the temporary key, unless the end of an *)
(* older save or a failure took it away (document.service.ts:113-117, 144). *)
THEOREM UnsavedIsHeld == Spec => []TempHoldsUnsaved
<1> USE ConstantsAssumption DEF Running
<1>1. Init => TempHoldsUnsaved
  BY DEF Init, TempHoldsUnsaved, Latest, Accepted
<1>2. TypeOK /\ OrderState /\ TempHoldsUnsaved /\ [Next]_vars => TempHoldsUnsaved'
  <2> SUFFICES ASSUME TypeOK, OrderState, TempHoldsUnsaved, [Next]_vars
               PROVE  TempHoldsUnsaved'
    OBVIOUS
  <2> USE DEF TypeOK, Goto, order, history, Latest, Accepted
  <2>1. ASSUME NEW s \in Save, Accept(s) PROVE TempHoldsUnsaved'
    <3>1. PICK u \in User :
            /\ temp' = [temp EXCEPT ![u] = s]
            /\ user' = [user EXCEPT ![s] = u]
            /\ accepted' = accepted + 1
            /\ turn' = [turn EXCEPT ![s] = accepted']
            /\ pc' = [q \in Save |-> IF q = s THEN "armed"
                                     ELSE IF q \in Cleared(u) THEN "cleared" ELSE pc[q]]
      BY <2>1 DEF Accept
    <3>2. \A q \in Cleared(u) : user[q] = u
      BY DEF Cleared, Of
    <3>3. turn[s] = 0 /\ \A q \in Save : turn[q] < accepted + 1
      BY <2>1 DEF Accept, OrderState
    <3>4. \A q \in Latest(u)' : q = s
      BY <3>1, <3>3
    <3>5. \A v \in User \ {u} : Latest(v)' = Latest(v)
      BY <3>1, <3>3
    <3>6. \A v \in User \ {u} : \A q \in Latest(v) : pc'[q] = pc[q]
      BY <3>1, <3>2, <3>3
    <3> HIDE DEF Latest, Accepted
    <3>7. QED
      BY <2>1, <3>1, <3>4, <3>5, <3>6 DEF TempHoldsUnsaved, Accept, Latest, Accepted
  <2>2. ASSUME NEW s \in Save, AcceptFails(s) PROVE TempHoldsUnsaved'
    <3>1. turn[s] = 0
      BY <2>2 DEF AcceptFails, OrderState
    <3>2. \A v \in User : Latest(v)' = Latest(v) /\ s \notin Latest(v)
      BY <2>2, <3>1 DEF AcceptFails
    <3> HIDE DEF Latest, Accepted
    <3>3. QED
      BY <2>2, <3>2 DEF TempHoldsUnsaved, AcceptFails, Latest, Accepted
  <2>3. ASSUME NEW s \in Save, Step(s) \/ Fail(s) PROVE TempHoldsUnsaved'
    <3>1. user' = user /\ turn' = turn
      BY <2>3 DEF Step, Fire, Find, Write, Insert, DelTemp, DelDoc, Fail, TypeOK
    <3>2. \A v \in User : Latest(v)' = Latest(v)
      BY <3>1
    <3>3. CASE DelTemp(s)
      <4>1. \A v \in User \ (outlived \cup lossy)' : \A q \in Latest(v) :
              pc'[q] \in {"armed", "find", "write", "insert", "del_temp"} => temp'[v] = q
        BY <3>3 DEF DelTemp, TempHoldsUnsaved
      <4>2. QED
        BY <3>2, <4>1 DEF TempHoldsUnsaved
    <3>4. CASE ~DelTemp(s)
      <4>1. temp' = temp /\ outlived \subseteq outlived' /\ lossy \subseteq lossy'
        BY <2>3, <3>4 DEF Step, Fire, Find, Write, Insert, DelDoc, Fail
      <4>2. pc'[s] \in {"find", "write", "insert", "del_temp"} =>
              pc[s] \in {"armed", "find", "write", "insert", "del_temp"}
        BY <2>3, <3>4 DEF Step, Fire, Find, Write, Insert, DelDoc, Fail
      <4>3. \A q \in Save \ {s} : pc'[q] = pc[q]
        BY <2>3 DEF Step, Fire, Find, Write, Insert, DelTemp, DelDoc, Fail, TypeOK
      <4>4. pc'[s] # "armed"
        BY <2>3 DEF Step, Fire, Find, Write, Insert, DelTemp, DelDoc, Fail, TypeOK
      <4>5. QED
        BY <3>2, <4>1, <4>2, <4>3, <4>4 DEF TempHoldsUnsaved
    <3>5. QED
      BY <3>3, <3>4
  <2>4. CASE Restart
    BY <2>4 DEF Restart, TempHoldsUnsaved
  <2>5. CASE UNCHANGED vars
    BY <2>5 DEF vars, process, TempHoldsUnsaved
  <2>6. QED
    BY <2>1, <2>2, <2>3, <2>4, <2>5 DEF Next
<1>3. QED
  BY <1>1, <1>2, TypesAndOrder, PTL DEF Spec

-----------------------------------------------------------------------------
(* A save that is past its write.                                          *)
Written == {"del_temp", "del_doc", "stored"}

(* A row bears the name of the save that inserted it, and stays its user's. *)
RowState ==
    /\ \A d \in Save : documents[d] # None =>
         documents[d].owner = user[d] /\ pc[d] \notin {"idle", "armed", "find", "write", "insert"}
    /\ \A s \in Save : pc[s] = "write" => held[s].doc \in Rows(user[s])
    /\ \A s \in Save : pc[s] = "cleared" => \E q \in Accepted(user[s]) : turn[q] > turn[s]

(* Callbacks that do not overlap come one after the other, in the order of *)
(* acceptance, and the last one that has written is what the row shows.    *)
OneByOne ==
    \A u \in User \ overlapped :
        /\ \A d, e \in Rows(u) : d = e
        /\ \A s, q \in Of(u, Running) : s = q
        /\ Of(u, {"insert"}) # {} => Rows(u) = {}
        /\ \A s \in Of(u, {"stored"}), q \in Of(u, Running) : turn[s] < turn[q]
        /\ u \notin lossy =>
             /\ Of(u, {"failed", "lost"}) = {}
             /\ \A s \in Of(u, Written) :
                  (\A q \in Of(u, Written) : turn[q] <= turn[s]) =>
                      \E d \in Rows(u) : documents[d].data = s

(* What the callbacks of a user leave (document.service.ts:125-150).       *)
THEOREM RowsAndCallbacks == Spec => [](RowState /\ OneByOne)
<1> DEFINE Inv == RowState /\ OneByOne
<1> USE ConstantsAssumption
<1>1. Init => Inv
  BY DEF Init, RowState, OneByOne, Rows, Of, Accepted, Written, Running
<1>2. TypeOK /\ OrderState /\ Inv /\ [Next]_vars => Inv'
  <2> SUFFICES ASSUME TypeOK, OrderState, Inv, [Next]_vars PROVE Inv'
    OBVIOUS
  <2> USE DEF Goto, order, history, Running, Written
  <2>1. ASSUME NEW s \in Save, Accept(s) PROVE Inv'
    <3>1. PICK u \in User :
            /\ user' = [user EXCEPT ![s] = u]
            /\ accepted' = accepted + 1
            /\ turn' = [turn EXCEPT ![s] = accepted']
            /\ pc' = [q \in Save |-> IF q = s THEN "armed"
                                     ELSE IF q \in Cleared(u) THEN "cleared" ELSE pc[q]]
      BY <2>1 DEF Accept
    <3>2. /\ pc[s] = "idle" /\ turn[s] = 0 /\ documents[s] = None
          /\ UNCHANGED <<documents, held, overlapped, lossy>>
      BY <2>1 DEF Accept, OrderState, RowState
    <3>3. \A q \in Cleared(u) : q \in Save \ {s} /\ pc[q] = "armed" /\ user[q] = u
      BY <3>2 DEF Cleared, Of
    <3>4. \A v \in User : Rows(v)' = Rows(v)
      BY <3>2 DEF Rows
    <3>5. RowState'
      <4>1. \A q \in Save \ {s} : user'[q] = user[q] /\ turn'[q] = turn[q]
        BY <3>1 DEF TypeOK
      <4>2. \A q \in Save \ {s} : pc'[q] = pc[q] \/ (pc[q] = "armed" /\ pc'[q] = "cleared" /\ user[q] = u)
        BY <3>1, <3>3
      <4>3. \A q \in Save : pc'[q] = "write" => held'[q].doc \in Rows(user[q])'
        BY <3>1, <3>2, <3>4, <4>1, <4>2 DEF RowState, TypeOK
      <4>4. /\ s \in Accepted(u)' /\ \A q \in Save \ {s} : turn'[s] > turn'[q]
            /\ \A v \in User : Accepted(v) \subseteq Accepted(v)'
        BY <3>1, <3>2 DEF TypeOK, OrderState, Accepted
      <4>5. \A q \in Save : pc'[q] = "cleared" => \E p \in Accepted(user[q])' : turn'[p] > turn'[q]
        <5> SUFFICES ASSUME NEW q \in Save, pc'[q] = "cleared"
                     PROVE  \E p \in Accepted(user[q])' : turn'[p] > turn'[q]
          OBVIOUS
        <5>1. q # s /\ user[q] \in User
          BY <3>1, <3>3, <4>2 DEF TypeOK
        <5>2. CASE pc[q] = "cleared"
          <6>1. PICK p \in Accepted(user[q]) : turn[p] > turn[q]
            BY <5>2 DEF RowState
          <6>2. p # s
            BY <3>2, <6>1 DEF Accepted
          <6>3. QED
            BY <4>1, <4>4, <5>1, <6>1, <6>2 DEF Accepted
        <5>3. CASE pc[q] # "cleared"
          BY <3>3, <4>1, <4>2, <4>4, <5>1, <5>3
        <5>4. QED
          BY <5>2, <5>3
      <4>6. QED
        BY <3>1, <3>2, <4>1, <4>2, <4>3, <4>5 DEF RowState
    <3>6. OneByOne'
      <4>1. \A v \in User : /\ Of(v, Running)' = Of(v, Running)
                            /\ Of(v, {"insert"})' = Of(v, {"insert"})
                            /\ Of(v, {"stored"})' = Of(v, {"stored"})
                            /\ Of(v, {"failed", "lost"})' = Of(v, {"failed", "lost"})
                            /\ Of(v, Written)' = Of(v, Written)
        BY <3>1, <3>2, <3>3 DEF Of, TypeOK
      <4>2. \A v \in User : s \notin Of(v, Running) \cup Of(v, {"stored"}) \cup Of(v, Written)
        BY <3>2 DEF Of
      <4>3. \A q \in Save \ {s} : turn'[q] = turn[q]
        BY <3>1 DEF TypeOK
      <4>4. \A v \in User : Of(v, Running) \cup Of(v, {"stored"}) \cup Of(v, Written) \subseteq Save \ {s}
        BY <4>2 DEF Of
      <4> HIDE DEF Running, Written
      <4>5. QED
        BY <3>2, <3>4, <4>1, <4>3, <4>4 DEF OneByOne
    <3>7. QED
      BY <3>5, <3>6
  <2>2. ASSUME NEW s \in Save, AcceptFails(s) PROVE Inv'
    <3>1. PICK u \in User : user' = [user EXCEPT ![s] = u] /\ lossy' = lossy \cup {u}
      BY <2>2 DEF AcceptFails
    <3>2. /\ pc[s] = "idle" /\ turn[s] = 0 /\ documents[s] = None
          /\ pc' = [pc EXCEPT ![s] = "failed"]
          /\ UNCHANGED <<documents, held, turn, overlapped>>
      BY <2>2 DEF AcceptFails, OrderState, RowState
    <3>3. \A v \in User : Rows(v)' = Rows(v) /\ Accepted(v)' = Accepted(v)
      BY <3>1, <3>2 DEF Rows, Accepted, TypeOK
    <3>4. \A q \in Save \ {s} : user'[q] = user[q] /\ pc'[q] = pc[q]
      BY <3>1, <3>2 DEF TypeOK
    <3>5. pc'[s] = "failed"
      BY <3>2 DEF TypeOK
    <3>6. RowState'
      BY <3>2, <3>3, <3>4, <3>5 DEF RowState, TypeOK
    <3>7. \A v \in User : /\ Of(v, Running)' = Of(v, Running)
                          /\ Of(v, {"insert"})' = Of(v, {"insert"})
                          /\ Of(v, {"stored"})' = Of(v, {"stored"})
                          /\ v # u => Of(v, {"failed", "lost"})' = Of(v, {"failed", "lost"})
                          /\ Of(v, Written)' = Of(v, Written)
      BY <3>1, <3>2, <3>4, <3>5 DEF Of, TypeOK
    <3> HIDE DEF Running, Written
    <3>8. OneByOne'
      BY <3>1, <3>2, <3>3, <3>7 DEF OneByOne
    <3>9. QED
      BY <3>6, <3>8
  <2>3. ASSUME NEW s \in Save, Step(s) \/ Fail(s) PROVE Inv'
    <3> DEFINE u == user[s]
    <3>0. pc[s] \in {"armed"} \cup Running
      BY <2>3 DEF Step, Fire, Find, Write, Insert, DelTemp, DelDoc, Fail, TypeOK
    <3>1. u \in User
      BY <3>0 DEF TypeOK
    <3>2. UNCHANGED <<user, turn>> /\ \A q \in Save \ {s} : pc'[q] = pc[q]
      BY <2>3 DEF Step, Fire, Find, Write, Insert, DelTemp, DelDoc, Fail, TypeOK
    <3>3. \A v \in User : Accepted(v)' = Accepted(v)
      BY <3>2 DEF Accepted
    <3>4. pc'[s] \notin {"armed", "cleared", "idle"}
      BY <2>3 DEF Step, Fire, Find, Write, Insert, DelTemp, DelDoc, Fail, TypeOK
    <3>5. CASE Fire(s) \/ Find(s)
      <4>1. UNCHANGED <<documents, lossy>> /\ pc'[s] \in {"find", "write", "insert"}
        BY <3>5 DEF Fire, Find, TypeOK
      <4>2. \A v \in User : Rows(v)' = Rows(v)
        BY <4>1 DEF Rows
      <4>3. documents[s] = None
        BY <3>5 DEF Fire, Find, RowState
      <4>4. RowState'
        <5>1. \A q \in Save \ {s} : held'[q] = held[q]
          BY <3>5 DEF Fire, Find, TypeOK
        <5>2. pc'[s] = "write" => held'[s].doc \in Rows(u)
          BY <3>5, <3>1 DEF Fire, Find, TypeOK
        <5>3. QED
          BY <3>1, <3>2, <3>3, <3>4, <4>1, <4>2, <4>3, <5>1, <5>2 DEF RowState, TypeOK
      <4>5. OneByOne'
        <5> SUFFICES ASSUME NEW v \in User \ overlapped' PROVE OneByOne!(v)'
          BY DEF OneByOne
        <5>1. v \in User \ overlapped
          BY <3>5 DEF Fire, Find, TypeOK
        <5>2. /\ Of(v, {"stored"})' = Of(v, {"stored"})
              /\ Of(v, {"failed", "lost"})' = Of(v, {"failed", "lost"})
              /\ Of(v, Written)' = Of(v, Written)
          BY <3>0, <3>2, <3>5, <4>1 DEF Of, Fire, Find
        <5>3. \A p, q \in Of(v, Running)' : p = q
          BY <3>1, <3>2, <3>5, <4>1, <5>1 DEF Of, Fire, Find, OneByOne
        <5>4. Of(v, {"insert"})' # {} => Rows(v) = {}
          BY <3>1, <3>2, <3>5, <4>1, <5>1 DEF Of, Fire, Find, OneByOne, TypeOK
        <5>5. \A p \in Of(v, {"stored"}), q \in Of(v, Running)' : turn[p] < turn[q]
          BY <3>2, <3>5, <4>1, <5>1 DEF Of, Fire, Find, OneByOne, OrderState
        <5> HIDE DEF Running, Written
        <5>6. QED
          BY <3>2, <4>1, <4>2, <5>1, <5>2, <5>3, <5>4, <5>5 DEF OneByOne
      <4>6. QED
        BY <4>4, <4>5
    <3>6. CASE Write(s) \/ Insert(s)
      <4> DEFINE d == IF Write(s) THEN held[s].doc ELSE s
      <4>1. /\ UNCHANGED <<held, lossy, overlapped>> /\ pc'[s] = "del_temp"
            /\ pc[s] \in {"write", "insert"}
            /\ d \in Save
            /\ documents' = [documents EXCEPT ![d] = documents'[d]]
            /\ documents'[d].owner = u /\ documents'[d].data = s /\ documents'[d] # None
        <5>1. CASE Write(s)
          <6> DEFINE rec == [owner |-> u, data |-> s, version |-> held[s].version + 1]
          <6>1. pc[s] = "write" /\ held[s] \in Held /\ d = held[s].doc /\ d \in Save
            BY <5>1 DEF Write, TypeOK, Held
          <6>2. rec \in Row /\ rec.owner = u /\ rec.data = s /\ rec # None
            BY <3>1, <6>1 DEF Row, Held
          <6>3. documents' = [documents EXCEPT ![d] = rec]
            BY <5>1, <6>1 DEF Write
          <6> HIDE DEF rec, d
          <6>4. documents'[d] = rec
            BY <6>1, <6>3 DEF TypeOK
          <6>5. UNCHANGED <<held, lossy, overlapped>> /\ pc'[s] = "del_temp"
            BY <5>1 DEF Write, TypeOK
          <6>6. QED
            BY <6>1, <6>2, <6>3, <6>4, <6>5
        <5>2. CASE ~Write(s)
          <6> DEFINE rec == [owner |-> u, data |-> s, version |-> 1]
          <6>1. Insert(s) /\ d = s /\ pc[s] = "insert"
            BY <3>6, <5>2 DEF Insert
          <6>2. rec \in Row /\ rec.owner = u /\ rec.data = s /\ rec # None
            BY <3>1 DEF Row
          <6>3. documents' = [documents EXCEPT ![d] = rec]
            BY <6>1 DEF Insert
          <6> HIDE DEF rec, d
          <6>4. documents'[d] = rec
            BY <6>1, <6>3 DEF TypeOK
          <6>5. UNCHANGED <<held, lossy, overlapped>> /\ pc'[s] = "del_temp"
            BY <6>1 DEF Insert, TypeOK
          <6>6. QED
            BY <6>1, <6>2, <6>3, <6>4, <6>5
        <5>3. QED
          BY <5>1, <5>2
      <4>2. \/ pc[s] = "write" /\ d \in Rows(u)
            \/ pc[s] = "insert" /\ d = s /\ documents[d] = None
        <5>1. pc[s] = "write" => Write(s) /\ held[s].doc \in Rows(u)
          BY <3>6 DEF Insert, RowState
        <5>2. pc[s] = "insert" => ~Write(s) /\ documents[s] = None
          BY DEF Write, RowState
        <5>3. QED
          BY <4>1, <5>1, <5>2
      <4> HIDE DEF d
      <4>3. /\ \A v \in User \ {u} : Rows(v)' = Rows(v)
            /\ \A v \in User \ {u} : \A e \in Rows(v) : documents'[e] = documents[e]
            /\ Rows(u)' = Rows(u) \cup {d}
        <5>1. \A e \in Save : e # d => documents'[e] = documents[e]
          BY <4>1 DEF TypeOK
        <5>2. documents[d] # None => documents[d].owner = u
          BY <4>2 DEF Rows
        <5>3. Rows(u)' = Rows(u) \cup {d}
          BY <3>2, <4>1, <5>1 DEF Rows
        <5>4. ASSUME NEW v \in User \ {u}
              PROVE  Rows(v)' = Rows(v) /\ d \notin Rows(v)
          BY <4>1, <5>1, <5>2 DEF Rows
        <5>5. \A v \in User : Rows(v) \subseteq Save
          BY DEF Rows
        <5>6. QED
          BY <5>1, <5>3, <5>4, <5>5
      <4>4. RowState'
        <5>1. ASSUME NEW e \in Save, documents'[e] # None
              PROVE  /\ documents'[e].owner = user[e]
                     /\ pc'[e] \notin {"idle", "armed", "find", "write", "insert"}
          <6>1. CASE e = d
            <7>1. user[d] = u
              BY <4>1, <4>2 DEF RowState, Rows
            <7>2. pc'[d] \notin {"idle", "armed", "find", "write", "insert"}
              BY <3>2, <4>1, <4>2 DEF RowState, Rows
            <7>3. QED
              BY <4>1, <6>1, <7>1, <7>2
          <6>2. CASE e # d
            <7>1. documents'[e] = documents[e]
              BY <4>1, <6>2 DEF TypeOK
            <7>2. e # s
              BY <4>1, <7>1, <5>1 DEF RowState
            <7>3. QED
              BY <3>2, <5>1, <7>1, <7>2 DEF RowState
          <6>3. QED
            BY <6>1, <6>2
        <5>2. QED
          BY <3>2, <3>3, <4>1, <4>3, <5>1 DEF RowState, TypeOK
      <4>5. OneByOne'
        <5> SUFFICES ASSUME NEW v \in User \ overlapped PROVE OneByOne!(v)'
          BY <4>1 DEF OneByOne
        <5>1. CASE v # u
          <6>1. \A L : Of(v, L)' = Of(v, L)
            BY <3>2, <5>1 DEF Of
          <6> HIDE DEF Running, Written
          <6>2. QED
            BY <3>2, <4>1, <4>3, <5>1, <6>1 DEF OneByOne
        <5>2. CASE v = u
          <6>1. Of(u, Running) = {s}
            BY <4>1, <5>2, <3>1 DEF OneByOne, Of
          <6>2. Of(u, Running)' = {s} /\ Of(u, {"insert"})' = {}
            BY <3>2, <4>1, <6>1 DEF Of
          <6>3. Of(u, {"stored"})' = Of(u, {"stored"})
            BY <3>2, <4>1 DEF Of
          <6>4. Of(u, {"failed", "lost"})' = Of(u, {"failed", "lost"})
            BY <3>2, <4>1 DEF Of
          <6>5. Of(u, Written)' = Of(u, {"stored"}) \cup {s}
            BY <3>1, <3>2, <4>1, <6>1 DEF Of
          <6>6. Rows(u)' = {d}
            BY <4>1, <4>2, <4>3, <5>2, <3>1 DEF OneByOne, Of
          <6>7. \A q \in Of(u, {"stored"}) : turn[q] < turn[s] /\ turn[q] \in Nat
            BY <3>1, <5>2, <6>1 DEF OneByOne, Of, TypeOK
          <6>8. turn[s] \in Nat
            BY DEF TypeOK
          <6> HIDE DEF Running, Written
          <6>9. QED
            BY <3>1, <3>2, <4>1, <5>2, <6>1, <6>2, <6>3, <6>4, <6>5, <6>6, <6>7, <6>8 DEF OneByOne
        <5>3. QED
          BY <5>1, <5>2
      <4>6. QED
        BY <4>4, <4>5
    <3>7. CASE DelTemp(s) \/ DelDoc(s) \/ Fail(s)
      <4>1. /\ UNCHANGED <<documents, held, overlapped>> /\ lossy \subseteq lossy'
            /\ \/ pc[s] = "del_temp" /\ pc'[s] = "del_doc"
               \/ pc[s] = "del_doc" /\ pc'[s] = "stored"
               \/ pc'[s] = "failed" /\ u \in lossy'
            /\ pc[s] \in Running
        BY <3>7 DEF DelTemp, DelDoc, Fail, TypeOK
      <4>2. \A v \in User : Rows(v)' = Rows(v)
        BY <4>1 DEF Rows
      <4>3. RowState'
        BY <3>2, <3>3, <4>1, <4>2 DEF RowState, TypeOK
      <4>4. OneByOne'
        <5> SUFFICES ASSUME NEW v \in User \ overlapped PROVE OneByOne!(v)'
          BY <4>1 DEF OneByOne
        <5>1. CASE v # u
          <6>1. \A L : Of(v, L)' = Of(v, L)
            BY <3>2, <5>1 DEF Of
          <6> HIDE DEF Running, Written
          <6>2. QED
            BY <3>2, <4>1, <4>2, <5>1, <6>1 DEF OneByOne
        <5>2. CASE v = u
          <6>1. Of(u, Running) = {s}
            BY <4>1, <5>2, <3>1 DEF OneByOne, Of
          <6>2. /\ Of(u, Running)' = IF pc'[s] = "del_doc" THEN {s} ELSE {}
                /\ Of(u, {"insert"})' = {}
            BY <3>2, <4>1, <6>1 DEF Of
          <6>3. Of(u, {"stored"})' = IF pc'[s] = "stored" THEN Of(u, {"stored"}) \cup {s}
                                     ELSE Of(u, {"stored"})
            BY <3>1, <3>2, <4>1 DEF Of
          <6>4. u \notin lossy' => /\ Of(u, {"failed", "lost"})' = Of(u, {"failed", "lost"})
                                   /\ Of(u, Written)' = Of(u, Written)
            BY <3>2, <4>1 DEF Of
          <6> HIDE DEF Running, Written
          <6>5. QED
            BY <3>1, <3>2, <4>1, <4>2, <5>2, <6>1, <6>2, <6>3, <6>4 DEF OneByOne
        <5>3. QED
          BY <5>1, <5>2
      <4>5. QED
        BY <4>3, <4>4
    <3>8. QED
      BY <2>3, <3>5, <3>6, <3>7 DEF Step
  <2>4. CASE Restart
    <3>1. /\ UNCHANGED <<documents, user, turn, held, overlapped>>
          /\ \A q \in Save :
               pc'[q] = IF pc[q] \in {"armed"} \cup Running THEN "lost" ELSE pc[q]
          /\ \A q \in Save : pc[q] \in {"armed"} \cup Running => user[q] \in lossy'
          /\ lossy \subseteq lossy'
      BY <2>4 DEF Restart
    <3>2. \A v \in User : Rows(v)' = Rows(v) /\ Accepted(v)' = Accepted(v)
      BY <3>1 DEF Rows, Accepted
    <3>3. RowState'
      BY <3>1, <3>2 DEF RowState, TypeOK
    <3>4. \A v \in User : /\ Of(v, Running)' = {} /\ Of(v, {"insert"})' = {}
                          /\ Of(v, {"stored"})' = Of(v, {"stored"})
      BY <3>1 DEF Of
    <3>5. \A v \in User \ lossy' : /\ Of(v, {"failed", "lost"})' = Of(v, {"failed", "lost"})
                                   /\ Of(v, Written)' = Of(v, Written)
      BY <3>1 DEF Of
    <3> HIDE DEF Running, Written
    <3>6. OneByOne'
      BY <3>1, <3>2, <3>4, <3>5 DEF OneByOne
    <3>7. QED
      BY <3>3, <3>6
  <2>5. CASE UNCHANGED vars
    BY <2>5 DEF vars, process, RowState, OneByOne, Rows, Of, Accepted
  <2>6. QED
    BY <2>1, <2>2, <2>3, <2>4, <2>5 DEF Next
<1>3. QED
  BY <1>1, <1>2, TypesAndOrder, PTL DEF Spec

(* When nothing is under way the one row holds the last save               *)
(* (document.service.ts:125-150).                                          *)
THEOREM TheLastSaveShows == Spec => []QuietShowsLatest
<1>1. TypeOK /\ OrderState /\ RowState /\ OneByOne => QuietShowsLatest
  <2> USE ConstantsAssumption DEF Running, Written
  <2> SUFFICES ASSUME TypeOK, OrderState, RowState, OneByOne, NEW u \in User \ overlapped
               PROVE  QuietShowsLatest!(u)
    BY DEF QuietShowsLatest
  <2>1. ASSUME u \notin lossy, Of(u, {"armed"} \cup Running) = {}, NEW s \in Latest(u)
        PROVE  \E d \in Rows(u) : documents[d].data = s
    <3>1. s \in Save /\ user[s] = u /\ turn[s] > 0 /\ \A q \in Accepted(u) : turn[q] <= turn[s]
      BY <2>1 DEF Latest, Accepted
    <3>2. pc[s] # "cleared"
      <4> SUFFICES ASSUME pc[s] = "cleared" PROVE FALSE
        OBVIOUS
      <4>1. PICK q \in Accepted(u) : turn[q] > turn[s]
        BY <3>1 DEF RowState
      <4>2. q \in Save /\ turn[q] <= turn[s]
        BY <3>1, <4>1 DEF Accepted
      <4>3. QED
        BY <3>1, <4>1, <4>2 DEF TypeOK
    <3>3. pc[s] \notin {"idle", "armed", "failed", "lost"} \cup Running
      BY <2>1, <3>1 DEF Of, OrderState, OneByOne
    <3>4. pc[s] = "stored"
      BY <3>1, <3>2, <3>3 DEF TypeOK, Finished
    <3>5. s \in Of(u, Written)
      BY <3>1, <3>4 DEF Of, Written
    <3>6. \A q \in Of(u, Written) : turn[q] <= turn[s]
      BY <3>1 DEF Of, Written, Accepted, OrderState
    <3>7. QED
      BY <2>1, <3>5, <3>6 DEF OneByOne
  <2>2. QED
    BY <2>1 DEF OneByOne
<1>2. QED
  BY <1>1, TypesAndOrder, RowsAndCallbacks, PTL

-----------------------------------------------------------------------------
(* A save that is accepted is not forgotten: its timer or its callback is  *)
(* under way, or it has ended in one of the ways SavesSettle names.  This  *)
(* is the safety half of SavesSettle.                                      *)
SettledOrDue ==
    \A s \in Save : turn[s] > 0 =>
        \/ pc[s] \in {"armed"} \cup Running
        \/ pc[s] \in {"stored", "failed", "lost"}
        \/ \E q \in Save : user[q] = user[s] /\ turn[q] > turn[s]

(* Only a newer save of the same account clears a timer                    *)
(* (document.service.ts:118-127).                                          *)
THEOREM SavesAreNotForgotten == Spec => []SettledOrDue
<1>1. TypeOK /\ OrderState /\ RowState => SettledOrDue
  <2> SUFFICES ASSUME TypeOK, OrderState, RowState, NEW s \in Save, turn[s] > 0
               PROVE  \/ pc[s] \in {"armed"} \cup Running
                      \/ pc[s] \in {"stored", "failed", "lost"}
                      \/ \E q \in Save : user[q] = user[s] /\ turn[q] > turn[s]
    BY DEF SettledOrDue
  <2>1. pc[s] # "idle"
    BY DEF OrderState
  <2>2. CASE pc[s] = "cleared"
    BY <2>2 DEF RowState, Accepted
  <2> QED
    BY <2>1, <2>2 DEF TypeOK, Finished
<1>2. QED
  BY <1>1, TypesAndOrder, RowsAndCallbacks, PTL

=============================================================================
