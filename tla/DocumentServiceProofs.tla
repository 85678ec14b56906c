----------------------- MODULE DocumentServiceProofs ------------------------
(***************************************************************************)
(* What DocumentService keeps for every set of users, documents and        *)
(* requests, and that it implements DocumentRegister.                      *)
(***************************************************************************)
EXTENDS DocumentService, TLAPS

(* A row that is not None has the fields of a row; the same holds of       *)
(* calls and snapshots.                                                    *)
LEMMA RecordFields ==
    ASSUME TypeOK
    PROVE  /\ \A d \in DocId : documents[d] # None =>
                /\ documents[d] \in Row
                /\ documents[d].owner \in User
                /\ documents[d].data \in Request
                /\ documents[d].version \in Nat
           /\ \A r \in Request : call[r] # None =>
                /\ call[r] \in Call
                /\ call[r].op \in Op
                /\ call[r].user \in User
                /\ call[r].version \in Nat
           /\ \A r \in Request : seen[r] # None =>
                /\ seen[r] \in Snapshot
                /\ seen[r].doc \in DocId
                /\ seen[r].version \in Nat
  BY DEF TypeOK, Row, Call, Snapshot

(* The handler holds its arguments from its first await and its document   *)
(* from the find or the insert on.                                         *)
Held == {"u_write", "u_reread", "u_purge", "u_return", "c_reread", "c_cache"}

HandlerState ==
    \A r \in Request :
        /\ pc[r] # "idle" => call[r] # None
        /\ pc[r] \in Getting  => call[r].op = "get"
        /\ pc[r] \in Updating => call[r].op = "update"
        /\ pc[r] \in Creating => call[r].op = "create"
        /\ pc[r] \in Held => seen[r] # None

THEOREM TypeCorrect == Spec => [](TypeOK /\ HandlerState)
<1>1. Init => TypeOK /\ HandlerState
  BY DEF Init, TypeOK, HandlerState, Held, Getting, Updating, Creating
<1>2. TypeOK /\ HandlerState /\ [Next]_vars => (TypeOK /\ HandlerState)'
  <2> SUFFICES ASSUME TypeOK, HandlerState, [Next]_vars
               PROVE  (TypeOK /\ HandlerState)'
    OBVIOUS
  <2> USE DEF TypeOK, HandlerState, Held, Getting, Updating, Creating, Active, Answered,
              stores, history, vars, Goto
  <2>1. ASSUME NEW r \in Request, Start(r) PROVE (TypeOK /\ HandlerState)'
    <3>1. PICK c \in Call, label \in {"g_find", "c_find", "u_find"} :
            /\ Begin(r, c, label)
            /\ label = "g_find" => c.op = "get"
            /\ label = "u_find" => c.op = "update"
            /\ label = "c_find" => c.op = "create"
      <4>1. ASSUME NEW o \in Op, NEW u \in User, NEW v \in Nat
            PROVE  LET c == [op |-> o, user |-> u, version |-> v] IN c \in Call /\ c.op = o
        BY DEF Call
      <4>2. CASE StartGet(r)
        BY <4>1, <4>2 DEF StartGet, Op
      <4>3. CASE StartCreate(r)
        BY <4>1, <4>3, ConstantsAssumption DEF StartCreate, Op
      <4>4. CASE StartUpdate(r)
        BY <4>1, <4>4 DEF StartUpdate, Op
      <4>5. QED
        BY <2>1, <4>2, <4>3, <4>4 DEF Start
    <3>2. c # None
      BY ConstantsAssumption
    <3>3. QED
      BY <3>1, <3>2 DEF Begin
  <2>2. ASSUME NEW r \in Request, GetDocument(r) PROVE (TypeOK /\ HandlerState)'
    BY <2>2 DEF GetDocument, FindOne, Rows
  <2>3. ASSUME NEW r \in Request, UpdateFind(r) PROVE (TypeOK /\ HandlerState)'
    BY <2>3, ConstantsAssumption DEF UpdateFind, FindOne, Rows, Snapshot, Row
  <2>4. ASSUME NEW r \in Request, UpdateWrite(r) PROVE (TypeOK /\ HandlerState)'
    BY <2>4, RecordFields, ConstantsAssumption DEF UpdateWrite, NextVersion, Row, CacheFillPending
  <2>5. ASSUME NEW r \in Request, UpdateReread(r) PROVE (TypeOK /\ HandlerState)'
    BY <2>5 DEF UpdateReread
  <2>6. ASSUME NEW r \in Request, UpdatePurge(r) PROVE (TypeOK /\ HandlerState)'
    BY <2>6 DEF UpdatePurge
  <2>7. ASSUME NEW r \in Request, UpdateReturn(r) PROVE (TypeOK /\ HandlerState)'
    BY <2>7 DEF UpdateReturn, FindOne, Rows
  <2>8. ASSUME NEW r \in Request, CreateFind(r) PROVE (TypeOK /\ HandlerState)'
    BY <2>8, RecordFields DEF CreateFind, FindOne, Rows, AnotherCreatePending
  <2>9. ASSUME NEW r \in Request, CreateInsert(r) PROVE (TypeOK /\ HandlerState)'
    BY <2>9, RecordFields, ConstantsAssumption DEF CreateInsert, VersionOrOne, Row, Snapshot
  <2>10. ASSUME NEW r \in Request, CreateRefused(r) PROVE (TypeOK /\ HandlerState)'
    BY <2>10 DEF CreateRefused
  <2>11. ASSUME NEW r \in Request, CreateReread(r) PROVE (TypeOK /\ HandlerState)'
    BY <2>11 DEF CreateReread
  <2>12. ASSUME NEW r \in Request, CreateCache(r) PROVE (TypeOK /\ HandlerState)'
    BY <2>12, RecordFields DEF CreateCache
  <2>13. ASSUME NEW r \in Request, Fail(r) PROVE (TypeOK /\ HandlerState)'
    BY <2>13, RecordFields DEF Fail
  <2>14. ASSUME NEW u \in User, RemoveUser(u) PROVE (TypeOK /\ HandlerState)'
    BY <2>14 DEF RemoveUser, Rows
  <2>15. ASSUME Restart PROVE (TypeOK /\ HandlerState)'
    <3>1. skewed' \in SUBSET User
      <4>1. \A q \in wrote : pc[q] \in {"u_reread", "u_purge"} => call[q].user \in User
        BY RecordFields
      <4>2. QED
        BY <2>15, <4>1 DEF Restart
    <3>2. pc' = [r \in Request |-> IF pc[r] \in Active THEN "error" ELSE pc[r]]
          /\ UNCHANGED <<stores, call, seen, reply, wrote, ceiling, lagging, raced>>
      BY <2>15 DEF Restart
    <3>3. QED
      BY <3>1, <3>2
  <2>16. CASE UNCHANGED vars
    BY <2>16
  <2>17. QED
    BY <2>1, <2>2, <2>3, <2>4, <2>5, <2>6, <2>7, <2>8, <2>9, <2>10, <2>11, <2>12, <2>13,
       <2>14, <2>15, <2>16 DEF Next, Step, Quiet
<1>3. QED
  BY <1>1, <1>2, PTL DEF Spec

-----------------------------------------------------------------------------
(* The two actions that store a row, field by field.                       *)

LEMMA UpdateWriteEffect ==
    ASSUME TypeOK, HandlerState, NEW r \in Request, UpdateWrite(r)
    PROVE  /\ pc[r] = "u_write"
           /\ call[r] # None /\ call[r].op = "update" /\ call[r].user \in User
           /\ seen[r] # None /\ seen[r].doc \in DocId /\ seen[r].version \in Nat
           /\ pc'[r] \in {"error", "u_reread"}
           /\ \A q \in Request \ {r} : pc'[q] = pc[q]
           /\ UNCHANGED <<users, issued, cache, call, seen, reply, raced>>
           /\ documents[seen[r].doc] = None =>
                UNCHANGED <<documents, wrote, ceiling, lagging, skewed>>
           /\ documents[seen[r].doc] # None =>
                /\ documents'[seen[r].doc] # None
                /\ documents'[seen[r].doc].owner = documents[seen[r].doc].owner
                /\ documents'[seen[r].doc].data = r
                /\ documents'[seen[r].doc].version = seen[r].version + 1
                /\ \A d \in DocId \ {seen[r].doc} : documents'[d] = documents[d]
                /\ wrote' = wrote \cup {r}
                /\ ceiling' = [ceiling EXCEPT ![seen[r].doc] = @ + 1]
                /\ lagging' = IF documents[seen[r].doc].version = seen[r].version
                              THEN lagging ELSE lagging \cup {seen[r].doc}
                /\ skewed' = IF pc'[r] = "error" \/ CacheFillPending(r)
                             THEN skewed \cup {call[r].user} ELSE skewed
<1>1. /\ pc[r] = "u_write" /\ call[r] # None /\ call[r].op = "update" /\ seen[r] # None
  BY DEF UpdateWrite, HandlerState, Held, Updating
<1>2. call[r].user \in User /\ seen[r].doc \in DocId /\ seen[r].version \in Nat
  BY <1>1, RecordFields
<1> DEFINE d == seen[r].doc
           row == [owner |-> documents[d].owner, data |-> r, version |-> seen[r].version + 1]
<1>3. PICK lost \in BOOLEAN :
        /\ pc' = [pc EXCEPT ![r] = IF lost THEN "error" ELSE "u_reread"]
        /\ \/ /\ documents[d] # None
              /\ documents' = [documents EXCEPT ![d] = row]
              /\ wrote' = wrote \cup {r}
              /\ ceiling' = [ceiling EXCEPT ![d] = @ + 1]
              /\ lagging' = IF documents[d].version = seen[r].version
                            THEN lagging ELSE lagging \cup {d}
              /\ skewed' = IF lost \/ CacheFillPending(r)
                           THEN skewed \cup {call[r].user} ELSE skewed
           \/ /\ documents[d] = None
              /\ UNCHANGED <<documents, wrote, ceiling, lagging, skewed>>
  BY <1>1, <1>2 DEF UpdateWrite, NextVersion, Goto, TypeOK
<1>4. pc'[r] = (IF lost THEN "error" ELSE "u_reread")
      /\ \A q \in Request \ {r} : pc'[q] = pc[q]
  BY <1>3 DEF TypeOK
<1>5. UNCHANGED <<users, issued, cache, call, seen, reply, raced>>
  BY DEF UpdateWrite
<1>6. documents[d] # None => row \in Row /\ row # None
  BY <1>2, RecordFields, ConstantsAssumption DEF Row
<1>7. documents[d] # None =>
        documents'[d] = row /\ \A e \in DocId \ {d} : documents'[e] = documents[e]
  BY <1>2, <1>3 DEF TypeOK
<1>8. QED
  BY <1>1, <1>2, <1>3, <1>4, <1>5, <1>6, <1>7

LEMMA CreateInsertEffect ==
    ASSUME TypeOK, HandlerState, NEW r \in Request, CreateInsert(r)
    PROVE  /\ pc[r] = "c_insert"
           /\ call[r] # None /\ call[r].op = "create"
           /\ call[r].user \in User /\ call[r].user \in users
           /\ pc'[r] \in {"error", "c_reread"}
           /\ \A q \in Request \ {r} : pc'[q] = pc[q] /\ seen'[q] = seen[q]
           /\ wrote' = wrote \cup {r}
           /\ UNCHANGED <<users, cache, call, reply, lagging, raced, skewed>>
           /\ \E d \in DocId \ issued :
                /\ documents'[d] # None
                /\ documents'[d].owner = call[r].user
                /\ documents'[d].data = r
                /\ documents'[d].version \in Nat
                /\ \A e \in DocId \ {d} : documents'[e] = documents[e]
                /\ issued' = issued \cup {d}
                /\ ceiling' = [ceiling EXCEPT ![d] = documents'[d].version]
                /\ seen'[r] # None
                /\ seen'[r].doc = d
                /\ seen'[r].version = documents'[d].version
<1>1. /\ pc[r] = "c_insert" /\ call[r] # None /\ call[r].op = "create"
      /\ call[r].user \in users /\ wrote' = wrote \cup {r}
      /\ UNCHANGED <<users, cache, call, reply, lagging, raced, skewed>>
  BY DEF CreateInsert, HandlerState, Creating
<1>2. call[r].user \in User /\ call[r].version \in Nat
  BY <1>1, RecordFields
<1> DEFINE v == VersionOrOne(call[r].version)
           row == [owner |-> call[r].user, data |-> r, version |-> v]
<1>3. PICK d \in DocId \ issued, lost \in BOOLEAN :
        /\ documents' = [documents EXCEPT ![d] = row]
        /\ issued' = issued \cup {d}
        /\ ceiling' = [ceiling EXCEPT ![d] = v]
        /\ seen' = [seen EXCEPT ![r] = [doc |-> d, version |-> v]]
        /\ pc' = [pc EXCEPT ![r] = IF lost THEN "error" ELSE "c_reread"]
  BY DEF CreateInsert, Goto
<1>4. v \in Nat /\ row \in Row /\ row # None
  BY <1>2, ConstantsAssumption DEF VersionOrOne, Row
<1>5. [doc |-> d, version |-> v] \in Snapshot
  BY <1>4 DEF Snapshot
<1>6. /\ documents'[d] = row /\ \A e \in DocId \ {d} : documents'[e] = documents[e]
      /\ seen'[r] = [doc |-> d, version |-> v] /\ seen'[r] # None
      /\ \A q \in Request \ {r} : pc'[q] = pc[q] /\ seen'[q] = seen[q]
      /\ pc'[r] \in {"error", "c_reread"}
  BY <1>3, <1>5, ConstantsAssumption DEF TypeOK
<1>7. row.owner = call[r].user /\ row.data = r /\ row.version = v
  BY Zenon
<1> HIDE DEF row
<1>8. /\ documents'[d].owner = call[r].user /\ documents'[d].data = r
      /\ documents'[d].version = v /\ documents'[d] # None
      /\ seen'[r].doc = d /\ seen'[r].version = v
  BY <1>4, <1>6, <1>7
<1> HIDE DEF v
<1>9. ceiling' = [ceiling EXCEPT ![d] = documents'[d].version] /\ documents'[d].version \in Nat
  BY <1>3, <1>4, <1>8
<1>10. QED
  BY <1>1, <1>2, <1>3, <1>6, <1>8, <1>9

-----------------------------------------------------------------------------
(* The handlers and the table.  A handler that holds a document holds one  *)
(* that was issued; while the row exists it belongs to the caller, and it  *)
(* goes only with the account.                                             *)

TableState ==
    \A d \in DocId : documents[d] # None =>
        /\ d \in issued
        /\ documents[d].owner \in users

HeldState ==
    \A r \in Request : pc[r] \in Held =>
        /\ seen[r].doc \in issued
        /\ documents[seen[r].doc] # None => documents[seen[r].doc].owner = call[r].user
        /\ documents[seen[r].doc] = None => call[r].user \notin users

(* Where a handler stands tells whether it has written.                    *)
WriteState ==
    \A r \in Request :
        /\ pc[r] \in {"idle", "g_find", "u_find", "u_write", "c_find", "c_insert"} => r \notin wrote
        /\ pc[r] = "u_reread" /\ r \notin wrote => documents[seen[r].doc] = None
        /\ pc[r] \in {"u_purge", "u_return", "c_reread", "c_cache"} => r \in wrote

Placed == TableState /\ HeldState /\ WriteState /\ AckedMeansStored

LEMMA PlacedInvariant == Spec => []Placed
<1>1. Init => Placed
  BY ConstantsAssumption DEF Init, Placed, TableState, HeldState, WriteState, AckedMeansStored,
     IsUpdate, Held
<1>2. TypeOK /\ HandlerState /\ Placed /\ [Next]_vars => Placed'
  <2> SUFFICES ASSUME TypeOK, HandlerState, Placed, [Next]_vars
               PROVE  Placed'
    OBVIOUS
  <2> USE RecordFields DEF Placed, TableState, HeldState, WriteState, AckedMeansStored,
              IsUpdate, TypeOK, HandlerState, Held, Getting, Updating, Creating, Active,
              Answered, stores, history, vars, Goto
  <2>1. ASSUME NEW r \in Request, Start(r) PROVE Placed'
    BY <2>1, ConstantsAssumption DEF Start, StartGet, StartCreate, StartUpdate, Begin
  <2>2. ASSUME NEW r \in Request, GetDocument(r) PROVE Placed'
    BY <2>2 DEF GetDocument, FindOne, Rows
  <2>3. ASSUME NEW r \in Request, UpdateFind(r) PROVE Placed'
    BY <2>3, ConstantsAssumption DEF UpdateFind, FindOne, Rows
  <2>4. ASSUME NEW r \in Request, UpdateWrite(r) PROVE Placed'
    BY <2>4, UpdateWriteEffect
  <2>5. ASSUME NEW r \in Request, UpdateReread(r) PROVE Placed'
    BY <2>5 DEF UpdateReread
  <2>6. ASSUME NEW r \in Request, UpdatePurge(r) PROVE Placed'
    BY <2>6 DEF UpdatePurge
  <2>7. ASSUME NEW r \in Request, UpdateReturn(r) PROVE Placed'
    BY <2>7 DEF UpdateReturn, FindOne, Rows
  <2>8. ASSUME NEW r \in Request, CreateFind(r) PROVE Placed'
    BY <2>8 DEF CreateFind, FindOne, Rows, AnotherCreatePending
  <2>9. ASSUME NEW r \in Request, CreateInsert(r) PROVE Placed'
    BY <2>9, CreateInsertEffect
  <2>10. ASSUME NEW r \in Request, CreateRefused(r) PROVE Placed'
    BY <2>10 DEF CreateRefused
  <2>11. ASSUME NEW r \in Request, CreateReread(r) PROVE Placed'
    BY <2>11 DEF CreateReread
  <2>12. ASSUME NEW r \in Request, CreateCache(r) PROVE Placed'
    BY <2>12 DEF CreateCache
  <2>13. ASSUME NEW r \in Request, Fail(r) PROVE Placed'
    BY <2>13 DEF Fail
  <2>14. ASSUME NEW u \in User, RemoveUser(u) PROVE Placed'
    BY <2>14 DEF RemoveUser, Rows
  <2>15. ASSUME Restart PROVE Placed'
    BY <2>15 DEF Restart
  <2>16. CASE UNCHANGED vars
    BY <2>16
  <2>17. QED
    BY <2>1, <2>2, <2>3, <2>4, <2>5, <2>6, <2>7, <2>8, <2>9, <2>10, <2>11, <2>12, <2>13, <2>14, <2>15, <2>16
       DEF Next, Step, Quiet
<1>3. QED
  BY <1>1, <1>2, TypeCorrect, PTL DEF Spec

(* An acknowledged update has been stored (document.service.ts:95-109).    *)
THEOREM AckedUpdatesStored == Spec => []AckedMeansStored
  BY PlacedInvariant, PTL DEF Placed

-----------------------------------------------------------------------------
(* Versions.  A snapshot is never ahead of the count.                      *)

SnapshotsBehind ==
    \A r \in Request : pc[r] \in Held => seen[r].version <= ceiling[seen[r].doc]

(* The version column counts applied updates, never more of them and       *)
(* exactly while no update worked on an outdated snapshot                  *)
(* (document.service.ts:86-101).                                           *)
THEOREM VersionsCount == Spec => [](VersionCountsUpdates /\ SnapshotsBehind)
<1> DEFINE Inv == VersionCountsUpdates /\ SnapshotsBehind
<1>1. Init => Inv
  BY DEF Init, VersionCountsUpdates, SnapshotsBehind, Placed, HeldState, TableState,
     Held
<1>2. TypeOK /\ HandlerState /\ Placed /\ Inv /\ [Next]_vars => Inv'
  <2> SUFFICES ASSUME TypeOK, HandlerState, Placed, Inv, [Next]_vars
               PROVE  Inv'
    OBVIOUS
  <2> USE RecordFields DEF VersionCountsUpdates, SnapshotsBehind, Placed, HeldState,
              TableState, TypeOK, HandlerState, Held, Getting, Updating, Creating,
              Active, Answered, stores, history, vars, Goto
  <2>1. ASSUME NEW r \in Request, Start(r) PROVE Inv'
    BY <2>1 DEF Start, StartGet, StartCreate, StartUpdate, Begin
  <2>2. ASSUME NEW r \in Request, GetDocument(r) PROVE Inv'
    BY <2>2 DEF GetDocument
  <2>3. ASSUME NEW r \in Request, UpdateFind(r) PROVE Inv'
    BY <2>3 DEF UpdateFind, FindOne, Rows
  <2>4. ASSUME NEW r \in Request, UpdateWrite(r) PROVE Inv'
    BY <2>4, UpdateWriteEffect
  <2>5. ASSUME NEW r \in Request, UpdateReread(r) PROVE Inv'
    BY <2>5 DEF UpdateReread
  <2>6. ASSUME NEW r \in Request, UpdatePurge(r) PROVE Inv'
    BY <2>6 DEF UpdatePurge
  <2>7. ASSUME NEW r \in Request, UpdateReturn(r) PROVE Inv'
    BY <2>7 DEF UpdateReturn
  <2>8. ASSUME NEW r \in Request, CreateFind(r) PROVE Inv'
    BY <2>8 DEF CreateFind, FindOne, Rows
  <2>9. ASSUME NEW r \in Request, CreateInsert(r) PROVE Inv'
    BY <2>9, CreateInsertEffect
  <2>10. ASSUME NEW r \in Request, CreateRefused(r) PROVE Inv'
    BY <2>10 DEF CreateRefused
  <2>11. ASSUME NEW r \in Request, CreateReread(r) PROVE Inv'
    BY <2>11 DEF CreateReread
  <2>12. ASSUME NEW r \in Request, CreateCache(r) PROVE Inv'
    BY <2>12 DEF CreateCache
  <2>13. ASSUME NEW r \in Request, Fail(r) PROVE Inv'
    BY <2>13 DEF Fail
  <2>14. ASSUME NEW u \in User, RemoveUser(u) PROVE Inv'
    BY <2>14 DEF RemoveUser, Rows
  <2>15. ASSUME Restart PROVE Inv'
    BY <2>15 DEF Restart
  <2>16. CASE UNCHANGED vars
    BY <2>16
  <2>17. QED
    BY <2>1, <2>2, <2>3, <2>4, <2>5, <2>6, <2>7, <2>8, <2>9, <2>10, <2>11, <2>12,
       <2>13, <2>14, <2>15, <2>16
       DEF Next, Step, Quiet
<1>3. QED
  BY <1>1, <1>2, TypeCorrect, PlacedInvariant, PTL DEF Spec

-----------------------------------------------------------------------------
(* A row holds what a request of its owner stored: an update writes to the *)
(* row its find chose by userUuid, and rows never change hands             *)
(* (document.service.ts:58-69,86-101).                                     *)
THEOREM ContentBelongsToOwner == Spec => []ContentFromOwner
<1>1. Init => ContentFromOwner
  BY DEF Init, ContentFromOwner, Placed, HeldState, WriteState
<1>2. TypeOK /\ HandlerState /\ Placed /\ ContentFromOwner /\ [Next]_vars => ContentFromOwner'
  <2> SUFFICES ASSUME TypeOK, HandlerState, Placed, ContentFromOwner, [Next]_vars
               PROVE  ContentFromOwner'
    OBVIOUS
  <2> USE RecordFields DEF ContentFromOwner, Placed, HeldState, WriteState, TypeOK,
              HandlerState, Held, Getting, Updating, Creating, Active, Answered,
              stores, history, vars, Goto
  <2>1. ASSUME NEW r \in Request, Start(r) PROVE ContentFromOwner'
    BY <2>1 DEF Start, StartGet, StartCreate, StartUpdate, Begin
  <2>2. ASSUME NEW r \in Request, GetDocument(r) PROVE ContentFromOwner'
    BY <2>2 DEF GetDocument
  <2>3. ASSUME NEW r \in Request, UpdateFind(r) PROVE ContentFromOwner'
    BY <2>3 DEF UpdateFind, FindOne, Rows
  <2>4. ASSUME NEW r \in Request, UpdateWrite(r) PROVE ContentFromOwner'
    BY <2>4, UpdateWriteEffect
  <2>5. ASSUME NEW r \in Request, UpdateReread(r) PROVE ContentFromOwner'
    BY <2>5 DEF UpdateReread
  <2>6. ASSUME NEW r \in Request, UpdatePurge(r) PROVE ContentFromOwner'
    BY <2>6 DEF UpdatePurge
  <2>7. ASSUME NEW r \in Request, UpdateReturn(r) PROVE ContentFromOwner'
    BY <2>7 DEF UpdateReturn
  <2>8. ASSUME NEW r \in Request, CreateFind(r) PROVE ContentFromOwner'
    BY <2>8 DEF CreateFind, FindOne, Rows
  <2>9. ASSUME NEW r \in Request, CreateInsert(r) PROVE ContentFromOwner'
    BY <2>9, CreateInsertEffect
  <2>10. ASSUME NEW r \in Request, CreateRefused(r) PROVE ContentFromOwner'
    BY <2>10 DEF CreateRefused
  <2>11. ASSUME NEW r \in Request, CreateReread(r) PROVE ContentFromOwner'
    BY <2>11 DEF CreateReread
  <2>12. ASSUME NEW r \in Request, CreateCache(r) PROVE ContentFromOwner'
    BY <2>12 DEF CreateCache
  <2>13. ASSUME NEW r \in Request, Fail(r) PROVE ContentFromOwner'
    BY <2>13 DEF Fail
  <2>14. ASSUME NEW u \in User, RemoveUser(u) PROVE ContentFromOwner'
    BY <2>14 DEF RemoveUser, Rows
  <2>15. ASSUME Restart PROVE ContentFromOwner'
    BY <2>15 DEF Restart
  <2>16. CASE UNCHANGED vars
    BY <2>16
  <2>17. QED
    BY <2>1, <2>2, <2>3, <2>4, <2>5, <2>6, <2>7, <2>8, <2>9, <2>10, <2>11, <2>12,
       <2>13, <2>14, <2>15, <2>16
       DEF Next, Step, Quiet
<1>3. QED
  BY <1>1, <1>2, TypeCorrect, PlacedInvariant, PTL DEF Spec

-----------------------------------------------------------------------------
(* One document per user.  Unless creates of a user were pending together, *)
(* at most one is between its check and its insert, and while one is there *)
(* the user has no document.                                               *)

OneCreator ==
    \A u \in User \ raced : \A r \in Request :
        pc[r] = "c_insert" /\ call[r].user = u =>
            /\ Rows(u) = {}
            /\ \A q \in Request : pc[q] = "c_insert" /\ call[q].user = u => q = r

(* Only creates of one user that are pending together give the user a      *)
(* second document (document.service.ts:58-69).                            *)
THEOREM DocumentsUnlessRaced == Spec => [](OneDocumentUnlessRaced /\ OneCreator)
<1> DEFINE Inv == OneDocumentUnlessRaced /\ OneCreator
<1>1. Init => Inv
  BY DEF Init, OneDocumentUnlessRaced, OneCreator, Rows
<1>2. TypeOK /\ HandlerState /\ Placed /\ Inv /\ [Next]_vars => Inv'
  <2> SUFFICES ASSUME TypeOK, HandlerState, Placed, Inv, [Next]_vars
               PROVE  Inv'
    OBVIOUS
  <2> USE RecordFields DEF OneDocumentUnlessRaced, OneCreator, Rows, TypeOK,
              HandlerState, Held, Getting, Updating, Creating, Active, Answered,
              stores, history, vars, Goto
  <2>1. ASSUME NEW r \in Request, Start(r) PROVE Inv'
    BY <2>1 DEF Start, StartGet, StartCreate, StartUpdate, Begin
  <2>2. ASSUME NEW r \in Request, GetDocument(r) PROVE Inv'
    BY <2>2 DEF GetDocument
  <2>3. ASSUME NEW r \in Request, UpdateFind(r) PROVE Inv'
    BY <2>3 DEF UpdateFind, FindOne, Rows
  <2>4. ASSUME NEW r \in Request, UpdateWrite(r) PROVE Inv'
    BY <2>4, UpdateWriteEffect
  <2>5. ASSUME NEW r \in Request, UpdateReread(r) PROVE Inv'
    BY <2>5 DEF UpdateReread
  <2>6. ASSUME NEW r \in Request, UpdatePurge(r) PROVE Inv'
    BY <2>6 DEF UpdatePurge
  <2>7. ASSUME NEW r \in Request, UpdateReturn(r) PROVE Inv'
    BY <2>7 DEF UpdateReturn
  <2>8. ASSUME NEW r \in Request, CreateFind(r) PROVE Inv'
    <3>1. pc[r] = "c_find" /\ call[r].user \in User /\ UNCHANGED <<documents, call>>
      BY <2>8 DEF CreateFind
    <3>2. CASE Rows(call[r].user) # {}
      <4>1. pc' = [pc EXCEPT ![r] = "ok"] /\ raced' = raced
        <5>1. PICK d \in Rows(call[r].user) :
                IF d = None
                THEN /\ Goto(r, "c_insert")
                     /\ raced' = IF AnotherCreatePending(r)
                                 THEN raced \cup {call[r].user} ELSE raced
                     /\ UNCHANGED reply
                ELSE /\ Goto(r, "ok")
                     /\ reply' = [reply EXCEPT ![r] = d]
                     /\ UNCHANGED raced
          BY <2>8, <3>2 DEF CreateFind, FindOne
        <5>2. d # None
          BY ConstantsAssumption
        <5>3. QED
          BY <5>1, <5>2
      <4>2. QED
        BY <3>1, <4>1
    <3>3. CASE Rows(call[r].user) = {}
      <4>1. /\ pc' = [pc EXCEPT ![r] = "c_insert"]
            /\ raced' = IF AnotherCreatePending(r) THEN raced \cup {call[r].user} ELSE raced
        BY <2>8, <3>3, ConstantsAssumption DEF CreateFind, FindOne
      <4>2. CASE AnotherCreatePending(r)
        BY <3>1, <4>1, <4>2
      <4>3. CASE ~AnotherCreatePending(r)
        BY <3>1, <3>3, <4>1, <4>3 DEF AnotherCreatePending
      <4>4. QED
        BY <4>2, <4>3
    <3>4. QED
      BY <3>2, <3>3
  <2>9. ASSUME NEW r \in Request, CreateInsert(r) PROVE Inv'
    BY <2>9, CreateInsertEffect
  <2>10. ASSUME NEW r \in Request, CreateRefused(r) PROVE Inv'
    BY <2>10 DEF CreateRefused
  <2>11. ASSUME NEW r \in Request, CreateReread(r) PROVE Inv'
    BY <2>11 DEF CreateReread
  <2>12. ASSUME NEW r \in Request, CreateCache(r) PROVE Inv'
    BY <2>12 DEF CreateCache
  <2>13. ASSUME NEW r \in Request, Fail(r) PROVE Inv'
    BY <2>13 DEF Fail
  <2>14. ASSUME NEW u \in User, RemoveUser(u) PROVE Inv'
    BY <2>14 DEF RemoveUser, Rows
  <2>15. ASSUME Restart PROVE Inv'
    BY <2>15 DEF Restart
  <2>16. CASE UNCHANGED vars
    BY <2>16
  <2>17. QED
    BY <2>1, <2>2, <2>3, <2>4, <2>5, <2>6, <2>7, <2>8, <2>9, <2>10, <2>11, <2>12,
       <2>13, <2>14, <2>15, <2>16
       DEF Next, Step, Quiet
<1>3. QED
  BY <1>1, <1>2, TypeCorrect, PlacedInvariant, PTL DEF Spec

-----------------------------------------------------------------------------
(* The answer to an update.  While a handler holds a document its user has *)
(* no other, unless creates raced: a document goes only with its account,  *)
(* and an account that is gone gets no new one.                            *)

ReplyState ==
    \A r \in Request : pc[r] \in Held /\ call[r].user \notin raced =>
        Rows(call[r].user) \subseteq {seen[r].doc}

(* Without raced creates the reply to an update shows the row it wrote or  *)
(* nothing (document.service.ts:95,109).                                   *)
THEOREM RepliesShowUpdatedRow == Spec => []ReplyShowsUpdatedRow
<1> DEFINE Inv == ReplyShowsUpdatedRow
<1>0. OneDocumentUnlessRaced /\ TypeOK /\ HandlerState /\ Placed => ReplyState
  BY RecordFields DEF OneDocumentUnlessRaced, HandlerState, Held, Placed, HeldState,
     TableState, ReplyState, Rows
<1>1. Init => Inv
  BY DEF Init, ReplyShowsUpdatedRow, ReplyState, IsUpdate, IsUpdate
<1>2. TypeOK /\ HandlerState /\ ReplyState /\ Inv /\ [Next]_vars => Inv'
  <2> SUFFICES ASSUME TypeOK, HandlerState, ReplyState, Inv, [Next]_vars
               PROVE  Inv'
    OBVIOUS
  <2> USE RecordFields DEF ReplyShowsUpdatedRow, ReplyState, IsUpdate, TypeOK,
              HandlerState, Held, Getting, Updating, Creating, Active, Answered,
              stores, history, vars, Goto
  <2>1. ASSUME NEW r \in Request, Start(r) PROVE Inv'
    BY <2>1 DEF Start, StartGet, StartCreate, StartUpdate, Begin
  <2>2. ASSUME NEW r \in Request, GetDocument(r) PROVE Inv'
    BY <2>2 DEF GetDocument, FindOne, Rows
  <2>3. ASSUME NEW r \in Request, UpdateFind(r) PROVE Inv'
    BY <2>3 DEF UpdateFind, FindOne, Rows
  <2>4. ASSUME NEW r \in Request, UpdateWrite(r) PROVE Inv'
    BY <2>4, UpdateWriteEffect
  <2>5. ASSUME NEW r \in Request, UpdateReread(r) PROVE Inv'
    BY <2>5 DEF UpdateReread
  <2>6. ASSUME NEW r \in Request, UpdatePurge(r) PROVE Inv'
    BY <2>6 DEF UpdatePurge
  <2>7. ASSUME NEW r \in Request, UpdateReturn(r) PROVE Inv'
    <3>1. PICK d \in FindOne(call[r].user) : reply' = [reply EXCEPT ![r] = d]
      BY <2>7 DEF UpdateReturn
    <3>2. /\ pc[r] = "u_return" /\ pc' = [pc EXCEPT ![r] = "ok"]
          /\ UNCHANGED <<documents, call, seen, raced>>
      BY <2>7 DEF UpdateReturn
    <3>3. call[r].user \notin raced => d \in {None, seen[r].doc}
      BY <3>1, <3>2 DEF FindOne
    <3>4. QED
      BY <3>1, <3>2, <3>3
  <2>8. ASSUME NEW r \in Request, CreateFind(r) PROVE Inv'
    BY <2>8 DEF CreateFind, FindOne, Rows
  <2>9. ASSUME NEW r \in Request, CreateInsert(r) PROVE Inv'
    BY <2>9, CreateInsertEffect
  <2>10. ASSUME NEW r \in Request, CreateRefused(r) PROVE Inv'
    BY <2>10 DEF CreateRefused
  <2>11. ASSUME NEW r \in Request, CreateReread(r) PROVE Inv'
    BY <2>11 DEF CreateReread
  <2>12. ASSUME NEW r \in Request, CreateCache(r) PROVE Inv'
    BY <2>12 DEF CreateCache
  <2>13. ASSUME NEW r \in Request, Fail(r) PROVE Inv'
    BY <2>13 DEF Fail
  <2>14. ASSUME NEW u \in User, RemoveUser(u) PROVE Inv'
    BY <2>14 DEF RemoveUser, Rows
  <2>15. ASSUME Restart PROVE Inv'
    BY <2>15 DEF Restart
  <2>16. CASE UNCHANGED vars
    BY <2>16
  <2>17. QED
    BY <2>1, <2>2, <2>3, <2>4, <2>5, <2>6, <2>7, <2>8, <2>9, <2>10, <2>11, <2>12,
       <2>13, <2>14, <2>15, <2>16
       DEF Next, Step, Quiet
<1>3. QED
  BY <1>1, <1>2, TypeCorrect, PlacedInvariant, DocumentsUnlessRaced, <1>0, PTL DEF Spec

-----------------------------------------------------------------------------
(* The cache.  The entry of an account that exists has a document behind   *)
(* it, and a create that is about to set the entry holds the content of    *)
(* its document unless the history records why not.                        *)

CacheBacked == \A u \in users : cache[u] # None => Rows(u) # {}

FillCurrent ==
    \A r \in Request :
        /\ pc[r] \in {"c_reread", "c_cache"}
        /\ call[r].user \notin raced \cup skewed
        /\ documents[seen[r].doc] # None
        => documents[seen[r].doc].data = r

(* A stale cache entry has one of the recorded causes                      *)
(* (document.service.ts:79-80,95-106).                                     *)
THEOREM StaleCacheHasCause == Spec => [](CacheStaleOnlyIfSkewed /\ CacheBacked /\ FillCurrent)
<1> DEFINE Inv == CacheStaleOnlyIfSkewed /\ CacheBacked /\ FillCurrent
<1>1. Init => Inv
  BY DEF Init, CacheStaleOnlyIfSkewed, CacheBacked, FillCurrent, Placed, TableState,
     HeldState, WriteState, Rows
<1>2. TypeOK /\ HandlerState /\ Placed /\ OneDocumentUnlessRaced /\ OneCreator /\ Inv /\ [Next]_vars => Inv'
  <2> SUFFICES ASSUME TypeOK, HandlerState, Placed, OneDocumentUnlessRaced, OneCreator, Inv, [Next]_vars
               PROVE  Inv'
    OBVIOUS
  <2> USE RecordFields DEF CacheStaleOnlyIfSkewed, CacheBacked, FillCurrent, Placed,
              TableState, HeldState, WriteState, Rows, TypeOK, HandlerState, Held,
              Getting, Updating, Creating, Active, Answered, stores, history, vars,
              Goto
  <2>1. ASSUME NEW r \in Request, Start(r) PROVE Inv'
    BY <2>1 DEF Start, StartGet, StartCreate, StartUpdate, Begin
  <2>2. ASSUME NEW r \in Request, GetDocument(r) PROVE Inv'
    BY <2>2 DEF GetDocument
  <2>3. ASSUME NEW r \in Request, UpdateFind(r) PROVE Inv'
    BY <2>3 DEF UpdateFind, FindOne, Rows
  <2>4. ASSUME NEW r \in Request, UpdateWrite(r) PROVE Inv'
    <3> DEFINE d == seen[r].doc
    <3>1. CASE documents[d] = None
      BY <2>4, <3>1, UpdateWriteEffect
    <3>2. CASE documents[d] # None
      <4>1. /\ d \in DocId /\ documents[d].owner = call[r].user
            /\ documents'[d] # None /\ documents'[d].owner = documents[d].owner
            /\ \A e \in DocId \ {d} : documents'[e] = documents[e]
            /\ \A q \in Request \ {r} : pc'[q] = pc[q]
            /\ pc[r] = "u_write" /\ pc'[r] \in {"error", "u_reread"}
            /\ UNCHANGED <<users, issued, cache, call, seen, raced>>
            /\ skewed' = IF pc'[r] = "error" \/ CacheFillPending(r)
                         THEN skewed \cup {call[r].user} ELSE skewed
        BY <2>4, <3>2, UpdateWriteEffect
      <4>2. \A u \in User : Rows(u)' = Rows(u)
        BY <3>2, <4>1
      <4>3. CacheBacked'
        BY <4>1, <4>2
      <4>4. ASSUME NEW q \in Request, pc'[q] \in {"c_reread", "c_cache"},
                   call'[q].user \notin (raced \cup skewed)', documents'[seen'[q].doc] # None
            PROVE  documents'[seen'[q].doc].data = q
        <5>1. q # r /\ pc[q] = pc'[q] /\ seen[q].doc \in DocId
          BY <4>1, <4>4
        <5>2. call[q].user # call[r].user
          BY <4>1, <4>4, <5>1 DEF CacheFillPending
        <5>3. seen[q].doc # d
          BY <3>2, <4>1, <4>4, <5>1, <5>2
        <5>4. QED
          BY <4>1, <4>4, <5>1, <5>3
      <4>5. FillCurrent'
        BY <4>4
      <4>6. ASSUME NEW u \in User \ (raced \cup skewed)', NEW e \in Rows(u)'
            PROVE  \/ cache'[u] \in {None, documents'[e].data}
                   \/ \E q \in Request : /\ pc'[q] \in {"u_reread", "u_purge"}
                                         /\ call'[q].user = u
        <5>1. CASE u = call[r].user
          BY <4>1, <4>6, <5>1
        <5>2. CASE u # call[r].user
          <6>1. e \in Rows(u) /\ e # d /\ documents'[e] = documents[e]
            BY <4>1, <4>2, <4>6, <5>2
          <6>2. u \in User \ (raced \cup skewed)
            BY <4>1, <4>6
          <6>3. CASE cache[u] \in {None, documents[e].data}
            BY <4>1, <6>1, <6>3
          <6>4. CASE \E q \in Request : pc[q] \in {"u_reread", "u_purge"} /\ call[q].user = u
            BY <4>1, <5>2, <6>4
          <6>5. QED
            BY <6>1, <6>2, <6>3, <6>4
        <5>3. QED
          BY <5>1, <5>2
      <4>7. QED
        BY <4>3, <4>5, <4>6
    <3>3. QED
      BY <3>1, <3>2
  <2>5. ASSUME NEW r \in Request, UpdateReread(r) PROVE Inv'
    BY <2>5 DEF UpdateReread
  <2>6. ASSUME NEW r \in Request, UpdatePurge(r) PROVE Inv'
    BY <2>6 DEF UpdatePurge
  <2>7. ASSUME NEW r \in Request, UpdateReturn(r) PROVE Inv'
    BY <2>7 DEF UpdateReturn
  <2>8. ASSUME NEW r \in Request, CreateFind(r) PROVE Inv'
    BY <2>8 DEF CreateFind, FindOne
  <2>9. ASSUME NEW r \in Request, CreateInsert(r) PROVE Inv'
    <3>1. PICK d \in DocId \ issued :
            /\ documents'[d] # None
            /\ documents'[d].owner = call[r].user
            /\ documents'[d].data = r
            /\ \A e \in DocId \ {d} : documents'[e] = documents[e]
            /\ issued' = issued \cup {d}
            /\ seen'[r].doc = d
      BY <2>9, CreateInsertEffect
    <3>2. /\ pc[r] = "c_insert" /\ pc'[r] \in {"error", "c_reread"}
          /\ call[r].user \in User /\ call[r].user \in users
          /\ \A q \in Request \ {r} : pc'[q] = pc[q] /\ seen'[q] = seen[q]
          /\ UNCHANGED <<users, cache, call, raced, skewed>>
      BY <2>9, CreateInsertEffect
    <3>3. /\ documents[d] = None
          /\ Rows(call[r].user)' = Rows(call[r].user) \cup {d}
          /\ \A u \in User \ {call[r].user} : Rows(u)' = Rows(u)
      BY <3>1, <3>2
    <3>4. CacheBacked'
      BY <3>2, <3>3
    <3>5. FillCurrent'
      BY <3>1, <3>2
    <3>6. call[r].user \notin raced => cache[call[r].user] = None
      BY <3>2 DEF OneCreator
    <3>7. CacheStaleOnlyIfSkewed'
      BY <3>1, <3>2, <3>3, <3>6
    <3>8. QED
      BY <3>4, <3>5, <3>7
  <2>10. ASSUME NEW r \in Request, CreateRefused(r) PROVE Inv'
    BY <2>10 DEF CreateRefused
  <2>11. ASSUME NEW r \in Request, CreateReread(r) PROVE Inv'
    BY <2>11 DEF CreateReread
  <2>12. ASSUME NEW r \in Request, CreateCache(r) PROVE Inv'
    <3>1. /\ pc[r] = "c_cache" /\ call[r].user \in User
          /\ cache' = [cache EXCEPT ![call[r].user] = r]
          /\ \/ pc' = [pc EXCEPT ![r] = "ok"]
             \/ pc' = [pc EXCEPT ![r] = "error"]
          /\ UNCHANGED <<users, documents, issued, call, seen, wrote, raced, skewed>>
      BY <2>12 DEF CreateCache
    <3>2. \A u \in User : Rows(u)' = Rows(u)
      BY <3>1
    <3>3. CacheBacked'
      BY <3>1, <3>2
    <3>4. FillCurrent'
      BY <3>1
    <3>5. \A e \in Rows(call[r].user) : call[r].user \notin raced \cup skewed =>
            documents[e].data = r
      BY <3>1 DEF OneDocumentUnlessRaced
    <3>6. CacheStaleOnlyIfSkewed'
      BY <3>1, <3>2, <3>5
    <3>7. QED
      BY <3>3, <3>4, <3>6
  <2>13. ASSUME NEW r \in Request, Fail(r) PROVE Inv'
    BY <2>13 DEF Fail
  <2>14. ASSUME NEW u \in User, RemoveUser(u) PROVE Inv'
    <3>1. /\ users' = users \ {u}
          /\ \A d \in DocId : documents'[d] = IF d \in Rows(u) THEN None ELSE documents[d]
          /\ UNCHANGED <<issued, cache, pc, call, seen, wrote, raced, skewed>>
      BY <2>14 DEF RemoveUser
    <3>2. \A d \in DocId : documents'[d] # None => documents'[d] = documents[d]
      BY <3>1
    <3>3. Rows(u)' = {} /\ \A v \in User \ {u} : Rows(v)' = Rows(v)
      BY <3>1
    <3>4. CacheStaleOnlyIfSkewed'
      BY <3>1, <3>2, <3>3
    <3>5. CacheBacked'
      BY <3>1, <3>3
    <3>6. FillCurrent'
      BY <3>1, <3>2, RecordFields
    <3>7. QED
      BY <3>4, <3>5, <3>6
  <2>15. ASSUME Restart PROVE Inv'
    BY <2>15 DEF Restart
  <2>16. CASE UNCHANGED vars
    BY <2>16
  <2>17. QED
    BY <2>1, <2>2, <2>3, <2>4, <2>5, <2>6, <2>7, <2>8, <2>9, <2>10, <2>11, <2>12,
       <2>13, <2>14, <2>15, <2>16
       DEF Next, Step, Quiet
<1>3. QED
  BY <1>1, <1>2, TypeCorrect, PlacedInvariant, DocumentsUnlessRaced, PTL DEF Spec

-----------------------------------------------------------------------------
(* DocumentService keeps the promise of DocumentRegister.  Each step of a  *)
(* handler is one step of the register or leaves what a caller can tell    *)
(* alone: the register changes at the statement that writes, and the       *)
(* answer is given at the last step of the handler.                        *)

(* The register a state of the service stands for.                         *)

LEMMA ContentsOf ==
    ASSUME TypeOK, NEW d \in DocId
    PROVE  /\ documents[d] = None => Contents[d] = None
           /\ documents[d] # None =>
                /\ Contents[d] = [owner |-> documents[d].owner, data |-> documents[d].data]
                /\ Contents[d] # None
                /\ Contents[d].owner = documents[d].owner
<1>1. documents[d] = None => Contents[d] = None
  BY DEF Contents
<1>2. ASSUME documents[d] # None
      PROVE  /\ Contents[d] = [owner |-> documents[d].owner, data |-> documents[d].data]
             /\ Contents[d] # None
             /\ Contents[d].owner = documents[d].owner
  <2>1. Contents[d] = [owner |-> documents[d].owner, data |-> documents[d].data]
    BY <1>2 DEF Contents
  <2>2. QED
    BY <1>2, <2>1, RecordFields, ConstantsAssumption
<1>3. QED
  BY <1>1, <1>2

LEMMA RowsOf ==
    ASSUME TypeOK, NEW u \in User
    PROVE  Promise!Rows(u) = Rows(u) /\ Promise!FindOne(u) = FindOne(u)
<1>1. Promise!Rows(u) = Rows(u)
  BY ContentsOf DEF Promise!Rows, Rows
<1>2. QED
  BY <1>1 DEF Promise!FindOne, FindOne

LEMMA CallsOf ==
    ASSUME TypeOK, NEW r \in Request, call[r] # None
    PROVE  Calls[r].op = call[r].op /\ Calls[r].user = call[r].user
  BY DEF Calls

LEMMA PhasesOf ==
    ASSUME NEW r \in Request
    PROVE  /\ pc[r] \notin Active => Phases[r] = pc[r]
           /\ pc[r] \in Active /\ r \in wrote => Phases[r] = "applied"
           /\ pc[r] \in Active /\ r \notin wrote => Phases[r] = "called"
  BY DEF Phases

(* Only the phase of the handler that moves may change.                    *)
LEMMA PhasesStep ==
    ASSUME TypeOK, NEW r \in Request, NEW label \in {"idle"} \cup Active \cup Answered,
           Goto(r, label), wrote' \in {wrote, wrote \cup {r}}
    PROVE  /\ label \notin Active => Phases' = [Phases EXCEPT ![r] = label]
           /\ label \in Active /\ r \in wrote' => Phases' = [Phases EXCEPT ![r] = "applied"]
           /\ label \in Active /\ r \notin wrote' => Phases' = [Phases EXCEPT ![r] = "called"]
<1>1. pc'[r] = label /\ \A q \in Request \ {r} : pc'[q] = pc[q]
  BY DEF Goto, TypeOK
<1>2. \A q \in Request \ {r} : Phases'[q] = Phases[q]
  BY <1>1 DEF Phases
<1>3. /\ label \notin Active => Phases'[r] = label
      /\ label \in Active /\ r \in wrote' => Phases'[r] = "applied"
      /\ label \in Active /\ r \notin wrote' => Phases'[r] = "called"
  BY <1>1 DEF Phases
<1>4. QED
  BY <1>2, <1>3 DEF Phases

-----------------------------------------------------------------------------
(* The steps.                                                              *)

(* A handler that only moves on is a stutter of the register.              *)
LEMMA MoveOn ==
    ASSUME TypeOK, NEW r \in Request, NEW label \in Active, pc[r] \in Active, Goto(r, label),
           UNCHANGED <<users, documents, call, reply, wrote>>
    PROVE  UNCHANGED Promise!vars
<1>1. Phases' = Phases
  BY DEF Phases, Goto, TypeOK
<1>2. Contents' = Contents /\ Calls' = Calls
  BY DEF Contents, Calls
<1>3. QED
  BY <1>1, <1>2 DEF Promise!vars

(* A handler that ends with an error aborts its request.                   *)
LEMMA GiveUp ==
    ASSUME TypeOK, NEW r \in Request, pc[r] \in Active, Goto(r, "error"),
           UNCHANGED <<users, documents, call, reply, wrote>>
    PROVE  Promise!Abort(r)
<1>1. Phases[r] \in {"called", "applied"}
  BY PhasesOf
<1>2. Phases' = [Phases EXCEPT ![r] = "error"]
  BY PhasesStep DEF Active, Answered, Getting, Updating, Creating
<1>3. Contents' = Contents /\ Calls' = Calls
  BY DEF Contents, Calls
<1>4. QED
  BY <1>1, <1>2, <1>3 DEF Promise!Abort

LEMMA StartCalls ==
    ASSUME TypeOK, Placed, NEW r \in Request, Start(r)
    PROVE  Promise!Call(r)
<1>1. PICK c \in Call, label \in {"g_find", "c_find", "u_find"} : Begin(r, c, label)
  BY ConstantsAssumption DEF Start, StartGet, StartCreate, StartUpdate, Call, Op, TypeOK
<1>2. pc[r] = "idle" /\ r \notin wrote /\ Goto(r, label)
      /\ UNCHANGED <<users, documents, reply, wrote>>
  BY <1>1 DEF Begin, Placed, WriteState, stores, history
<1>3. Phases[r] = "idle" /\ Phases' = [Phases EXCEPT ![r] = "called"]
  BY <1>2, PhasesOf, PhasesStep DEF Active, Getting, Updating, Creating
<1>4. Calls' = [Calls EXCEPT ![r] = [op |-> c.op, user |-> c.user]]
  BY <1>1, ConstantsAssumption DEF Begin, Calls, TypeOK
<1>5. c.op \in Promise!Op /\ c.user \in User
  BY <1>1 DEF Call, Op, Promise!Op
<1>6. Contents' = Contents
  BY <1>2 DEF Contents
<1>7. QED
  BY <1>2, <1>3, <1>4, <1>5, <1>6 DEF Promise!Call, Promise!Submit

(* A request that finishes on a row it has read, without a write.          *)
LEMMA Reads ==
    ASSUME TypeOK, HandlerState, Placed, NEW r \in Request, NEW d \in FindOne(call[r].user),
           pc[r] = "g_find" \/ (pc[r] = "c_find" /\ d # None),
           Goto(r, "ok"), reply' = [reply EXCEPT ![r] = d],
           UNCHANGED <<users, documents, call, wrote>>
    PROVE  Promise!Read(r)
<1>1. /\ call[r] # None /\ call[r].user \in User
      /\ call[r].op = "get" \/ (call[r].op = "create" /\ d # None)
      /\ r \notin wrote
  BY RecordFields DEF HandlerState, Getting, Creating, Placed, WriteState
<1>2. Phases[r] = "called" /\ Phases' = [Phases EXCEPT ![r] = "ok"]
  BY <1>1, PhasesOf, PhasesStep DEF Active, Answered, Getting, Updating, Creating
<1>3. /\ d \in Promise!FindOne(Calls[r].user)
      /\ Calls[r].op = "get" \/ (Calls[r].op = "create" /\ d # None)
  BY <1>1, CallsOf, RowsOf
<1>4. Contents' = Contents /\ Calls' = Calls
  BY DEF Contents, Calls
<1>5. QED
  BY <1>2, <1>3, <1>4 DEF Promise!Read

LEMMA UpdateApplies ==
    ASSUME TypeOK, HandlerState, Placed, NEW r \in Request, UpdateWrite(r)
    PROVE  Promise!Apply(r) \/ Promise!Abort(r) \/ UNCHANGED Promise!vars
<1> DEFINE d == seen[r].doc
<1>1. PICK label \in {"error", "u_reread"} : Goto(r, label)
  BY DEF UpdateWrite
<1>2. CASE documents[d] = None
  <2>1. UNCHANGED <<users, documents, call, reply, wrote>> /\ pc[r] \in Active
    BY <1>2, UpdateWriteEffect DEF Active, Updating
  <2>2. CASE label = "error"
    BY <1>1, <2>1, <2>2, GiveUp
  <2>3. CASE label = "u_reread"
    BY <1>1, <2>1, <2>3, MoveOn DEF Active, Updating
  <2>4. QED
    BY <2>2, <2>3
<1>3. CASE documents[d] # None
  <2>1. /\ pc[r] = "u_write" /\ r \notin wrote /\ wrote' = wrote \cup {r}
        /\ d \in DocId /\ documents[d].owner = call[r].user
        /\ call[r] # None /\ call[r].op = "update" /\ call[r].user \in User
        /\ UNCHANGED <<users, call, reply>>
    BY <1>3, UpdateWriteEffect DEF Placed, WriteState, HeldState, Held
  <2>2. /\ documents'[d] # None /\ documents'[d].owner = documents[d].owner
        /\ documents'[d].data = r
        /\ \A e \in DocId \ {d} : documents'[e] = documents[e]
    BY <1>3, UpdateWriteEffect
  <2>3. Contents[d] = [owner |-> documents[d].owner, data |-> documents[d].data]
    BY <1>3, <2>1, ContentsOf
  <2>4. Contents'[d] = [owner |-> documents[d].owner, data |-> r]
    BY <2>1, <2>2 DEF Contents
  <2>5. \A e \in DocId \ {d} : Contents'[e] = Contents[e]
    BY <2>2 DEF Contents
  <2>6. Contents' = [Contents EXCEPT ![d] = [owner |-> documents[d].owner, data |-> r]]
    BY <2>1, <2>4, <2>5 DEF Contents
  <2>7. Contents' = [Contents EXCEPT ![d] = [owner |-> Contents[d].owner, data |-> r]]
    BY <2>1, <2>3, <2>6
  <2>8. d \in Promise!Rows(Calls[r].user) /\ Calls[r].op = "update" /\ Calls' = Calls
    BY <1>3, <2>1, RowsOf, CallsOf DEF Rows, Calls
  <2>9. Phases[r] = "called" /\ \E p \in {"applied", "error"} : Phases' = [Phases EXCEPT ![r] = p]
    <3> USE DEF Active, Answered, Getting, Updating, Creating
    <3>1. CASE label = "error"
      BY <1>1, <2>1, <3>1, PhasesOf, PhasesStep
    <3>2. CASE label = "u_reread"
      BY <1>1, <2>1, <3>2, PhasesOf, PhasesStep
    <3>3. QED
      BY <3>1, <3>2
  <2>10. Promise!Apply(r)
    BY <2>1, <2>7, <2>8, <2>9 DEF Promise!Apply
  <2>11. QED
    BY <2>10
<1>4. QED
  BY <1>2, <1>3

LEMMA CreateInserts ==
    ASSUME TypeOK, HandlerState, Placed, NEW r \in Request, CreateInsert(r)
    PROVE  Promise!Insert(r)
<1>1. PICK label \in {"error", "c_reread"} : Goto(r, label)
  BY DEF CreateInsert
<1>2. /\ pc[r] = "c_insert" /\ r \notin wrote /\ wrote' = wrote \cup {r}
      /\ call[r] # None /\ call[r].op = "create"
      /\ call[r].user \in User /\ call[r].user \in users
      /\ UNCHANGED <<users, call, reply>>
  BY CreateInsertEffect DEF Placed, WriteState
<1>3. PICK d \in DocId \ issued :
        /\ documents'[d] # None
        /\ documents'[d].owner = call[r].user
        /\ documents'[d].data = r
        /\ \A e \in DocId \ {d} : documents'[e] = documents[e]
  BY CreateInsertEffect
<1>4. Contents[d] = None
  BY ContentsOf DEF Placed, TableState
<1>5. /\ Contents'[d] = [owner |-> call[r].user, data |-> r]
      /\ \A e \in DocId \ {d} : Contents'[e] = Contents[e]
  BY <1>3 DEF Contents
<1>6. Contents' = [Contents EXCEPT ![d] = [owner |-> call[r].user, data |-> r]]
  BY <1>5 DEF Contents
<1>7. Calls[r].user = call[r].user /\ Calls[r].op = "create" /\ Calls' = Calls
  BY <1>2, CallsOf DEF Calls
<1>8. Phases[r] = "called" /\ \E p \in {"applied", "error"} : Phases' = [Phases EXCEPT ![r] = p]
  <2>1. CASE label = "error"
    BY <1>1, <1>2, <2>1, PhasesOf, PhasesStep DEF Active, Answered, Getting, Updating, Creating
  <2>2. CASE label = "c_reread"
    BY <1>1, <1>2, <2>2, PhasesOf, PhasesStep DEF Active, Answered, Getting, Updating, Creating
  <2>3. QED
    BY <2>1, <2>2
<1>9. QED
  BY <1>2, <1>4, <1>6, <1>7, <1>8 DEF Promise!Insert

(* The last step of a handler that has written acknowledges its request.   *)
LEMMA Acknowledges ==
    ASSUME TypeOK, HandlerState, Placed, NEW r \in Request, NEW d,
           \/ pc[r] = "u_return" /\ d \in FindOne(call[r].user)
           \/ pc[r] = "c_cache" /\ d \in DocId,
           Goto(r, "ok"), reply' = [reply EXCEPT ![r] = d],
           UNCHANGED <<users, documents, call, wrote>>
    PROVE  Promise!Ack(r)
<1>1. /\ call[r] # None /\ call[r].user \in User /\ r \in wrote
      /\ d \in IF call[r].op = "update" THEN FindOne(call[r].user) ELSE DocId
  BY RecordFields DEF HandlerState, Updating, Creating, Placed, WriteState
<1>2. Phases[r] = "applied" /\ Phases' = [Phases EXCEPT ![r] = "ok"]
  BY <1>1, PhasesOf, PhasesStep DEF Active, Answered, Getting, Updating, Creating
<1>3. d \in IF Calls[r].op = "update" THEN Promise!FindOne(Calls[r].user) ELSE DocId
  BY <1>1, CallsOf, RowsOf
<1>4. Contents' = Contents /\ Calls' = Calls
  BY DEF Contents, Calls
<1>5. QED
  BY <1>2, <1>3, <1>4 DEF Promise!Ack

LEMMA RemovalDrops ==
    ASSUME TypeOK, NEW u \in User, RemoveUser(u)
    PROVE  Promise!DropUser(u)
<1>1. /\ u \in users /\ users' = users \ {u}
      /\ documents' = [d \in DocId |-> IF d \in Rows(u) THEN None ELSE documents[d]]
      /\ UNCHANGED <<pc, call, reply, wrote>>
  BY DEF RemoveUser, history
<1>2. \A d \in DocId : Contents'[d] = IF d \in Rows(u) THEN None ELSE Contents[d]
  BY <1>1 DEF Contents, Rows
<1>3. Contents' = [d \in DocId |-> IF d \in Promise!Rows(u) THEN None ELSE Contents[d]]
  BY <1>2, RowsOf DEF Contents
<1>4. Calls' = Calls /\ Phases' = Phases
  BY <1>1 DEF Calls, Phases
<1>5. QED
  BY <1>1, <1>3, <1>4 DEF Promise!DropUser

LEMMA RestartCrashes ==
    ASSUME TypeOK, Restart
    PROVE  Promise!Crash
<1>1. /\ pc' = [r \in Request |-> IF pc[r] \in Active THEN "error" ELSE pc[r]]
      /\ UNCHANGED <<users, documents, call, reply, wrote>>
  BY DEF Restart, stores
<1>2. Contents' = Contents /\ Calls' = Calls
  BY <1>1 DEF Contents, Calls
<1>3. ASSUME NEW r \in Request
      PROVE  Phases'[r] = IF Phases[r] \in {"called", "applied"} THEN "error" ELSE Phases[r]
  <2>1. pc'[r] = IF pc[r] \in Active THEN "error" ELSE pc[r]
    BY <1>1
  <2>2. pc'[r] \notin Active
    BY <2>1 DEF Active, Getting, Updating, Creating
  <2>3. Phases'[r] = pc'[r]
    BY <2>2 DEF Phases
  <2>4. pc[r] \notin Active => pc[r] \notin {"called", "applied"}
    BY DEF TypeOK, Answered
  <2>5. QED
    BY <2>1, <2>3, <2>4, PhasesOf
<1>4. Phases' = [r \in Request |->
                   IF Phases[r] \in {"called", "applied"} THEN "error" ELSE Phases[r]]
  BY <1>3 DEF Phases
<1>5. QED
  BY <1>1, <1>2, <1>4 DEF Promise!Crash

-----------------------------------------------------------------------------
(* Every behaviour of the service is a behaviour of the register: an       *)
(* acknowledged update took effect exactly once between its call and its   *)
(* answer, whatever else runs (document.service.ts:34-110).                *)
THEOREM ServiceKeepsPromise == Spec => KeepsPromise
<1>1. Init => Promise!Init
  BY DEF Init, Promise!Init, Contents, Calls, Phases, Active, Getting, Updating, Creating
<1>2. TypeOK /\ HandlerState /\ Placed /\ [Next]_vars => [Promise!Next]_(Promise!vars)
  <2> SUFFICES ASSUME TypeOK, HandlerState, Placed, [Next]_vars
               PROVE  Promise!Next \/ UNCHANGED Promise!vars
    OBVIOUS
  <2> USE DEF Active, Getting, Updating, Creating, Answered, stores, history
  <2>1. ASSUME NEW r \in Request, Start(r) PROVE Promise!Next
    BY <2>1, StartCalls DEF Promise!Next
  <2>2. ASSUME NEW r \in Request, GetDocument(r) PROVE Promise!Next
    BY <2>2, Reads DEF GetDocument, Promise!Next, Promise!Answer
  <2>3. ASSUME NEW r \in Request, UpdateFind(r) PROVE Promise!Next \/ UNCHANGED Promise!vars
    BY <2>3, MoveOn, GiveUp DEF UpdateFind, Promise!Next, Promise!Answer
  <2>4. ASSUME NEW r \in Request, UpdateWrite(r) PROVE Promise!Next \/ UNCHANGED Promise!vars
    BY <2>4, UpdateApplies DEF Promise!Next, Promise!Answer
  <2>5. ASSUME NEW r \in Request, UpdateReread(r) PROVE Promise!Next \/ UNCHANGED Promise!vars
    BY <2>5, MoveOn, GiveUp DEF UpdateReread, Promise!Next, Promise!Answer
  <2>6. ASSUME NEW r \in Request, UpdatePurge(r) PROVE Promise!Next \/ UNCHANGED Promise!vars
    BY <2>6, MoveOn, GiveUp DEF UpdatePurge, Promise!Next, Promise!Answer
  <2>7. ASSUME NEW r \in Request, UpdateReturn(r) PROVE Promise!Next
    BY <2>7, Acknowledges DEF UpdateReturn, Promise!Next, Promise!Answer
  <2>8. ASSUME NEW r \in Request, CreateFind(r) PROVE Promise!Next \/ UNCHANGED Promise!vars
    BY <2>8, MoveOn, Reads DEF CreateFind, Promise!Next, Promise!Answer
  <2>9. ASSUME NEW r \in Request, CreateInsert(r) PROVE Promise!Next
    BY <2>9, CreateInserts DEF Promise!Next, Promise!Answer
  <2>10. ASSUME NEW r \in Request, CreateRefused(r) PROVE Promise!Next
    BY <2>10, GiveUp DEF CreateRefused, Promise!Next, Promise!Answer
  <2>11. ASSUME NEW r \in Request, CreateReread(r) PROVE Promise!Next \/ UNCHANGED Promise!vars
    BY <2>11, MoveOn, GiveUp DEF CreateReread, Promise!Next, Promise!Answer
  <2>12. ASSUME NEW r \in Request, CreateCache(r) PROVE Promise!Next
    <3>1. seen[r].doc \in DocId
      BY <2>12, RecordFields DEF CreateCache, HandlerState, Held
    <3>2. QED
      BY <2>12, <3>1, Acknowledges, GiveUp DEF CreateCache, Promise!Next, Promise!Answer
  <2>13. ASSUME NEW r \in Request, Fail(r) PROVE Promise!Next
    BY <2>13, GiveUp DEF Fail, Promise!Next, Promise!Answer
  <2>14. ASSUME NEW u \in User, RemoveUser(u) PROVE Promise!Next
    BY <2>14, RemovalDrops DEF Promise!Next
  <2>15. ASSUME Restart PROVE Promise!Next
    BY <2>15, RestartCrashes DEF Promise!Next
  <2>16. CASE UNCHANGED vars
    BY <2>16 DEF vars, Promise!vars, Contents, Calls, Phases
  <2>17. QED
    BY <2>1, <2>2, <2>3, <2>4, <2>5, <2>6, <2>7, <2>8, <2>9, <2>10, <2>11, <2>12, <2>13,
       <2>14, <2>15, <2>16 DEF Next, Step, Quiet
<1>3. QED
  BY <1>1, <1>2, TypeCorrect, PlacedInvariant, PTL DEF Spec, KeepsPromise, Promise!Spec

=============================================================================
