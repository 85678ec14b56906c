------------------------ MODULE EditorSessionProofs -------------------------
(***************************************************************************)
(* What EditorSession keeps for every number of tabs, strokes, rows and    *)
(* mounts.                                                                 *)
(***************************************************************************)
EXTENDS EditorSession, TLAPS

(* A page that does not show the editor has no service, no timer, no       *)
(* socket; before the first create of a mount nothing listens.             *)
PageState ==
    \A t \in Tab :
        /\ t \in mounted => mounts[t] > 0
        /\ t \notin mounted => t \notin timer /\ t \notin hasCreated /\ effect[t] = None
        /\ t \notin hasCreated => listeners[t] = 0

(* Types, and one service per document that saves it: loading takes the    *)
(* listener of the tab's own create away, and the cleanup its timer        *)
(* (context.tsx:48-87, documentSync.ts:70-92).                             *)
THEOREM OneSaverAtMost == Spec => [](TypeOK /\ PageState /\ OneSaver)
<1> DEFINE Inv == TypeOK /\ PageState /\ OneSaver
<1>1. Init => Inv
  BY ConstantsAssumption DEF Init, TypeOK, PageState, OneSaver, Mount, State
<1>2. Inv /\ [Next]_vars => Inv'
  <2> SUFFICES ASSUME Inv, [Next]_vars
               PROVE  Inv'
    OBVIOUS
  <2> USE DEF TypeOK, PageState, OneSaver, Mount, State, page, fetched, server,
              history
  <2>1. ASSUME NEW t \in Tab, Open(t) PROVE Inv'
    <3> DEFINE p == <<t, mounts[t] + 1>>
    <3>1. mounts[t] + 1 \in 1..MaxMounts
      BY <2>1, ConstantsAssumption DEF Open
    <3>2. p \in Mount /\ {p} \in State
      BY <3>1 DEF Element
    <3>3. Provide(t, p, {p}) /\ mounts' = [mounts EXCEPT ![t] = @ + 1]
          /\ mounted' = mounted \cup {t}
          /\ fetch' = [fetch EXCEPT ![t] = IF @ = "idle" THEN "asked" ELSE @]
          /\ UNCHANGED <<online, query, found, rows, saves, author, turns>>
      BY <2>1 DEF Open
    <3> HIDE DEF p
    <3>4. TypeOK'
      BY <3>1, <3>2, <3>3 DEF Provide, Load, Create
    <3>5. (PageState /\ OneSaver)'
      BY <2>1, <3>3 DEF Open, Provide, Load, Create
    <3>6. QED
      BY <3>4, <3>5
  <2>2. ASSUME NEW t \in Tab, Rerun(t) PROVE Inv'
    BY <2>2, ConstantsAssumption DEF Rerun, Provide, Load, Create, Current
  <2>3. ASSUME NEW t \in Tab, Leave(t) PROVE Inv'
    BY <2>3 DEF Leave
  <2>4. ASSUME NEW t \in Tab, NEW x \in Stroke, Draw(t, x) PROVE Inv'
    <3>1. Current(t) \in Mount
      BY <2>4, ConstantsAssumption DEF Draw, Current
    <3>2. x \in Element
      BY DEF Element
    <3>3. QED
      BY <2>4, <3>1, <3>2 DEF Draw
  <2>5. ASSUME NEW t \in Tab, FireTimer(t) PROVE Inv'
    BY <2>5 DEF FireTimer, Current
  <2>6. ASSUME NEW t \in Tab, GoOnline(t) PROVE Inv'
    BY <2>6 DEF GoOnline
  <2>7. ASSUME NEW t \in Tab, GoOffline(t) PROVE Inv'
    BY <2>7 DEF GoOffline
  <2>8. ASSUME NEW t \in Tab, Refetch(t) PROVE Inv'
    BY <2>8 DEF Refetch
  <2>9. ASSUME NEW t \in Tab, AnswerFetch(t) PROVE Inv'
    BY <2>9 DEF AnswerFetch, FindOne, Rows
  <2>10. ASSUME NEW t \in Tab, Fetched(t) PROVE Inv'
    BY <2>10 DEF Fetched
  <2>11. ASSUME NEW t \in Tab, FetchFails(t) PROVE Inv'
    BY <2>11 DEF FetchFails
  <2>12. ASSUME NEW p \in posts, CheckPost(p) PROVE Inv'
    BY <2>12 DEF CheckPost, Become, Rows
  <2>13. ASSUME NEW p \in posts, InsertPost(p) PROVE Inv'
    BY <2>13 DEF InsertPost, Become, Rows
  <2>14. ASSUME NEW p \in posts, Created(p) PROVE Inv'
    BY <2>14 DEF Created
  <2>15. ASSUME NEW p \in posts, PostFails(p) PROVE Inv'
    BY <2>15 DEF PostFails
  <2>16. ASSUME NEW m \in saves, ApplySave(m) PROVE Inv'
    BY <2>16 DEF ApplySave, Decoded, Rows
  <2>17. ASSUME NEW m \in saves, SaveFails(m) PROVE Inv'
    BY <2>17 DEF SaveFails
  <2>18. CASE UNCHANGED vars
    BY <2>18 DEF vars
  <2>19. QED
    BY <2>1, <2>2, <2>3, <2>4, <2>5, <2>6, <2>7, <2>8, <2>9, <2>10, <2>11, <2>12,
       <2>13, <2>14, <2>15, <2>16, <2>17, <2>18 DEF Next, TabStep
<1>3. QED
  BY <1>1, <1>2, PTL DEF Spec

-----------------------------------------------------------------------------
(* Nothing a listening tab shows is forgotten: only a run of the effect    *)
(* that loads takes a timer away from a tab that stays, and then nothing   *)
(* listens any more (documentSync.ts:29-46, context.tsx:87).               *)
THEOREM EditsAreHandedOver == Spec => []EditsHandedOver
<1>1. Init => EditsHandedOver
  BY DEF Init, EditsHandedOver
<1>2. TypeOK /\ PageState /\ OneSaver /\ EditsHandedOver /\ [Next]_vars => EditsHandedOver'
  <2> SUFFICES ASSUME TypeOK, PageState, OneSaver, EditsHandedOver, [Next]_vars
               PROVE  EditsHandedOver'
    OBVIOUS
  <2> USE DEF EditsHandedOver, TypeOK, PageState, OneSaver, page, fetched, server, history
  <2>1. ASSUME NEW t \in Tab, Open(t) PROVE EditsHandedOver'
    <3>1. PICK p, y : Provide(t, p, y)
      BY <2>1 DEF Open
    <3>2. QED
      BY <2>1, <3>1 DEF Open, Provide, Load, Create
  <2>2. ASSUME NEW t \in Tab, Rerun(t) PROVE EditsHandedOver'
    BY <2>2 DEF Rerun, Provide, Load, Create, Current
  <2>3. ASSUME NEW t \in Tab, Leave(t) PROVE EditsHandedOver'
    BY <2>3 DEF Leave
  <2>4. ASSUME NEW t \in Tab, NEW x \in Stroke, Draw(t, x) PROVE EditsHandedOver'
    BY <2>4 DEF Draw, Current
  <2>5. ASSUME NEW t \in Tab, FireTimer(t) PROVE EditsHandedOver'
    BY <2>5 DEF FireTimer, Current
  <2>6. ASSUME NEW t \in Tab, GoOnline(t) PROVE EditsHandedOver'
    BY <2>6 DEF GoOnline
  <2>7. ASSUME NEW t \in Tab, GoOffline(t) PROVE EditsHandedOver'
    BY <2>7 DEF GoOffline
  <2>8. ASSUME NEW t \in Tab, Refetch(t) PROVE EditsHandedOver'
    BY <2>8 DEF Refetch
  <2>9. ASSUME NEW t \in Tab, AnswerFetch(t) PROVE EditsHandedOver'
    BY <2>9 DEF AnswerFetch
  <2>10. ASSUME NEW t \in Tab, Fetched(t) PROVE EditsHandedOver'
    BY <2>10 DEF Fetched
  <2>11. ASSUME NEW t \in Tab, FetchFails(t) PROVE EditsHandedOver'
    BY <2>11 DEF FetchFails
  <2>12. ASSUME NEW p \in posts, CheckPost(p) PROVE EditsHandedOver'
    BY <2>12 DEF CheckPost, Become
  <2>13. ASSUME NEW p \in posts, InsertPost(p) PROVE EditsHandedOver'
    BY <2>13 DEF InsertPost, Become
  <2>14. ASSUME NEW p \in posts, Created(p) PROVE EditsHandedOver'
    BY <2>14 DEF Created
  <2>15. ASSUME NEW p \in posts, PostFails(p) PROVE EditsHandedOver'
    BY <2>15 DEF PostFails
  <2>16. ASSUME NEW m \in saves, ApplySave(m) PROVE EditsHandedOver'
    BY <2>16 DEF ApplySave, Decoded
  <2>17. ASSUME NEW m \in saves, SaveFails(m) PROVE EditsHandedOver'
    BY <2>17 DEF SaveFails
  <2>18. CASE UNCHANGED vars
    BY <2>18 DEF vars
  <2>19. QED
    BY <2>1, <2>2, <2>3, <2>4, <2>5, <2>6, <2>7, <2>8, <2>9, <2>10, <2>11, <2>12,
       <2>13, <2>14, <2>15, <2>16, <2>17, <2>18 DEF Next, TabStep
<1>3. QED
  BY <1>1, <1>2, OneSaverAtMost, PTL DEF Spec

-----------------------------------------------------------------------------
(* The first mount of a tab opens on an empty query, so its effect creates *)
(* at once and its service listens to its own work until the tab loads.    *)
WorkState ==
    /\ \A t \in Tab : mounts[t] = 0 => query[t] = None /\ fetch[t] = "idle"
    /\ \A t \in mounted : mounts[t] = 1 =>
         /\ t \in hasCreated
         /\ listeners[t] > 0 => ydoc[t] \subseteq OwnWork(Current(t))
    /\ \A p \in posts : p.by[2] = 1 => p.state \subseteq OwnWork(p.by)
    /\ \A m \in saves : m.by[2] = 1 => m.state \subseteq OwnWork(m.by)

(* What the first mount of a tab stores it drew itself: by the time a tab  *)
(* shows another tab's work its listener is gone (context.tsx:48-82,       *)
(* documentSync.ts:76-80).                                                 *)
THEOREM NothingMergedIsEverStored == Spec => [](NothingMergedIsStored /\ WorkState)
<1> DEFINE Inv == NothingMergedIsStored /\ WorkState
<1>1. Init => Inv
  BY ConstantsAssumption DEF Init, NothingMergedIsStored, WorkState, OwnWork, Rows,
     Current, TypeOK, PageState, OneSaver, Mount
<1>2. TypeOK /\ PageState /\ OneSaver /\ Inv /\ [Next]_vars => Inv'
  <2> SUFFICES ASSUME TypeOK, PageState, OneSaver, Inv, [Next]_vars
               PROVE  Inv'
    OBVIOUS
  <2> USE DEF NothingMergedIsStored, WorkState, OwnWork, Rows, Current, TypeOK,
              PageState, OneSaver, Mount, page, fetched, server, history
  <2>1. ASSUME NEW t \in Tab, Open(t) PROVE Inv'
    BY <2>1 DEF Open, Provide, Load, Create
  <2>2. ASSUME NEW t \in Tab, Rerun(t) PROVE Inv'
    BY <2>2 DEF Rerun, Provide, Load, Create, Current
  <2>3. ASSUME NEW t \in Tab, Leave(t) PROVE Inv'
    BY <2>3 DEF Leave
  <2>4. ASSUME NEW t \in Tab, NEW x \in Stroke, Draw(t, x) PROVE Inv'
    <3>1. author' = [author EXCEPT ![x] = Current(t)] /\ author[x] = None
      BY <2>4 DEF Draw
    <3>2. \A p \in Mount : OwnWork(p) \subseteq OwnWork(p)'
      BY <3>1, ConstantsAssumption
    <3>3. x \in OwnWork(Current(t))'
      BY <2>4, <3>1 DEF Draw
    <3>4. \A u \in mounted : mounts[u] > 0 /\ Current(u) \in Mount
      BY ConstantsAssumption
    <3> HIDE DEF OwnWork, Current
    <3>5. /\ \A u \in Tab : Current(u)' = Current(u)
          /\ \A u \in Tab \ {t} : ydoc'[u] = ydoc[u]
          /\ ydoc'[t] = ydoc[t] \cup {x}
      BY <2>4 DEF Draw, Current
    <3>6. WorkState'
      BY <2>4, <3>2, <3>3, <3>4, <3>5 DEF Draw
    <3>7. NothingMergedIsStored'
      BY <2>4, <3>2 DEF Draw
    <3>8. QED
      BY <3>6, <3>7
  <2>5. ASSUME NEW t \in Tab, FireTimer(t) PROVE Inv'
    <3>1. /\ t \in mounted /\ listeners[t] > 0
          /\ UNCHANGED <<mounts, mounted, ydoc, hasCreated, listeners, fetched, rows, posts, author>>
          /\ saves' \in {saves, saves \cup {[by |-> Current(t), turn |-> turns[t], state |-> ydoc[t]]}}
      BY <2>5 DEF FireTimer
    <3>2. Current(t)[2] = 1 => ydoc[t] \subseteq OwnWork(Current(t))
      BY <3>1
    <3>3. \A m \in saves' : m.by[2] = 1 => m.state \subseteq OwnWork(m.by)
      <4> HIDE DEF OwnWork, Current
      <4>1. QED
        BY <3>1, <3>2
    <3>4. QED
      BY <3>1, <3>3
  <2>6. ASSUME NEW t \in Tab, GoOnline(t) PROVE Inv'
    BY <2>6 DEF GoOnline
  <2>7. ASSUME NEW t \in Tab, GoOffline(t) PROVE Inv'
    BY <2>7 DEF GoOffline
  <2>8. ASSUME NEW t \in Tab, Refetch(t) PROVE Inv'
    BY <2>8 DEF Refetch
  <2>9. ASSUME NEW t \in Tab, AnswerFetch(t) PROVE Inv'
    BY <2>9 DEF AnswerFetch, FindOne
  <2>10. ASSUME NEW t \in Tab, Fetched(t) PROVE Inv'
    BY <2>10 DEF Fetched
  <2>11. ASSUME NEW t \in Tab, FetchFails(t) PROVE Inv'
    BY <2>11 DEF FetchFails
  <2>12. ASSUME NEW p \in posts, CheckPost(p) PROVE Inv'
    BY <2>12 DEF CheckPost, Become
  <2>13. ASSUME NEW p \in posts, InsertPost(p) PROVE Inv'
    BY <2>13 DEF InsertPost, Become
  <2>14. ASSUME NEW p \in posts, Created(p) PROVE Inv'
    BY <2>14 DEF Created
  <2>15. ASSUME NEW p \in posts, PostFails(p) PROVE Inv'
    BY <2>15 DEF PostFails
  <2>16. ASSUME NEW m \in saves, ApplySave(m) PROVE Inv'
    BY <2>16 DEF ApplySave, Decoded
  <2>17. ASSUME NEW m \in saves, SaveFails(m) PROVE Inv'
    BY <2>17 DEF SaveFails
  <2>18. CASE UNCHANGED vars
    BY <2>18 DEF vars
  <2>19. QED
    BY <2>1, <2>2, <2>3, <2>4, <2>5, <2>6, <2>7, <2>8, <2>9, <2>10, <2>11, <2>12,
       <2>13, <2>14, <2>15, <2>16, <2>17, <2>18 DEF Next, TabStep
<1>3. QED
  BY <1>1, <1>2, OneSaverAtMost, PTL DEF Spec

-----------------------------------------------------------------------------
(* Types of the tabs, the requests under way and the table                 *)
(* (context.tsx:26-124, documentSync.ts:23-109).                           *)
THEOREM SessionTypes == Spec => []TypeOK
  BY OneSaverAtMost, PTL

=============================================================================
