----------------------- MODULE DocumentGatewayProofs ------------------------
(***************************************************************************)
(* What DocumentGateway keeps for any accounts, sockets, requests, rows    *)
(* and document rooms.                                                     *)
(***************************************************************************)
EXTENDS DocumentGateway, TLAPS

-----------------------------------------------------------------------------
(* The service as the gateway meets it: what a step of DocumentRegister    *)
(* does to the phases and the calls.                                       *)

(* A call takes a request from idle to called and touches no other.        *)
LEMMA SubmitEffect ==
    ASSUME Service!TypeOK, NEW r \in Request, NEW o \in Service!Op, NEW u \in User,
           Service!Submit(r, o, u)
    PROVE  /\ Service!TypeOK'
           /\ phase[r] = "idle" /\ phase'[r] = "called"
           /\ call'[r] = [op |-> o, user |-> u]
           /\ \A q \in Request \ {r} : phase'[q] = phase[q] /\ call'[q] = call[q]
<1>1. call' = [call EXCEPT ![r] = [op |-> o, user |-> u]]
  BY DEF Service!Submit
<1>2. phase' = [phase EXCEPT ![r] = "called"]
  BY DEF Service!Submit
<1>3. Service!TypeOK'
  BY <1>1, <1>2 DEF Service!Submit, Service!TypeOK, Service!Phase, Service!Rows
<1>4. QED
  BY <1>1, <1>2, <1>3 DEF Service!Submit, Service!TypeOK

(* An answer moves its own request, which was under way, and no call.      *)
LEMMA AnswerEffect ==
    ASSUME Service!TypeOK, NEW r \in Request, Service!Answer(r)
    PROVE  /\ Service!TypeOK'
           /\ phase[r] \in {"called", "applied"}
           /\ phase'[r] \in {"applied", "ok", "error"}
           /\ \A q \in Request \ {r} : phase'[q] = phase[q]
           /\ call' = call
<1>1. CASE Service!Read(r)
  BY <1>1 DEF Service!TypeOK, Service!Read, Service!FindOne, Service!Rows, Service!Phase
<1>2. CASE Service!Apply(r)
  <2>1. PICK d \in Service!Rows(call[r].user) :
            content' = [content EXCEPT ![d] = [owner |-> @.owner, data |-> r]]
    BY <1>2 DEF Service!Apply
  <2>2. content' \in [DocId -> Service!Register \cup {None}]
    BY <2>1 DEF Service!TypeOK, Service!Register, Service!Rows
  <2>3. PICK p \in {"applied", "error"} : phase' = [phase EXCEPT ![r] = p]
    BY <1>2 DEF Service!Apply
  <2>4. QED
    BY <1>2, <2>2, <2>3 DEF Service!TypeOK, Service!Apply, Service!Phase
<1>3. CASE Service!Insert(r)
  <2>1. PICK d \in DocId :
            content' = [content EXCEPT ![d] = [owner |-> call[r].user, data |-> r]]
    BY <1>3 DEF Service!Insert
  <2>2. content' \in [DocId -> Service!Register \cup {None}]
    BY <1>3, <2>1 DEF Service!TypeOK, Service!Register, Service!Insert
  <2>3. PICK p \in {"applied", "error"} : phase' = [phase EXCEPT ![r] = p]
    BY <1>3 DEF Service!Insert
  <2>4. QED
    BY <1>3, <2>2, <2>3 DEF Service!TypeOK, Service!Insert, Service!Phase
<1>4. CASE Service!Ack(r)
  <2>1. PICK d \in DocId \cup {None} : reply' = [reply EXCEPT ![r] = d]
    BY <1>4 DEF Service!Ack, Service!FindOne, Service!Rows
  <2>2. QED
    BY <1>4, <2>1 DEF Service!TypeOK, Service!Ack, Service!Phase
<1>5. CASE Service!Abort(r)
  BY <1>5 DEF Service!TypeOK, Service!Abort, Service!Phase
<1>6. QED
  BY <1>1, <1>2, <1>3, <1>4, <1>5 DEF Service!Answer

(* The removal of an account answers nobody.                               *)
LEMMA DropUserEffect ==
    ASSUME Service!TypeOK, NEW u \in User, Service!DropUser(u)
    PROVE  Service!TypeOK' /\ phase' = phase /\ call' = call
BY DEF Service!TypeOK, Service!DropUser

(* A restart answers every request under way with an error.                *)
LEMMA CrashEffect ==
    ASSUME Service!TypeOK, Service!Crash
    PROVE  /\ Service!TypeOK'
           /\ call' = call
           /\ \A r \in Request :
                phase'[r] = IF phase[r] \in {"called", "applied"} THEN "error" ELSE phase[r]
BY DEF Service!TypeOK, Service!Crash, Service!Phase

-----------------------------------------------------------------------------
(* Sockets.  Before its handshake is over a socket has no user, no room    *)
(* and no place in the registry; one that is still waiting and has closed  *)
(* closed early.                                                           *)

SocketState ==
    \A s \in Socket :
        /\ link[s] = "new" => handshake[s] = "none"
        /\ handshake[s] = "bound" <=> bound[s] # None
        /\ handshake[s] # "bound" => rooms[s] = {} /\ s \notin clients
        /\ handshake[s] = "pending" /\ link[s] = "closed" => s \in early

(* Types, the agreement of the registry, the adapter's rooms and the       *)
(* sockets' own lists, and the one way to a closed socket in the registry  *)
(* (document.gateway.ts:39-87,144-182).                                    *)
THEOREM RegistryAndRooms ==
    Spec => [](TypeOK /\ SocketState /\ RoomsAgree /\ GhostsClosedEarly)
<1> DEFINE Inv == TypeOK /\ SocketState /\ RoomsAgree /\ GhostsClosedEarly
<1>1. Init => Inv
  <2>1. Init => Service!TypeOK
    BY DEF Init, Service!Init, Service!TypeOK, Service!Phase
  <2>2. QED
    BY <2>1 DEF Init, TypeOK, SocketState, RoomsAgree, GhostsClosedEarly
<1>2. Inv /\ [Next]_vars => Inv'
  <2> SUFFICES ASSUME Inv, [Next]_vars PROVE Inv'
    OBVIOUS
  <2> USE ConstantsAssumption
  <2> USE DEF TypeOK, SocketState, RoomsAgree, GhostsClosedEarly, service, conn, groups, events
  <2>1. ASSUME NEW s \in Socket, Connect(s) PROVE Inv'
    <3>1. Service!TypeOK'
      BY <2>1 DEF Connect, Service!TypeOK
    <3>2. QED
      BY <2>1, <3>1 DEF Connect
  <2>2. ASSUME NEW s \in Socket, HandshakeDone(s) PROVE Inv'
    <3>1. Service!TypeOK'
      BY <2>2 DEF HandshakeDone, Service!TypeOK
    <3>2. PICK u \in ValidateUser(s) :
             /\ bound' = [bound EXCEPT ![s] = u]
             /\ listed' = [listed EXCEPT ![s] = {UserRoom(u)}]
             /\ rooms' = IF link[s] = "open"
                         THEN [rooms EXCEPT ![s] = @ \cup {UserRoom(u)}] ELSE rooms
      BY <2>2 DEF HandshakeDone
    <3>3. u \in User /\ UserRoom(u) \in Room
      BY <3>2 DEF ValidateUser, Service!TypeOK, Room
    <3>4. rooms[s] = {}
      BY <2>2 DEF HandshakeDone
    <3>5. TypeOK'
      BY <2>2, <3>1, <3>2, <3>3 DEF HandshakeDone
    <3>6. SocketState'
      BY <2>2, <3>2, <3>3 DEF HandshakeDone
    <3>7. RoomsAgree'
      BY <2>2, <3>2, <3>3, <3>4 DEF HandshakeDone
    <3>8. GhostsClosedEarly'
      BY <2>2 DEF HandshakeDone
    <3>9. QED
      BY <3>5, <3>6, <3>7, <3>8
  <2>3. ASSUME NEW s \in Socket, HandshakeFailed(s) PROVE Inv'
    <3>1. Service!TypeOK'
      BY <2>3 DEF HandshakeFailed, Service!TypeOK
    <3>2. QED
      BY <2>3, <3>1 DEF HandshakeFailed
  <2>4. ASSUME NEW s \in Socket, Disconnect(s) PROVE Inv'
    <3>1. Service!TypeOK'
      BY <2>4 DEF Disconnect, Service!TypeOK
    <3>2. QED
      BY <2>4, <3>1 DEF Disconnect
  <2>5. ASSUME NEW s \in Socket, NEW x \in DocRoom, JoinRoom(s, x) PROVE Inv'
    <3>1. Service!TypeOK'
      BY <2>5 DEF JoinRoom, Service!TypeOK
    <3>2. DocumentRoom(x) \in Room
      BY DEF Room
    <3>3. QED
      BY <2>5, <3>1, <3>2 DEF JoinRoom
  <2>6. ASSUME NEW s \in Socket, NEW x \in DocRoom, LeaveRoom(s, x) PROVE Inv'
    <3>1. Service!TypeOK'
      BY <2>6 DEF LeaveRoom, Service!TypeOK
    <3>2. \A u \in User : UserRoom(u) # DocumentRoom(x)
      BY DEF UserRoom, DocumentRoom
    <3>3. QED
      BY <2>6, <3>1, <3>2 DEF LeaveRoom
  <2>7. ASSUME NEW s \in Socket, NEW r \in Request, RefuseUpdate(s, r) PROVE Inv'
    <3>1. Service!TypeOK'
      BY <2>7 DEF RefuseUpdate, Service!TypeOK
    <3>2. QED
      BY <2>7, <3>1 DEF RefuseUpdate
  <2>8. ASSUME NEW s \in Socket, NEW r \in Request, SendUpdate(s, r) PROVE Inv'
    <3>1. Service!TypeOK'
      BY <2>8, SubmitEffect DEF SendUpdate, Service!Op
    <3>2. QED
      BY <2>8, <3>1 DEF SendUpdate
  <2>9. ASSUME NEW r \in Request, HandlerStep(r) PROVE Inv'
    <3>1. Service!TypeOK'
      BY <2>9, AnswerEffect DEF HandlerStep
    <3>2. got' \in [Socket -> SUBSET Request] /\ acked' \in SUBSET Request /\ failed' \in SUBSET Request
      BY <2>9 DEF HandlerStep, Broadcast, Tell
    <3>3. QED
      BY <2>9, <3>1, <3>2 DEF HandlerStep
  <2>10. ASSUME NEW r \in Request, HttpStep(r) PROVE Inv'
    <3>1. Service!TypeOK'
      BY <2>10, AnswerEffect, SubmitEffect DEF HttpStep, Service!Call
    <3>2. QED
      BY <2>10, <3>1 DEF HttpStep
  <2>11. ASSUME NEW u \in User, RemoveUser(u) PROVE Inv'
    <3>1. Service!TypeOK'
      BY <2>11, DropUserEffect DEF RemoveUser
    <3>2. QED
      BY <2>11, <3>1 DEF RemoveUser
  <2>12. CASE Restart
    <3>1. Service!TypeOK'
      BY <2>12, CrashEffect DEF Restart
    <3>2. QED
      BY <2>12, <3>1 DEF Restart
  <2>13. CASE UNCHANGED vars
    BY <2>13 DEF vars, Service!TypeOK
  <2>14. QED
    BY <2>1, <2>2, <2>3, <2>4, <2>5, <2>6, <2>7, <2>8, <2>9, <2>10, <2>11, <2>12, <2>13
       DEF Next, SocketStep
<1>3. QED
  BY <1>1, <1>2, PTL DEF Spec

-----------------------------------------------------------------------------
(* Update events.  A socket is in the room of no account but its own, an   *)
(* event that reached the service is an update of its sender's account,    *)
(* and only events are answered.                                           *)

EventState ==
    /\ \A s \in Socket, u \in User : UserRoom(u) \in rooms[s] => bound[s] = u
    /\ \A r \in Request : origin[r] # None /\ phase[r] # "idle" =>
         bound[origin[r]] # None /\ call[r].user = bound[origin[r]]
    /\ \A r \in acked \cup failed : origin[r] # None

(* What is broadcast was stored and goes to the sender's account only, and *)
(* what the sender is told is what happened to its update                  *)
(* (document.gateway.ts:89-142).                                           *)
THEOREM UpdatesAndAnswers ==
    Spec => [](EventState /\ UpdatesReachTheirUser /\ AnswersAreTrue)
<1> DEFINE Inv == EventState /\ UpdatesReachTheirUser /\ AnswersAreTrue
<1>1. Init => Inv
  BY DEF Init, Service!Init, EventState, UpdatesReachTheirUser, AnswersAreTrue
<1>2. TypeOK /\ SocketState /\ Inv /\ [Next]_vars => Inv'
  <2> SUFFICES ASSUME TypeOK, SocketState, Inv, [Next]_vars PROVE Inv'
    OBVIOUS
  <2> USE ConstantsAssumption
  <2> USE DEF TypeOK, EventState, UpdatesReachTheirUser, AnswersAreTrue,
              service, conn, groups, events
  <2>1. ASSUME NEW s \in Socket, Connect(s) PROVE Inv'
    BY <2>1 DEF Connect
  <2>2. ASSUME NEW s \in Socket, HandshakeDone(s) PROVE Inv'
    <3>1. PICK u \in ValidateUser(s) :
             /\ bound' = [bound EXCEPT ![s] = u]
             /\ rooms' = IF link[s] = "open"
                         THEN [rooms EXCEPT ![s] = @ \cup {UserRoom(u)}] ELSE rooms
      BY <2>2 DEF HandshakeDone
    <3>2. bound[s] = None /\ rooms[s] = {}
      BY <2>2 DEF HandshakeDone, SocketState
    <3>3. \A v, w \in User : UserRoom(v) = UserRoom(w) => v = w
      BY DEF UserRoom
    <3>4. u \in User
      BY DEF ValidateUser, Service!TypeOK
    <3>5. EventState'
      BY <2>2, <3>1, <3>2, <3>3, <3>4 DEF HandshakeDone
    <3>6. \A r \in Request : origin[r] = s => phase[r] = "idle"
      BY <3>2
    <3>7. got[s] = {}
      BY <3>2, <3>6
    <3>8. UpdatesReachTheirUser'
      BY <2>2, <3>1, <3>6, <3>7 DEF HandshakeDone
    <3>9. QED
      BY <2>2, <3>5, <3>8 DEF HandshakeDone
  <2>3. ASSUME NEW s \in Socket, HandshakeFailed(s) PROVE Inv'
    BY <2>3 DEF HandshakeFailed
  <2>4. ASSUME NEW s \in Socket, Disconnect(s) PROVE Inv'
    BY <2>4 DEF Disconnect
  <2>5. ASSUME NEW s \in Socket, NEW x \in DocRoom, JoinRoom(s, x) PROVE Inv'
    <3>1. \A u \in User : UserRoom(u) # DocumentRoom(x)
      BY DEF UserRoom, DocumentRoom
    <3>2. QED
      BY <2>5, <3>1 DEF JoinRoom
  <2>6. ASSUME NEW s \in Socket, NEW x \in DocRoom, LeaveRoom(s, x) PROVE Inv'
    BY <2>6 DEF LeaveRoom
  <2>7. ASSUME NEW s \in Socket, NEW r \in Request, RefuseUpdate(s, r) PROVE Inv'
    <3>1. \A t \in Socket : r \notin got[t]
      BY <2>7 DEF RefuseUpdate, Unused
    <3>2. r \notin acked
      BY <2>7 DEF RefuseUpdate, Unused
    <3>3. QED
      BY <2>7, <3>1, <3>2 DEF RefuseUpdate, Unused
  <2>8. ASSUME NEW s \in Socket, NEW r \in Request, SendUpdate(s, r) PROVE Inv'
    <3>1. /\ phase[r] = "idle" /\ phase'[r] = "called"
          /\ call'[r] = [op |-> "update", user |-> bound[s]]
          /\ \A q \in Request \ {r} : phase'[q] = phase[q] /\ call'[q] = call[q]
      BY <2>8, SubmitEffect DEF SendUpdate, Service!Op
    <3>2. origin[r] = None
      BY <2>8 DEF SendUpdate, Unused
    <3>3. r \notin acked \cup failed /\ \A t \in Socket : r \notin got[t]
      BY <3>1, <3>2
    <3>4. QED
      BY <2>8, <3>1, <3>2, <3>3 DEF SendUpdate
  <2>9. ASSUME NEW r \in Request, HandlerStep(r) PROVE Inv'
    <3>1. /\ phase[r] \in {"called", "applied"}
          /\ phase'[r] \in {"applied", "ok", "error"}
          /\ \A q \in Request \ {r} : phase'[q] = phase[q]
          /\ call' = call
      BY <2>9, AnswerEffect DEF HandlerStep
    <3>2. r \notin acked \cup failed /\ \A t \in Socket : r \notin got[t]
      BY <3>1
    <3>3. acked' \subseteq acked \cup {r} /\ failed' \subseteq failed \cup {r}
      BY <2>9 DEF HandlerStep, Tell
    <3>4. EventState'
      BY <2>9, <3>1, <3>3 DEF HandlerStep
    <3>5. UpdatesReachTheirUser'
      <4>1. ASSUME NEW t \in Socket, r \in got'[t]
            PROVE  phase'[r] = "ok" /\ t \in Recipients(origin[r])
        BY <2>9, <3>2, <4>1 DEF HandlerStep, Broadcast
      <4>2. ASSUME NEW t \in Socket, t \in Recipients(origin[r])
            PROVE  origin[r] \in Socket \ {t} /\ bound[t] = bound[origin[r]]
        BY <2>9, <3>1, <4>2 DEF HandlerStep, Recipients
      <4>3. \A t \in Socket, q \in Request \ {r} : q \in got'[t] => q \in got[t]
        BY <2>9 DEF HandlerStep, Broadcast
      <4>4. \A t \in Socket : got'[t] \subseteq Request
        BY <2>9 DEF HandlerStep, Broadcast
      <4>5. QED
        BY <2>9, <3>1, <4>1, <4>2, <4>3, <4>4 DEF HandlerStep
    <3>6. AnswersAreTrue'
      BY <2>9, <3>1, <3>2 DEF HandlerStep, Tell
    <3>7. QED
      BY <3>4, <3>5, <3>6
  <2>10. ASSUME NEW r \in Request, HttpStep(r) PROVE Inv'
    <3>1. \A q \in Request \ {r} : phase'[q] = phase[q] /\ call'[q] = call[q]
      BY <2>10, AnswerEffect, SubmitEffect DEF HttpStep, Service!Call
    <3>2. origin[r] = None
      BY <2>10 DEF HttpStep
    <3>3. r \notin acked \cup failed /\ \A t \in Socket : r \notin got[t]
      BY <3>2
    <3>4. QED
      BY <2>10, <3>1, <3>2, <3>3 DEF HttpStep
  <2>11. ASSUME NEW u \in User, RemoveUser(u) PROVE Inv'
    <3>1. phase' = phase /\ call' = call
      BY <2>11, DropUserEffect DEF RemoveUser
    <3>2. QED
      BY <2>11, <3>1 DEF RemoveUser
  <2>12. CASE Restart
    <3>1. /\ call' = call
          /\ \A r \in Request :
               phase'[r] = IF phase[r] \in {"called", "applied"} THEN "error" ELSE phase[r]
      BY <2>12, CrashEffect DEF Restart
    <3>2. QED
      BY <2>12, <3>1 DEF Restart
  <2>13. CASE UNCHANGED vars
    BY <2>13 DEF vars
  <2>14. QED
    BY <2>1, <2>2, <2>3, <2>4, <2>5, <2>6, <2>7, <2>8, <2>9, <2>10, <2>11, <2>12, <2>13
       DEF Next, SocketStep
<1>3. QED
  BY <1>1, <1>2, RegistryAndRooms, PTL DEF Spec

-----------------------------------------------------------------------------
(* The parts of the two invariants that are stated on their own.  Types,   *)
(* those of the socket handlers and of the service they call               *)
(* (document.gateway.ts:39-182).                                           *)
THEOREM GatewayTypes == Spec => []TypeOK
  BY RegistryAndRooms, PTL

(* A closed socket in the registry closed during its handshake             *)
(* (document.gateway.ts:39-87).                                            *)
THEOREM GhostsCloseEarly == Spec => []GhostsClosedEarly
  BY RegistryAndRooms, PTL

(* A sender is told what happened to its update                            *)
(* (document.gateway.ts:112-142).                                          *)
THEOREM SendersAreToldTheTruth == Spec => []AnswersAreTrue
  BY UpdatesAndAnswers, PTL

(* What the gateway does to the service is what the register allows: the   *)
(* service below it may be any that keeps DocumentRegister, as             *)
(* DocumentService does (document.gateway.ts:91-142).                      *)
THEOREM GatewayKeepsToTheRegister == Spec => Service!Spec
<1>1. Init => Service!Init
  BY DEF Init
<1>2. TypeOK /\ [Next]_vars => [Service!Next]_(Service!vars)
  <2> SUFFICES ASSUME TypeOK, [Next]_vars PROVE [Service!Next]_(Service!vars)
    OBVIOUS
  <2>1. ASSUME NEW s \in Socket, NEW r \in Request, SendUpdate(s, r)
        PROVE  Service!Next
    <3>1. Service!Submit(r, "update", bound[s]) /\ bound[s] \in User
      BY <2>1 DEF SendUpdate, TypeOK
    <3> QED
      BY <3>1 DEF Service!Next, Service!Call, Service!Op
  <2>2. ASSUME NEW r \in Request, HandlerStep(r) \/ HttpStep(r)
        PROVE  Service!Next
    BY <2>2 DEF HandlerStep, HttpStep, Service!Next
  <2>3. ASSUME NEW u \in User, RemoveUser(u)
        PROVE  Service!Next
    BY <2>3 DEF RemoveUser, Service!Next
  <2>4. CASE Restart
    BY <2>4 DEF Restart, Service!Next
  <2>5. ASSUME NEW s \in Socket,
               \/ Connect(s) \/ Disconnect(s) \/ HandshakeDone(s) \/ HandshakeFailed(s)
               \/ \E x \in DocRoom : JoinRoom(s, x) \/ LeaveRoom(s, x)
               \/ \E r \in Request : RefuseUpdate(s, r)
        PROVE  UNCHANGED Service!vars
    BY <2>5 DEF Connect, Disconnect, HandshakeDone, HandshakeFailed, JoinRoom, LeaveRoom,
                RefuseUpdate, service, Service!vars
  <2>6. CASE UNCHANGED vars
    BY <2>6 DEF vars, service, Service!vars
  <2> QED
    BY <2>1, <2>2, <2>3, <2>4, <2>5, <2>6 DEF Next, SocketStep
<1> QED
  BY <1>1, <1>2, GatewayTypes, PTL DEF Spec, Service!Spec

-----------------------------------------------------------------------------
(* A sender that is still connected is not forgotten: the service owes it  *)
(* an answer until it has been told (document.gateway.ts:91-142).  This is *)
(* the safety half of SendersAnswered.                                     *)
SendersAreOwed ==
    \A r \in Request :
        origin[r] # None /\ link[origin[r]] = "open" =>
            r \in acked \cup failed \/ phase[r] \in {"called", "applied"}

(* An event came from a socket that was opened.                            *)
SendersAreOpened == \A r \in Request : origin[r] # None => link[origin[r]] # "new"

(* When the service acknowledges an event, the handler tells its sender,   *)
(* and shows it to every other connected socket of the account: the room   *)
(* leaves none of them out.                                                *)
EverySocketIsShown ==
    \A r \in Request :
        origin[r] # None /\ phase[r] # "ok" /\ phase'[r] = "ok" =>
            /\ link[origin[r]] = "open" => r \in acked'
            /\ \A t \in Socket \ {origin[r]} :
                 link[t] = "open" /\ bound[t] = bound[origin[r]] => r \in got'[t]

THEOREM SendersAreNotForgotten == Spec => []SendersAreOwed
<1>1. Init => SendersAreOwed /\ SendersAreOpened
  BY DEF Init, SendersAreOwed, SendersAreOpened
<1>2. TypeOK /\ SendersAreOwed /\ SendersAreOpened /\ [Next]_vars
        => (SendersAreOwed /\ SendersAreOpened)'
  <2> SUFFICES ASSUME TypeOK, SendersAreOwed, SendersAreOpened, [Next]_vars
               PROVE  (SendersAreOwed /\ SendersAreOpened)'
    OBVIOUS
  <2> USE ConstantsAssumption DEF TypeOK, SendersAreOwed, SendersAreOpened
  <2>1. CASE UNCHANGED <<service, origin, acked, failed>> /\
             \A s \in Socket : (link'[s] = "open" => link[s] \in {"new", "open"})
                               /\ (link'[s] = "new" => link[s] = "new")
    BY <2>1 DEF service
  <2>2. ASSUME NEW s \in Socket,
               \/ Connect(s) \/ Disconnect(s) \/ HandshakeDone(s) \/ HandshakeFailed(s)
               \/ \E x \in DocRoom : JoinRoom(s, x) \/ LeaveRoom(s, x)
        PROVE  /\ UNCHANGED <<service, origin, acked, failed>>
               /\ \A t \in Socket : /\ link'[t] = "open" => link[t] \in {"new", "open"}
                                    /\ link'[t] = "new" => link[t] = "new"
    BY <2>2 DEF Connect, Disconnect, HandshakeDone, HandshakeFailed, JoinRoom, LeaveRoom,
                conn, events
  <2>3. ASSUME NEW s \in Socket, NEW r \in Request, RefuseUpdate(s, r)
        PROVE  (SendersAreOwed /\ SendersAreOpened)'
    BY <2>3 DEF RefuseUpdate, conn, service
  <2>4. ASSUME NEW s \in Socket, NEW r \in Request, SendUpdate(s, r)
        PROVE  (SendersAreOwed /\ SendersAreOpened)'
    <3>1. phase'[r] = "called" /\ \A q \in Request \ {r} : phase'[q] = phase[q]
      <4>1. bound[s] \in User
        BY <2>4 DEF SendUpdate
      <4> QED
        BY <2>4, <4>1, SubmitEffect DEF SendUpdate, Service!Op
    <3> QED
      BY <2>4, <3>1 DEF SendUpdate, conn, events
  <2>5. ASSUME NEW r \in Request, HandlerStep(r)
        PROVE  (SendersAreOwed /\ SendersAreOpened)'
    <3>1. /\ phase'[r] \in {"applied", "ok", "error"}
          /\ \A q \in Request \ {r} : phase'[q] = phase[q]
      BY <2>5, AnswerEffect DEF HandlerStep
    <3>2. acked \subseteq acked' /\ failed \subseteq failed'
      BY <2>5 DEF HandlerStep, Tell, events
    <3>3. link[origin[r]] = "open" => r \in acked' \cup failed' \/ phase'[r] = "applied"
      BY <2>5, <3>1 DEF HandlerStep, Tell
    <3> QED
      BY <2>5, <3>1, <3>2, <3>3 DEF HandlerStep, conn
  <2>6. ASSUME NEW r \in Request, HttpStep(r)
        PROVE  (SendersAreOwed /\ SendersAreOpened)'
    <3>1. \A q \in Request \ {r} : phase'[q] = phase[q]
      BY <2>6, AnswerEffect, SubmitEffect DEF HttpStep, Service!Call
    <3> QED
      BY <2>6, <3>1 DEF HttpStep, conn, events
  <2>7. ASSUME NEW u \in User, RemoveUser(u)
        PROVE  (SendersAreOwed /\ SendersAreOpened)'
    <3>1. phase' = phase
      BY <2>7, DropUserEffect DEF RemoveUser
    <3> QED
      BY <2>7, <3>1 DEF RemoveUser, conn, events
  <2>8. CASE Restart
    BY <2>8 DEF Restart
  <2>9. CASE UNCHANGED vars
    BY <2>1, <2>9 DEF vars, conn, events
  <2> QED
    BY <2>1, <2>2, <2>3, <2>4, <2>5, <2>6, <2>7, <2>8, <2>9 DEF Next, SocketStep
<1> QED
  BY <1>1, <1>2, GatewayTypes, PTL DEF Spec

(* No socket of the account misses an update while it is connected         *)
(* (document.gateway.ts:109-130): the rooms are the accounts', and each    *)
(* bound socket that is open is in its own.                                *)
THEOREM NoSocketIsLeftOut == Spec => [][EverySocketIsShown]_vars
<1>1. TypeOK /\ EventState /\ RoomsAgree /\ [Next]_vars => [EverySocketIsShown]_vars
  <2> SUFFICES ASSUME TypeOK, EventState, RoomsAgree, Next,
                      NEW r \in Request, origin[r] # None, phase[r] # "ok", phase'[r] = "ok"
               PROVE  /\ link[origin[r]] = "open" => r \in acked'
                      /\ \A t \in Socket \ {origin[r]} :
                           link[t] = "open" /\ bound[t] = bound[origin[r]] => r \in got'[t]
    BY DEF EverySocketIsShown
  <2> USE ConstantsAssumption DEF TypeOK
  <2>1. HandlerStep(r)
    <3>1. ASSUME NEW s \in Socket, NEW q \in Request, SendUpdate(s, q)
          PROVE  FALSE
      BY <3>1, SubmitEffect DEF SendUpdate, Service!Op
    <3>2. ASSUME NEW q \in Request, HandlerStep(q), q # r
          PROVE  FALSE
      BY <3>2, AnswerEffect DEF HandlerStep
    <3>3. ASSUME NEW q \in Request, HttpStep(q)
          PROVE  FALSE
      <4>1. q # r
        BY <3>3 DEF HttpStep
      <4> QED
        BY <3>3, <4>1, AnswerEffect, SubmitEffect DEF HttpStep, Service!Call
    <3>4. ASSUME NEW u \in User, RemoveUser(u)
          PROVE  FALSE
      BY <3>4, DropUserEffect DEF RemoveUser
    <3>5. ~Restart
      BY CrashEffect DEF Restart
    <3>6. ASSUME NEW s \in Socket,
                 \/ Connect(s) \/ Disconnect(s) \/ HandshakeDone(s) \/ HandshakeFailed(s)
                 \/ \E x \in DocRoom : JoinRoom(s, x) \/ LeaveRoom(s, x)
                 \/ \E q \in Request : RefuseUpdate(s, q)
          PROVE  phase' = phase
      BY <3>6 DEF Connect, Disconnect, HandshakeDone, HandshakeFailed, JoinRoom, LeaveRoom,
                  RefuseUpdate, service
    <3> QED
      BY <3>1, <3>2, <3>3, <3>4, <3>5, <3>6 DEF Next, SocketStep
  <2>2. Broadcast(r) /\ acked' = Tell(acked, r) 
    BY <2>1 DEF HandlerStep
  <2>3. bound[origin[r]] # None
    <3>1. phase[r] # "idle"
      BY <2>1, AnswerEffect DEF HandlerStep
    <3> QED
      BY <3>1 DEF EventState
  <2> QED
    BY <2>2, <2>3 DEF Broadcast, Recipients, Tell, RoomsAgree
<1> QED
  BY <1>1, RegistryAndRooms, UpdatesAndAnswers, PTL DEF Spec

=============================================================================
