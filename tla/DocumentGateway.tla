-------------------------- MODULE DocumentGateway ---------------------------
(***************************************************************************)
(* DocumentGateway (backend/src/document/document.gateway.ts): sockets,    *)
(* their handshake, rooms and the registry of connected clients, over the  *)
(* document service.  The service is taken at its promise, the module      *)
(* DocumentRegister, which DocumentService is shown to keep; a handler of  *)
(* updateDocument runs on when its request of the service is answered.     *)
(*                                                                         *)
(* What socket.io does is modelled as the gateway uses it: a room holds    *)
(* open sockets only, join does nothing once a socket has closed, and an   *)
(* event emitted to a closed socket is dropped.  Nest subscribes the       *)
(* message handlers before the handshake of handleConnection has finished. *)
(*                                                                         *)
(* A request is either an update event of a socket or a call that came in  *)
(* over HTTP.  A socket is one connection: a client that reconnects is     *)
(* another socket.                                                         *)
(***************************************************************************)
EXTENDS FiniteSets

CONSTANTS
    User,       \* uuids of accounts
    DocId,      \* uuids of document rows
    Request,    \* update events and HTTP calls, each made at most once
    Socket,     \* connections, each opened at most once
    DocRoom,    \* document ids clients may name in joinDocumentRoom
    None        \* no row, no user, no socket

ASSUME ConstantsAssumption == None \notin User \cup Socket

VARIABLES users, content, call, phase, reply    \* the document service

VARIABLES
    link,       \* Socket -> "new", "open" or "closed", as the server sees it
    token,      \* Socket -> the account its token was issued to, or None
    handshake,  \* Socket -> "none", "pending", "bound" or "failed"
    bound,      \* Socket -> client.data.user.uuid, or None before the handshake
    rooms,      \* Socket -> the rooms the adapter has it in
    listed,     \* Socket -> client.data.rooms
    clients,    \* connectedClients
    origin,     \* Request -> the socket it came from, or None
    acked,      \* update events answered with updateAcknowledged
    failed,     \* update events answered with error
    got         \* Socket -> update events it was sent as documentUpdated

(* History: sockets that closed while their handshake was pending.         *)
VARIABLE early

service == <<users, content, call, phase, reply>>
conn    == <<link, token, handshake, bound, early>>
groups  == <<rooms, listed, clients>>
events  == <<acked, failed, got>>
vars    == <<service, conn, groups, origin, events>>

Service == INSTANCE DocumentRegister

(* Rooms "user:<uuid>" and "doc:<id>".                                     *)
UserRoom(u) == <<"user", u>>
DocumentRoom(x) == <<"doc", x>>
Room == {UserRoom(u) : u \in User} \cup {DocumentRoom(x) : x \in DocRoom}

TypeOK ==
    /\ Service!TypeOK
    /\ link \in [Socket -> {"new", "open", "closed"}]
    /\ token \in [Socket -> User \cup {None}]
    /\ handshake \in [Socket -> {"none", "pending", "bound", "failed"}]
    /\ bound \in [Socket -> User \cup {None}]
    /\ rooms \in [Socket -> SUBSET Room]
    /\ listed \in [Socket -> SUBSET Room]
    /\ clients \in SUBSET Socket
    /\ origin \in [Request -> Socket \cup {None}]
    /\ acked \in SUBSET Request
    /\ failed \in SUBSET Request
    /\ got \in [Socket -> SUBSET Request]
    /\ early \in SUBSET Socket

Init ==
    /\ Service!Init
    /\ link = [s \in Socket |-> "new"]
    /\ token \in [Socket -> User \cup {None}]
    /\ handshake = [s \in Socket |-> "none"]
    /\ bound = [s \in Socket |-> None]
    /\ rooms = [s \in Socket |-> {}]
    /\ listed = [s \in Socket |-> {}]
    /\ clients = {}
    /\ origin = [r \in Request |-> None]
    /\ acked = {}
    /\ failed = {}
    /\ got = [s \in Socket |-> {}]
    /\ early = {}

-----------------------------------------------------------------------------
(* Connections.  A definition whose name ends in _Bug is a plausible       *)
(* mistake in the definition after it; no specification uses it.           *)

(* handleConnection up to its await.                                       *)
Connect(s) ==
    /\ link[s] = "new"
    /\ link' = [link EXCEPT ![s] = "open"]
    /\ handshake' = [handshake EXCEPT ![s] = "pending"]
    /\ UNCHANGED <<service, token, bound, early, groups, origin, events>>

(* A token that cannot be decoded is let through without a user.           *)
ValidateUser_Bug(s) == IF token[s] = None THEN {None} ELSE users

(* validateUser reads data.user, which no token carries; the filter on     *)
(* uuid is dropped with it and findOne answers with any account.           *)
ValidateUser(s) == IF token[s] = None THEN {} ELSE users

(* The rest of handleConnection, in one turn: the user is bound to the     *)
(* socket, the socket joins the user's room and is registered, even when   *)
(* it has closed in the meantime.                                          *)
HandshakeDone(s) ==
    /\ handshake[s] = "pending"
    /\ \E u \in ValidateUser(s) :
         /\ bound' = [bound EXCEPT ![s] = u]
         /\ listed' = [listed EXCEPT ![s] = {UserRoom(u)}]
         /\ rooms' = IF link[s] = "open"
                     THEN [rooms EXCEPT ![s] = @ \cup {UserRoom(u)}] ELSE rooms
    /\ handshake' = [handshake EXCEPT ![s] = "bound"]
    /\ clients' = clients \cup {s}
    /\ UNCHANGED <<service, link, token, early, origin, events>>

(* The token cannot be decoded, no account is found or the query fails:    *)
(* the socket is told and disconnected, which runs handleDisconnect.       *)
HandshakeFailed(s) ==
    /\ handshake[s] = "pending"
    /\ handshake' = [handshake EXCEPT ![s] = "failed"]
    /\ link' = [link EXCEPT ![s] = "closed"]
    /\ clients' = clients \ {s}
    /\ UNCHANGED <<service, token, bound, early, rooms, listed, origin, events>>

(* The socket stays in the registry.                                       *)
Disconnect_Bug(s) ==
    /\ link[s] = "open"
    /\ link' = [link EXCEPT ![s] = "closed"]
    /\ rooms' = [rooms EXCEPT ![s] = {}]
    /\ early' = IF handshake[s] = "pending" THEN early \cup {s} ELSE early
    /\ UNCHANGED <<service, token, handshake, bound, listed, clients, origin, events>>

(* The transport closes; the adapter drops the socket from its rooms and   *)
(* handleDisconnect removes it from the registry.                          *)
Disconnect(s) ==
    /\ link[s] = "open"
    /\ link' = [link EXCEPT ![s] = "closed"]
    /\ rooms' = [rooms EXCEPT ![s] = {}]
    /\ clients' = clients \ {s}
    /\ early' = IF handshake[s] = "pending" THEN early \cup {s} ELSE early
    /\ UNCHANGED <<service, token, handshake, bound, listed, origin, events>>

-----------------------------------------------------------------------------
(* Rooms of documents.  Without a user both handlers return at once.       *)

JoinRoom(s, x) ==
    /\ link[s] = "open" /\ bound[s] # None
    /\ rooms' = [rooms EXCEPT ![s] = @ \cup {DocumentRoom(x)}]
    /\ listed' = [listed EXCEPT ![s] = @ \cup {DocumentRoom(x)}]
    /\ UNCHANGED <<service, conn, clients, origin, events>>

(* The socket's own list of its rooms is forgotten.                        *)
LeaveRoom_Bug(s, x) ==
    /\ link[s] = "open" /\ bound[s] # None
    /\ rooms' = [rooms EXCEPT ![s] = @ \ {DocumentRoom(x)}]
    /\ UNCHANGED <<service, conn, clients, listed, origin, events>>

LeaveRoom(s, x) ==
    /\ link[s] = "open" /\ bound[s] # None
    /\ rooms' = [rooms EXCEPT ![s] = @ \ {DocumentRoom(x)}]
    /\ listed' = [listed EXCEPT ![s] = @ \ {DocumentRoom(x)}]
    /\ UNCHANGED <<service, conn, clients, origin, events>>

-----------------------------------------------------------------------------
(* updateDocument                                                          *)

Unused(r) == phase[r] = "idle" /\ origin[r] = None

(* An event that arrives before the handshake is over is refused.          *)
RefuseUpdate(s, r) ==
    /\ link[s] = "open" /\ Unused(r)
    /\ bound[s] = None
    /\ origin' = [origin EXCEPT ![r] = s]
    /\ failed' = failed \cup {r}
    /\ UNCHANGED <<service, conn, groups, acked, got>>

SendUpdate(s, r) ==
    /\ link[s] = "open" /\ Unused(r)
    /\ bound[s] # None
    /\ Service!Submit(r, "update", bound[s])
    /\ origin' = [origin EXCEPT ![r] = s]
    /\ UNCHANGED <<conn, groups, events>>

(* io.to instead of client.to, and to everyone.                            *)
Recipients_Bug(s) == {t \in Socket : link[t] = "open"} \ {s}

(* client.to(userRoom): the members of the room without the sender.        *)
Recipients(s) == {t \in Socket : UserRoom(bound[s]) \in rooms[t]} \ {s}

(* An event reaches the sender only while it is connected.                 *)
Tell(answers, r) == IF link[origin[r]] = "open" THEN answers \cup {r} ELSE answers

Broadcast(r) ==
    got' = [t \in Socket |->
              IF t \in Recipients(origin[r]) THEN got[t] \cup {r} ELSE got[t]]

(* The service is not awaited: the sender is acknowledged at once.         *)
HandlerStepUnawaited_Bug(r) ==
    /\ origin[r] # None
    /\ Service!Answer(r)
    /\ \/ phase[r] = "called" /\ Broadcast(r) /\ acked' = Tell(acked, r) /\ UNCHANGED failed
       \/ phase[r] # "called" /\ UNCHANGED events
    /\ UNCHANGED <<conn, groups, origin>>

(* The catch block only logs.                                              *)
HandlerStepSilent_Bug(r) ==
    /\ origin[r] # None
    /\ Service!Answer(r)
    /\ \/ phase'[r] = "ok" /\ Broadcast(r) /\ acked' = Tell(acked, r) /\ UNCHANGED failed
       \/ phase'[r] # "ok" /\ UNCHANGED events
    /\ UNCHANGED <<conn, groups, origin>>

(* The service moves on with an update event.  When it answers, the        *)
(* handler goes on in the same turn: success is broadcast to the room and  *)
(* acknowledged, failure is reported to the sender.                        *)
HandlerStep(r) ==
    /\ origin[r] # None
    /\ Service!Answer(r)
    /\ \/ phase'[r] = "applied" /\ UNCHANGED events
       \/ phase'[r] = "ok" /\ Broadcast(r) /\ acked' = Tell(acked, r) /\ UNCHANGED failed
       \/ phase'[r] = "error" /\ failed' = Tell(failed, r) /\ UNCHANGED <<acked, got>>
    /\ UNCHANGED <<conn, groups, origin>>

-----------------------------------------------------------------------------
(* Calls over HTTP, removed accounts and restarts                          *)

HttpStep(r) ==
    /\ origin[r] = None
    /\ Service!Call(r) \/ Service!Answer(r)
    /\ UNCHANGED <<conn, groups, origin, events>>

RemoveUser(u) ==
    /\ Service!DropUser(u)
    /\ UNCHANGED <<conn, groups, origin, events>>

(* The process stops: every socket closes, and the registry, the rooms and *)
(* the handlers in flight are gone.                                        *)
Restart ==
    /\ Service!Crash
    /\ link' = [s \in Socket |-> IF link[s] = "open" THEN "closed" ELSE link[s]]
    /\ handshake' = [s \in Socket |-> IF handshake[s] = "pending" THEN "failed" ELSE handshake[s]]
    /\ rooms' = [s \in Socket |-> {}]
    /\ clients' = {}
    /\ UNCHANGED <<token, bound, early, listed, origin, events>>

SocketStep(s) ==
    \/ Connect(s) \/ Disconnect(s)
    \/ \E x \in DocRoom : JoinRoom(s, x) \/ LeaveRoom(s, x)
    \/ \E r \in Request : RefuseUpdate(s, r) \/ SendUpdate(s, r)

Next ==
    \/ \E s \in Socket : SocketStep(s) \/ HandshakeDone(s) \/ HandshakeFailed(s)
    \/ \E r \in Request : HandlerStep(r) \/ HttpStep(r)
    \/ \E u \in User : RemoveUser(u)
    \/ Restart

Spec == Init /\ [][Next]_vars

(* The service answers, and a handshake waits for one query that returns   *)
(* or fails.                                                               *)
FairSpec ==
    /\ Spec
    /\ \A r \in Request : WF_vars(HandlerStep(r))
    /\ \A s \in Socket : WF_vars(HandshakeDone(s) \/ HandshakeFailed(s))

-----------------------------------------------------------------------------
(* Properties                                                              *)

(* An open socket with a user is registered and in the user's room, and    *)
(* its own list of rooms is the adapter's; a closed socket is in no room.  *)
(* handleDisconnect and the broadcasts rely on the two agreeing            *)
(* (document.gateway.ts:45-57,80-82,152-154,172-174).                      *)
RoomsAgree ==
    \A s \in Socket :
        /\ link[s] = "open" /\ bound[s] # None =>
             s \in clients /\ UserRoom(bound[s]) \in rooms[s] /\ rooms[s] = listed[s]
        /\ link[s] # "open" => rooms[s] = {}

(* An update is shown only to other sockets of the same user, and only     *)
(* once the service has acknowledged it: no socket sees content that was   *)
(* not stored (document.gateway.ts:115-125).                               *)
UpdatesReachTheirUser ==
    \A s \in Socket : \A r \in got[s] :
        /\ phase[r] = "ok"
        /\ origin[r] \in Socket \ {s}
        /\ bound[s] = bound[origin[r]]
        /\ bound[s] = call[r].user

(* The sender is told the truth, and one thing: acknowledged means stored, *)
(* an error means that the service did not acknowledge                     *)
(* (document.gateway.ts:94-98,127-141).                                    *)
AnswersAreTrue ==
    /\ acked \cap failed = {}
    /\ \A r \in acked : phase[r] = "ok"
    /\ \A r \in failed : phase[r] \in {"idle", "error"}

(* A closed socket stays registered only when it closed during its own     *)
(* handshake (document.gateway.ts:43,57,86).                               *)
GhostsClosedEarly == \A s \in clients : link[s] = "closed" => s \in early

(* A sender that stays connected hears about its update: acknowledged or   *)
(* refused.                                                                *)
SendersAnswered ==
    \A r \in Request, s \in Socket :
        origin[r] = s ~> (r \in acked \cup failed \/ link[s] = "closed")

=============================================================================
