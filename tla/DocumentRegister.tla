-------------------------- MODULE DocumentRegister --------------------------
(***************************************************************************)
(* What the document service promises to its callers, with every await,    *)
(* version number and cache key of the implementation left out.            *)
(*                                                                         *)
(* A document is a register that belongs to one user.  A request reads the *)
(* register of its user, creates it or overwrites it; it is called once    *)
(* and answered once, with success ("ok") or with failure ("error").  The  *)
(* promise: a successful update took effect exactly once between its call  *)
(* and its answer; a failed one took effect at most once.                  *)
(*                                                                         *)
(* A request stands for the content it carries: a register whose data is r *)
(* holds the bytes that request r supplied.                                *)
(***************************************************************************)

CONSTANTS
    User,       \* uuids of accounts
    DocId,      \* uuids of document rows
    Request,    \* calls of the service, each made at most once
    None        \* no row, no call, no reply

VARIABLES
    users,      \* the accounts that exist
    content,    \* DocId -> [owner, data], or None where there is no row
    call,       \* Request -> [op, user] once the request is called
    phase,      \* Request -> how far the request has come
    reply       \* Request -> the row its answer shows

vars == <<users, content, call, phase, reply>>

Op == {"get", "create", "update"}

Phase == {"idle", "called", "applied", "ok", "error"}

Register == [owner : User, data : Request]

TypeOK ==
    /\ users \in SUBSET User
    /\ content \in [DocId -> Register \cup {None}]
    /\ call \in [Request -> [op : Op, user : User] \cup {None}]
    /\ phase \in [Request -> Phase]
    /\ reply \in [Request -> DocId \cup {None}]

Rows(u) == {d \in DocId : content[d] # None /\ content[d].owner = u}

(* findOne limits the answer to one row and sets no order.                 *)
FindOne(u) == IF Rows(u) = {} THEN {None} ELSE Rows(u)

Init ==
    /\ users = User
    /\ content = [d \in DocId |-> None]
    /\ call = [r \in Request |-> None]
    /\ phase = [r \in Request |-> "idle"]
    /\ reply = [r \in Request |-> None]

Submit(r, o, u) ==
    /\ phase[r] = "idle"
    /\ call' = [call EXCEPT ![r] = [op |-> o, user |-> u]]
    /\ phase' = [phase EXCEPT ![r] = "called"]
    /\ UNCHANGED <<users, content, reply>>

Call(r) == \E o \in Op, u \in User : Submit(r, o, u)

(* A get answers with some row of its user, a create that meets a row      *)
(* changes nothing and answers with that row.                              *)
Read(r) ==
    /\ phase[r] = "called"
    /\ \E d \in FindOne(call[r].user) :
         /\ call[r].op = "get" \/ (call[r].op = "create" /\ d # None)
         /\ reply' = [reply EXCEPT ![r] = d]
    /\ phase' = [phase EXCEPT ![r] = "ok"]
    /\ UNCHANGED <<users, content, call>>

(* The update takes effect.  Its caller may be told that it failed.        *)
Apply(r) ==
    /\ phase[r] = "called"
    /\ call[r].op = "update"
    /\ \E d \in Rows(call[r].user) :
         content' = [content EXCEPT ![d] = [owner |-> @.owner, data |-> r]]
    /\ phase' \in {[phase EXCEPT ![r] = p] : p \in {"applied", "error"}}
    /\ UNCHANGED <<users, call, reply>>

Insert(r) ==
    /\ phase[r] = "called"
    /\ call[r].op = "create"
    /\ call[r].user \in users
    /\ \E d \in DocId :
         /\ content[d] = None
         /\ content' = [content EXCEPT ![d] = [owner |-> call[r].user, data |-> r]]
    /\ phase' \in {[phase EXCEPT ![r] = p] : p \in {"applied", "error"}}
    /\ UNCHANGED <<users, call, reply>>

Ack(r) ==
    /\ phase[r] = "applied"
    /\ phase' = [phase EXCEPT ![r] = "ok"]
    /\ \E d \in IF call[r].op = "update" THEN FindOne(call[r].user) ELSE DocId :
         reply' = [reply EXCEPT ![r] = d]
    /\ UNCHANGED <<users, content, call>>

Abort(r) ==
    /\ phase[r] \in {"called", "applied"}
    /\ phase' = [phase EXCEPT ![r] = "error"]
    /\ UNCHANGED <<users, content, call, reply>>

(* The process stops: every request in flight is lost.                     *)
Crash ==
    /\ phase' = [r \in Request |->
                    IF phase[r] \in {"called", "applied"} THEN "error" ELSE phase[r]]
    /\ UNCHANGED <<users, content, call, reply>>

DropUser(u) ==
    /\ u \in users
    /\ users' = users \ {u}
    /\ content' = [d \in DocId |-> IF d \in Rows(u) THEN None ELSE content[d]]
    /\ UNCHANGED <<call, phase, reply>>

Answer(r) == Read(r) \/ Apply(r) \/ Insert(r) \/ Ack(r) \/ Abort(r)

Next ==
    \/ \E r \in Request : Call(r) \/ Answer(r)
    \/ \E u \in User : DropUser(u)
    \/ Crash

Spec == Init /\ [][Next]_vars

(* Every request that is called is answered.                               *)
FairSpec == Spec /\ \A r \in Request : WF_vars(Answer(r))

=============================================================================
