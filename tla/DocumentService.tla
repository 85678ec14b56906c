-------------------------- MODULE DocumentService ---------------------------
(***************************************************************************)
(* DocumentService (backend/src/document/document.service.ts) over the     *)
(* tables users and documents and the Redis cache: getDocument,            *)
(* createDocument and updateDocument, cut at every await, interleaved with *)
(* each other and with the deletion of accounts.                           *)
(*                                                                         *)
(* Node runs one handler at a time between two awaits, and every await of  *)
(* these methods is one SQL statement or one Redis command: an action is   *)
(* the statement the handler waits for with the synchronous code that      *)
(* follows it, up to the next statement.  Every statement may fail, and    *)
(* one that writes may commit and have its answer lost.  The process may   *)
(* stop and start again at any point; both stores outlive it.              *)
(*                                                                         *)
(* The content of a document is the request that supplied it.              *)
(***************************************************************************)
EXTENDS Naturals

CONSTANTS
    User,           \* uuids of accounts
    DocId,          \* uuids of document rows
    Request,        \* calls of the service, each made at most once
    CreateVersion,  \* the versions a create may carry; 0 stands for none
    None            \* no row, no entry, no call, no snapshot

Op == {"get", "create", "update"}

Row == [owner : User, data : Request, version : Nat]

Call == [op : Op, user : User, version : Nat]

Snapshot == [doc : DocId, version : Nat]

ASSUME ConstantsAssumption ==
    /\ CreateVersion \subseteq Nat
    /\ None \notin Row \cup Call \cup Snapshot \cup DocId \cup Request
    /\ None \notin [owner : User, data : Request] \cup [op : Op, user : User]

VARIABLES
    users,      \* uuids in the table users
    documents,  \* DocId -> row of the table documents, or None
    issued,     \* uuids the database has given to documents; never reused
    cache,      \* User -> content under the Redis key doc:<user>, or None
    pc,         \* Request -> the await the handler stands at
    call,       \* Request -> the arguments of the request
    seen,       \* Request -> the document the handler holds: uuid and version
    reply       \* Request -> the row its answer shows

(* History variables: no action reads them.                                *)
VARIABLES
    wrote,      \* requests whose write changed a row
    ceiling,    \* DocId -> version at creation + updates applied since
    lagging,    \* documents that were written from an outdated snapshot
    raced,      \* users for whom two creates were past their check together
    skewed      \* users whose cache entry was set or kept across an update

stores  == <<users, documents, issued, cache>>
history == <<wrote, ceiling, lagging, raced, skewed>>
vars    == <<stores, pc, call, seen, reply, history>>

Getting  == {"g_find"}
Updating == {"u_find", "u_write", "u_reread", "u_purge", "u_return"}
Creating == {"c_find", "c_insert", "c_reread", "c_cache"}
Active   == Getting \cup Updating \cup Creating
Answered == {"ok", "error"}

TypeOK ==
    /\ users \in SUBSET User
    /\ documents \in [DocId -> Row \cup {None}]
    /\ issued \in SUBSET DocId
    /\ cache \in [User -> Request \cup {None}]
    /\ pc \in [Request -> {"idle"} \cup Active \cup Answered]
    /\ call \in [Request -> Call \cup {None}]
    /\ seen \in [Request -> Snapshot \cup {None}]
    /\ reply \in [Request -> DocId \cup {None}]
    /\ wrote \in SUBSET Request
    /\ ceiling \in [DocId -> Nat]
    /\ lagging \in SUBSET DocId
    /\ raced \in SUBSET User
    /\ skewed \in SUBSET User

Init ==
    /\ users = User
    /\ documents = [d \in DocId |-> None]
    /\ issued = {}
    /\ cache = [u \in User |-> None]
    /\ pc = [r \in Request |-> "idle"]
    /\ call = [r \in Request |-> None]
    /\ seen = [r \in Request |-> None]
    /\ reply = [r \in Request |-> None]
    /\ wrote = {}
    /\ ceiling = [d \in DocId |-> 0]
    /\ lagging = {}
    /\ raced = {}
    /\ skewed = {}

-----------------------------------------------------------------------------
(* Helpers.  A definition whose name ends in _Bug is a plausible mistake   *)
(* in the definition after it; no specification uses it.                   *)

Goto(r, label) == pc' = [pc EXCEPT ![r] = label]

(* Documents that belong to u.                                             *)
Rows(u) == {d \in DocId : documents[d] # None /\ documents[d].owner = u}

(* makeOptions drops a filter whose value is undefined: any row matches.   *)
FindOne_Bug(u) == {d \in DocId : documents[d] # None} \cup {None}

(* findOne({ userUuid }): at most one row and no ORDER BY, so any of them. *)
FindOne(u) == IF Rows(u) = {} THEN {None} ELSE Rows(u)

NextVersion_Bug(v) == v + 2

NextVersion(v) == v + 1

(* An absent version is stored as null.                                    *)
VersionOrOne_Bug(v) == IF v = 0 THEN None ELSE v

(* createDto.version || 1                                                  *)
VersionOrOne(v) == IF v = 0 THEN 1 ELSE v

(* Another create of the same user has found no document and has not       *)
(* inserted one yet.                                                       *)
AnotherCreatePending(r) ==
    \E q \in Request \ {r} : pc[q] = "c_insert" /\ call[q].user = call[r].user

(* A create of the same user has inserted and has not set the cache yet.   *)
CacheFillPending(r) ==
    \E q \in Request : pc[q] \in {"c_reread", "c_cache"} /\ call[q].user = call[r].user

-----------------------------------------------------------------------------
(* The start of a request.  The HTTP routes pass RolesGuard, which looks   *)
(* the account up; an update may also come from a socket whose account was *)
(* removed after the handshake.                                            *)

Begin(r, c, label) ==
    /\ pc[r] = "idle"
    /\ call' = [call EXCEPT ![r] = c]
    /\ Goto(r, label)
    /\ UNCHANGED <<stores, seen, reply, history>>

StartGet(r) ==
    \E u \in users : Begin(r, [op |-> "get", user |-> u, version |-> 0], "g_find")

StartCreate(r) ==
    \E u \in users, v \in CreateVersion :
        Begin(r, [op |-> "create", user |-> u, version |-> v], "c_find")

StartUpdate(r) ==
    \E u \in User : Begin(r, [op |-> "update", user |-> u, version |-> 0], "u_find")

-----------------------------------------------------------------------------
(* getDocument: one statement, the reply is the row it found or null.      *)

GetDocument(r) ==
    /\ pc[r] = "g_find"
    /\ \E d \in FindOne(call[r].user) : reply' = [reply EXCEPT ![r] = d]
    /\ Goto(r, "ok")
    /\ UNCHANGED <<stores, call, seen, history>>

-----------------------------------------------------------------------------
(* updateDocument                                                          *)

(* findOne, then assert(document): without one the request fails.          *)
UpdateFind(r) ==
    /\ pc[r] = "u_find"
    /\ \E d \in FindOne(call[r].user) :
         IF d = None
         THEN Goto(r, "error") /\ UNCHANGED seen
         ELSE /\ seen' = [seen EXCEPT ![r] = [doc |-> d, version |-> documents[d].version]]
              /\ Goto(r, "u_write")
    /\ UNCHANGED <<stores, call, reply, history>>

(* UPDATE ... WHERE uuid = seen.doc: the version stored is the one read    *)
(* plus one, whatever the row holds by now.  No row may match any more.    *)
UpdateWrite(r) ==
    LET d == seen[r].doc
        u == call[r].user
    IN
    /\ pc[r] = "u_write"
    /\ \E lost \in BOOLEAN :
         /\ Goto(r, IF lost THEN "error" ELSE "u_reread")
         /\ \/ /\ documents[d] # None
               /\ documents' = [documents EXCEPT ![d] =
                     [owner |-> @.owner, data |-> r, version |-> NextVersion(seen[r].version)]]
               /\ wrote' = wrote \cup {r}
               /\ ceiling' = [ceiling EXCEPT ![d] = @ + 1]
               /\ lagging' = IF documents[d].version = seen[r].version
                             THEN lagging ELSE lagging \cup {d}
               /\ skewed' = IF lost \/ CacheFillPending(r)
                            THEN skewed \cup {u} ELSE skewed
            \/ /\ documents[d] = None
               /\ UNCHANGED <<documents, wrote, ceiling, lagging, skewed>>
    /\ UNCHANGED <<users, issued, cache, call, seen, reply, raced>>

(* The statement is tried again until it meets a row.                      *)
UpdateRereadRetry_Bug(r) ==
    /\ pc[r] = "u_reread"
    /\ Goto(r, IF documents[seen[r].doc] = None THEN "u_write" ELSE "u_purge")
    /\ UNCHANGED <<stores, call, seen, reply, history>>

(* The result of the update is not looked at.                              *)
UpdateRereadUnchecked_Bug(r) ==
    /\ pc[r] = "u_reread"
    /\ Goto(r, "u_purge")
    /\ UNCHANGED <<stores, call, seen, reply, history>>

(* The read at the end of CommonService.update.  When the row is gone the  *)
(* result is null and aaaa.documentData throws before anything else runs.  *)
UpdateReread(r) ==
    /\ pc[r] = "u_reread"
    /\ Goto(r, IF documents[seen[r].doc] = None THEN "error" ELSE "u_purge")
    /\ UNCHANGED <<stores, call, seen, reply, history>>

(* The key that is deleted is not the key that is set.                     *)
UpdatePurge_Bug(r) ==
    /\ pc[r] = "u_purge"
    /\ Goto(r, "u_return")
    /\ UNCHANGED <<stores, call, seen, reply, history>>

(* cacheService.del of the key of the document's owner, who is the caller. *)
UpdatePurge(r) ==
    /\ pc[r] = "u_purge"
    /\ cache' = [cache EXCEPT ![call[r].user] = None]
    /\ Goto(r, "u_return") \/ Goto(r, "error")
    /\ UNCHANGED <<users, documents, issued, call, seen, reply, history>>

(* The reply is read again by user, not by the uuid that was updated.      *)
UpdateReturn(r) ==
    /\ pc[r] = "u_return"
    /\ \E d \in FindOne(call[r].user) : reply' = [reply EXCEPT ![r] = d]
    /\ Goto(r, "ok")
    /\ UNCHANGED <<stores, call, seen, history>>

-----------------------------------------------------------------------------
(* createDocument                                                          *)

(* The check for an existing document is left to the database.             *)
CreateFind_Bug(r) ==
    /\ pc[r] = "c_find"
    /\ Goto(r, "c_insert")
    /\ raced' = IF AnotherCreatePending(r) THEN raced \cup {call[r].user} ELSE raced
    /\ UNCHANGED <<stores, call, seen, reply, wrote, ceiling, lagging, skewed>>

(* An existing document is the answer; otherwise go on to insert.          *)
CreateFind(r) ==
    /\ pc[r] = "c_find"
    /\ \E d \in FindOne(call[r].user) :
         IF d = None
         THEN /\ Goto(r, "c_insert")
              /\ raced' = IF AnotherCreatePending(r)
                          THEN raced \cup {call[r].user} ELSE raced
              /\ UNCHANGED reply
         ELSE /\ Goto(r, "ok")
              /\ reply' = [reply EXCEPT ![r] = d]
              /\ UNCHANGED raced
    /\ UNCHANGED <<stores, call, seen, wrote, ceiling, lagging, skewed>>

(* INSERT with a uuid the database generates.  The foreign key on userUuid *)
(* refuses the row of an account that is gone.                             *)
CreateInsert(r) ==
    LET u == call[r].user
        v == VersionOrOne(call[r].version)
    IN
    /\ pc[r] = "c_insert"
    /\ u \in users
    /\ \E d \in DocId \ issued, lost \in BOOLEAN :
         /\ documents' = [documents EXCEPT ![d] = [owner |-> u, data |-> r, version |-> v]]
         /\ issued' = issued \cup {d}
         /\ ceiling' = [ceiling EXCEPT ![d] = v]
         /\ seen' = [seen EXCEPT ![r] = [doc |-> d, version |-> v]]
         /\ Goto(r, IF lost THEN "error" ELSE "c_reread")
    /\ wrote' = wrote \cup {r}
    /\ UNCHANGED <<users, cache, call, reply, lagging, raced, skewed>>

CreateRefused(r) ==
    /\ pc[r] = "c_insert"
    /\ call[r].user \notin users
    /\ Goto(r, "error")
    /\ UNCHANGED <<stores, call, seen, reply, history>>

(* The read at the end of CommonService.create, by uuid: the row may have  *)
(* gone with its account, and then document.uuid throws.                   *)
CreateReread(r) ==
    /\ pc[r] = "c_reread"
    /\ Goto(r, IF documents[seen[r].doc] = None THEN "error" ELSE "c_cache")
    /\ UNCHANGED <<stores, call, seen, reply, history>>

(* The cache gets the content of the call, not the row as it is by now.    *)
CreateCache(r) ==
    /\ pc[r] = "c_cache"
    /\ cache' = [cache EXCEPT ![call[r].user] = r]
    /\ \/ Goto(r, "ok") /\ reply' = [reply EXCEPT ![r] = seen[r].doc]
       \/ Goto(r, "error") /\ UNCHANGED reply
    /\ UNCHANGED <<users, documents, issued, call, seen, history>>

-----------------------------------------------------------------------------
(* A statement that fails without effect or a payload Buffer.from refuses: *)
(* the request ends with an error.                                         *)
Fail(r) ==
    /\ pc[r] \in Active
    /\ Goto(r, "error")
    /\ skewed' = IF pc[r] \in {"u_reread", "u_purge"} /\ r \in wrote
                 THEN skewed \cup {call[r].user} ELSE skewed
    /\ UNCHANGED <<stores, call, seen, reply, wrote, ceiling, lagging, raced>>

(* The process stops and every request in flight is lost with it.          *)
Restart ==
    /\ pc' = [r \in Request |-> IF pc[r] \in Active THEN "error" ELSE pc[r]]
    /\ skewed' = skewed \cup {call[r].user :
                      r \in {q \in wrote : pc[q] \in {"u_reread", "u_purge"}}}
    /\ UNCHANGED <<stores, call, seen, reply, wrote, ceiling, lagging, raced>>

(* The foreign key without ON DELETE CASCADE and without a check.          *)
RemoveUser_Bug(u) ==
    /\ u \in users
    /\ users' = users \ {u}
    /\ UNCHANGED <<documents, issued, cache, pc, call, seen, reply, history>>

(* DELETE /user/:uuid.  The foreign key cascades to the documents; the     *)
(* cache is left as it is.                                                 *)
RemoveUser(u) ==
    /\ u \in users
    /\ users' = users \ {u}
    /\ documents' = [d \in DocId |-> IF d \in Rows(u) THEN None ELSE documents[d]]
    /\ UNCHANGED <<issued, cache, pc, call, seen, reply, history>>

Start(r) == StartGet(r) \/ StartCreate(r) \/ StartUpdate(r)

Step(r) ==
    \/ GetDocument(r)
    \/ UpdateFind(r) \/ UpdateWrite(r) \/ UpdateReread(r)
    \/ UpdatePurge(r) \/ UpdateReturn(r)
    \/ CreateFind(r) \/ CreateInsert(r) \/ CreateRefused(r)
    \/ CreateReread(r) \/ CreateCache(r)
    \/ Fail(r)

(* Every request of the instance has been answered.                        *)
Quiet ==
    /\ \A r \in Request : pc[r] \in Answered
    /\ UNCHANGED vars

Next ==
    \/ \E r \in Request : Start(r) \/ Step(r)
    \/ \E u \in User : RemoveUser(u)
    \/ Restart
    \/ Quiet

Spec == Init /\ [][Next]_vars

(* A statement returns or fails: the database and Redis clients time out,  *)
(* and Node runs every continuation that is ready.                         *)
FairSpec == Spec /\ \A r \in Request : WF_vars(Step(r))

-----------------------------------------------------------------------------
(* Properties                                                              *)

IsUpdate(r) == call[r] # None /\ call[r].op = "update"

(* An update that reports success has changed a row: updateDocument never  *)
(* acknowledges a write that met no row, although nothing in it compares   *)
(* the number of rows (the document may go between the find and the write).*)
AckedMeansStored == \A r \in Request : pc[r] = "ok" /\ IsUpdate(r) => r \in wrote

(* The version of a document never exceeds its version at creation plus    *)
(* the updates applied to it, and it is exactly that while every update    *)
(* was computed from the version it replaced: the unlocked                 *)
(* read-modify-write of updateDocument can lose counts and never invent    *)
(* them.                                                                   *)
VersionCountsUpdates ==
    \A d \in DocId : documents[d] # None =>
        /\ documents[d].version <= ceiling[d]
        /\ d \notin lagging => documents[d].version = ceiling[d]

(* What a row holds was stored by a request of the row's owner: no         *)
(* interleaving of finds, writes and deletions carries content from one    *)
(* user's document into another's.                                         *)
ContentFromOwner ==
    \A d \in DocId : documents[d] # None =>
        /\ documents[d].data \in wrote
        /\ call[documents[d].data].user = documents[d].owner

(* A user has one document unless two of the user's creates were between   *)
(* the check and the insert of createDocument at the same time: the check  *)
(* is the only thing that keeps documents unique.                          *)
OneDocumentUnlessRaced ==
    \A u \in User \ raced : \A d, e \in Rows(u) : d = e

(* A cache entry differs from the stored document only after one of the    *)
(* causes the history records: two rows, an update that failed between its *)
(* write and its purge, or a create that set the entry after an update.    *)
(* While an update stands between the two the entry is about to go.        *)
CacheStaleOnlyIfSkewed ==
    \A u \in User \ (raced \cup skewed) : \A d \in Rows(u) :
        \/ cache[u] \in {None, documents[d].data}
        \/ \E r \in Request : /\ pc[r] \in {"u_reread", "u_purge"}
                              /\ call[r].user = u

(* The answer to an update shows the row it updated, or nothing once the   *)
(* account is gone, unless the user's creates raced: the reply is read by  *)
(* userUuid, the write went by uuid.                                       *)
ReplyShowsUpdatedRow ==
    \A r \in Request : pc[r] = "ok" /\ IsUpdate(r) /\ call[r].user \notin raced =>
        reply[r] \in {None, seen[r].doc}

(* The service keeps the promise of DocumentRegister.  The register has    *)
(* neither versions nor awaits; a request has been applied once its write  *)
(* changed a row.                                                          *)
Contents ==
    [d \in DocId |->
        IF documents[d] = None THEN None
        ELSE [owner |-> documents[d].owner, data |-> documents[d].data]]

Calls ==
    [r \in Request |->
        IF call[r] = None THEN None ELSE [op |-> call[r].op, user |-> call[r].user]]

Phases ==
    [r \in Request |->
        IF pc[r] \notin Active THEN pc[r]
        ELSE IF r \in wrote THEN "applied" ELSE "called"]

Promise == INSTANCE DocumentRegister WITH
    content <- Contents, call <- Calls, phase <- Phases

(* Safety of the promise: every step of the service is a step of the       *)
(* register or changes nothing a caller could tell.                        *)
KeepsPromise == Promise!Spec

(* The whole promise: in addition every request that is called is answered *)
(* once, whatever fails on the way.                                        *)
KeepsFairPromise == Promise!FairSpec

=============================================================================
