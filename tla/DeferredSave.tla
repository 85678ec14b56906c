---------------------------- MODULE DeferredSave ----------------------------
(***************************************************************************)
(* DeferredSave: saveDocumentUpdate and schedulePostgresSave               *)
(* (backend/src/document/document.service.ts:113-153), the save that puts  *)
(* the content under a temporary key at once and into the table thirty     *)
(* seconds after the user's last one.  No route calls it; the module says  *)
(* what a caller would get.                                                *)
(*                                                                         *)
(* The content of a save is the save, and a row it inserts bears its name. *)
(* The temporary key is set without an expiry: the third argument of set   *)
(* is a bare number, which the client takes for no option.  Commands of    *)
(* one Redis connection are answered in their order, so setting the key    *)
(* and arming the timer is one step.                                       *)
(***************************************************************************)
EXTENDS Naturals

CONSTANTS
    User,       \* uuids of accounts
    Save,       \* calls of saveDocumentUpdate, each made at most once
    None        \* no row, no entry, no timer, nothing held

Row  == [owner : User, data : Save, version : Nat]
Held == [doc : Save, version : Nat]

ASSUME ConstantsAssumption == None \notin Row \cup Held \cup Save \cup User

VARIABLES
    documents,      \* Save -> the row it inserted, or None
    temp,           \* User -> the save under doc:<user>:temp, or None
    saveTimeouts,   \* User -> the save whose timer the map holds, or None
    pc,             \* Save -> where its timer or its callback stands
    user,           \* Save -> the account it is for
    turn,           \* Save -> its place in the order of acceptance
    accepted,       \* how many have been accepted
    held            \* Save -> the document its callback found

(* History variables: no action reads them.                                *)
VARIABLES
    outlived,       \* users for whom a callback ended after a newer save
    overlapped,     \* users for whom two callbacks ran at once
    lossy           \* users who lost a save to a failure or a restart

order   == <<turn, accepted>>
process == <<saveTimeouts, pc, user, order, held>>
history == <<outlived, overlapped, lossy>>
vars    == <<documents, temp, process, history>>

Running  == {"find", "write", "insert", "del_temp", "del_doc"}
Finished == {"stored", "cleared", "failed", "lost"}

TypeOK ==
    /\ documents \in [Save -> Row \cup {None}]
    /\ temp \in [User -> Save \cup {None}]
    /\ saveTimeouts \in [User -> Save \cup {None}]
    /\ pc \in [Save -> {"idle", "armed"} \cup Running \cup Finished]
    /\ user \in [Save -> User \cup {None}]
    /\ turn \in [Save -> Nat] /\ accepted \in Nat
    /\ held \in [Save -> Held \cup {None}]
    /\ \A s \in Save : pc[s] # "idle" => user[s] # None
    /\ \A s \in Save : pc[s] = "write" => held[s] # None
    /\ outlived \in SUBSET User /\ overlapped \in SUBSET User /\ lossy \in SUBSET User

Init ==
    /\ documents = [d \in Save |-> None]
    /\ temp = [u \in User |-> None]
    /\ saveTimeouts = [u \in User |-> None]
    /\ pc = [s \in Save |-> "idle"]
    /\ user = [s \in Save |-> None]
    /\ turn = [s \in Save |-> 0] /\ accepted = 0
    /\ held = [s \in Save |-> None]
    /\ outlived = {} /\ overlapped = {} /\ lossy = {}

-----------------------------------------------------------------------------
(* A definition whose name ends in _Bug is a plausible mistake in the      *)
(* definition after it; no specification uses it.                          *)

Goto(s, label) == pc' = [pc EXCEPT ![s] = label]

Of(u, labels) == {s \in Save : user[s] = u /\ pc[s] \in labels}

Accepted(u) == {s \in Save : user[s] = u /\ turn[s] > 0}

Latest(u) == {s \in Accepted(u) : \A q \in Accepted(u) : turn[q] <= turn[s]}

Rows(u) == {d \in Save : documents[d] # None /\ documents[d].owner = u}

(* clearTimeout of the timer in the map, which stops it if it has not run. *)
Cleared(u) == {q \in Of(u, {"armed"}) : saveTimeouts[u] = q}

(* A save that finds a timer leaves it to store the first content.         *)
Accept_Bug(s) ==
    /\ pc[s] = "idle"
    /\ \E u \in User :
         /\ temp' = [temp EXCEPT ![u] = s]
         /\ user' = [user EXCEPT ![s] = u]
         /\ accepted' = accepted + 1
         /\ turn' = [turn EXCEPT ![s] = accepted']
         /\ saveTimeouts' = [saveTimeouts EXCEPT ![u] = IF @ = None THEN s ELSE @]
         /\ Goto(s, IF saveTimeouts[u] = None THEN "armed" ELSE "cleared")
    /\ UNCHANGED <<documents, held, history>>

(* saveDocumentUpdate.                                                     *)
Accept(s) ==
    /\ pc[s] = "idle"
    /\ \E u \in User :
         /\ temp' = [temp EXCEPT ![u] = s]
         /\ user' = [user EXCEPT ![s] = u]
         /\ accepted' = accepted + 1
         /\ turn' = [turn EXCEPT ![s] = accepted']
         /\ saveTimeouts' = [saveTimeouts EXCEPT ![u] = s]
         /\ pc' = [q \in Save |-> IF q = s THEN "armed"
                                  ELSE IF q \in Cleared(u) THEN "cleared" ELSE pc[q]]
    /\ UNCHANGED <<documents, held, history>>

(* The answer of set is lost: the key is there, no timer is.               *)
AcceptFails(s) ==
    /\ pc[s] = "idle"
    /\ \E u \in User :
         /\ user' = [user EXCEPT ![s] = u]
         /\ temp' = [temp EXCEPT ![u] = s]
         /\ lossy' = lossy \cup {u}
    /\ Goto(s, "failed")
    /\ UNCHANGED <<documents, saveTimeouts, order, held, outlived, overlapped>>

(* The temporary key goes when the callback starts.                        *)
Fire_Bug(s) ==
    /\ pc[s] = "armed"
    /\ temp' = [temp EXCEPT ![user[s]] = None]
    /\ Goto(s, "find")
    /\ UNCHANGED <<documents, saveTimeouts, user, order, held, history>>

(* Thirty seconds are over and the callback runs up to its query.  All     *)
(* timers have one delay: they run in the order they were armed in.        *)
Fire(s) ==
    /\ pc[s] = "armed"
    /\ \A q \in Save : pc[q] = "armed" => turn[s] <= turn[q]
    /\ Goto(s, "find")
    /\ overlapped' = IF Of(user[s], Running) # {}
                     THEN overlapped \cup {user[s]} ELSE overlapped
    /\ UNCHANGED <<documents, temp, saveTimeouts, user, order, held, outlived, lossy>>

(* A row is made without a look for one.                                   *)
FindSkipped_Bug(s) ==
    /\ pc[s] = "find"
    /\ Goto(s, "insert")
    /\ UNCHANGED <<documents, temp, saveTimeouts, user, order, held, history>>

(* findOne limits to one row and sets no order.                            *)
Find(s) ==
    /\ pc[s] = "find"
    /\ \/ /\ Rows(user[s]) = {}
          /\ Goto(s, "insert")
          /\ UNCHANGED held
       \/ /\ Goto(s, "write")
          /\ \E d \in Rows(user[s]) :
               held' = [held EXCEPT ![s] = [doc |-> d, version |-> documents[d].version]]
    /\ UNCHANGED <<documents, temp, saveTimeouts, user, order, history>>

(* The buffer the timer was armed with; update by uuid, with the version   *)
(* that was read plus one.                                                 *)
Write(s) ==
    /\ pc[s] = "write"
    /\ documents' = [documents EXCEPT ![held[s].doc] =
          [owner |-> user[s], data |-> s, version |-> held[s].version + 1]]
    /\ Goto(s, "del_temp")
    /\ UNCHANGED <<temp, saveTimeouts, user, order, held, history>>

Insert(s) ==
    /\ pc[s] = "insert"
    /\ documents' = [documents EXCEPT ![s] =
          [owner |-> user[s], data |-> s, version |-> 1]]
    /\ Goto(s, "del_temp")
    /\ UNCHANGED <<temp, saveTimeouts, user, order, held, history>>

DelTemp(s) ==
    /\ pc[s] = "del_temp"
    /\ temp' = [temp EXCEPT ![user[s]] = None]
    /\ Goto(s, "del_doc")
    /\ outlived' = IF temp[user[s]] \in {s, None} THEN outlived ELSE outlived \cup {user[s]}
    /\ UNCHANGED <<documents, saveTimeouts, user, order, held, overlapped, lossy>>

(* del of doc:<user>, a key nothing reads, and then the entry of the map,  *)
(* whichever timer it holds by now.                                        *)
DelDoc(s) ==
    /\ pc[s] = "del_doc"
    /\ saveTimeouts' = [saveTimeouts EXCEPT ![user[s]] = None]
    /\ Goto(s, "stored")
    /\ outlived' = IF saveTimeouts[user[s]] \in {s, None} THEN outlived
                   ELSE outlived \cup {user[s]}
    /\ UNCHANGED <<documents, temp, user, order, held, overlapped, lossy>>

(* The catch logs; the map and the keys stay as they are.                  *)
Fail(s) ==
    /\ pc[s] \in Running
    /\ Goto(s, "failed")
    /\ lossy' = lossy \cup {user[s]}
    /\ UNCHANGED <<documents, temp, saveTimeouts, user, order, held, outlived, overlapped>>

(* Timers, callbacks and the map die with the process.                     *)
Restart ==
    LET dying == {s \in Save : pc[s] \in {"armed"} \cup Running}
    IN
    /\ pc' = [s \in Save |-> IF s \in dying THEN "lost" ELSE pc[s]]
    /\ saveTimeouts' = [u \in User |-> None]
    /\ lossy' = lossy \cup {user[s] : s \in dying}
    /\ UNCHANGED <<documents, temp, user, order, held, outlived, overlapped>>

Step(s) == Fire(s) \/ Find(s) \/ Write(s) \/ Insert(s) \/ DelTemp(s) \/ DelDoc(s)

Next ==
    \/ \E s \in Save : Accept(s) \/ AcceptFails(s) \/ Step(s) \/ Fail(s)
    \/ Restart

Spec == Init /\ [][Next]_vars

(* Timers run when they are due and the stores answer or fail.             *)
FairSpec == Spec /\ \A s \in Save : WF_vars(Step(s))

-----------------------------------------------------------------------------
(* What is accepted and not stored is under the temporary key, unless the  *)
(* end of an older save or a newer one's failure took it away.             *)
TempHoldsUnsaved ==
    \A u \in User \ (outlived \cup lossy) :
        \A s \in Latest(u) : pc[s] \in {"armed", "find", "write", "insert", "del_temp"} =>
            temp[u] = s

(* The callbacks of a user leave one row at most, unless two ran side by   *)
(* side, and when nothing of the user is under way it holds the last save  *)
(* that was accepted, unless one was lost.                                 *)
QuietShowsLatest ==
    \A u \in User \ overlapped :
        /\ \A d, e \in Rows(u) : d = e
        /\ u \notin lossy /\ Of(u, {"armed"} \cup Running) = {} =>
              \A s \in Latest(u) : \E d \in Rows(u) : documents[d].data = s

(* A save that is accepted is stored, or gives way to a newer one that     *)
(* is accepted as well, or is lost with the process or to a failure.       *)
SavesSettle ==
    \A s \in Save : turn[s] > 0 ~>
        \/ pc[s] \in {"stored", "failed", "lost"}
        \/ \E q \in Save : user[q] = user[s] /\ turn[q] > turn[s]

=============================================================================
