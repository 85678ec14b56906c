---------------------------- MODULE RequestLimit ----------------------------
(***************************************************************************)
(* RequestLimit: RequestLimitInspector (backend/libs/shared/src/inspector/ *)
(* request-limit.inspector.ts), for one key, that is one client, method    *)
(* and url.  It is written and not registered (libs/service/src/index.ts). *)
(***************************************************************************)
EXTENDS Naturals

CONSTANT Request    \* GET requests of the key; each has an answer of its own

VARIABLES
    hash,       \* the answers kept under the key: none or one
    stands,     \* Request -> where it is
    timers      \* requests whose two seconds have not passed

(* History variable: no action reads it.                                   *)
VARIABLE
    outlived    \* the answer was kept after its own timer had fired

limitVars == <<hash, stands, timers, outlived>>

RequestLimitTypeOK ==
    /\ hash \in SUBSET Request
    /\ stands \in [Request -> {"idle", "handled", "answered", "copied", "passed"}]
    /\ timers \in SUBSET Request
    /\ outlived \in BOOLEAN

RequestLimitInit ==
    /\ hash = {} /\ stands = [q \in Request |-> "idle"] /\ timers = {}
    /\ outlived = FALSE

(* A definition whose name ends in _Bug is a plausible mistake in the      *)
(* definition after it; no specification uses it.                          *)

(* Every request starts a timer; one that finds an answer gets the answer, *)
(* not an Observable of it.                                                *)
Intercept(q) ==
    /\ stands[q] = "idle"
    /\ timers' = timers \cup {q}
    /\ stands' = [stands EXCEPT ![q] = IF hash = {} THEN "handled" ELSE "copied"]
    /\ UNCHANGED <<hash, outlived>>

(* Another method, or noCache.                                             *)
PassBy(q) ==
    /\ stands[q] = "idle"
    /\ stands' = [stands EXCEPT ![q] = "passed"]
    /\ UNCHANGED <<hash, timers, outlived>>

Handled(q) ==
    /\ stands[q] = "handled"
    /\ stands' = [stands EXCEPT ![q] = "answered"]
    /\ hash' = {q}
    /\ outlived' = (q \notin timers)
    /\ UNCHANGED timers

(* The timer deletes another key than the one that was set.                *)
Fire_Bug(q) ==
    q \in timers /\ timers' = timers \ {q} /\ UNCHANGED <<hash, stands, outlived>>

Fire(q) ==
    /\ q \in timers
    /\ timers' = timers \ {q}
    /\ hash' = {}
    /\ UNCHANGED <<stands, outlived>>

RequestLimitNext == \E q \in Request : Intercept(q) \/ PassBy(q) \/ Handled(q) \/ Fire(q)

(* A kept answer has a timer that will drop it, unless the handler took    *)
(* longer than the two seconds: it then stays until a later request's      *)
(* timer, which gives that request an answer of any age.                   *)
KeptAnswersAreDropped == hash # {} /\ timers = {} => outlived

=============================================================================
