------------------------------ MODULE RetryLoop ------------------------------
(***************************************************************************)
(* RetryLoop: CPromise.retry (backend/libs/shared/src/util/promise/        *)
(* Native.ts), and Util.toPromise, which retries a subscription.           *)
(***************************************************************************)
EXTENDS Integers

CONSTANT Attempts   \* values of the argument attempt

ASSUME RetryAssumption == Attempts \subseteq Int

VARIABLES
    attempt,    \* the argument
    lAttempt,   \* what is left of it
    calls,      \* how often call() was made
    failure,    \* how the last one ended: "none", "retryable" or "fatal"
    retried     \* "looping", "waiting", "result", "thrown", "undefined" or "silent"

retryVars == <<attempt, lAttempt, calls, failure, retried>>

RetryTypeOK ==
    /\ attempt \in Attempts /\ lAttempt \in Int /\ calls \in Nat
    /\ failure \in {"none", "retryable", "fatal"}
    /\ retried \in {"looping", "waiting", "result", "thrown", "undefined", "silent"}

RetryInit ==
    /\ attempt \in Attempts /\ lAttempt = attempt /\ calls = 0
    /\ failure = "none" /\ retried = "looping"

(* A definition whose name ends in _Bug is a plausible mistake in the      *)
(* definition after it; no specification uses it.                          *)

Last_Bug(left) == left < 0

(* The attempt that just failed was the last.                              *)
Last(left) == left = 0

(* One run of the do block.  An observable that completes without a value  *)
(* settles nothing: toPromise has no handler for it.                       *)
CallOnce ==
    /\ retried = "looping"
    /\ lAttempt' = lAttempt - 1 /\ calls' = calls + 1
    /\ \/ retried' \in {"result", "silent"} /\ failure' = "none"
       \/ retried' = "thrown" /\ failure' = "fatal"
       \/ failure' = "retryable" /\ retried' = IF Last(lAttempt') THEN "thrown" ELSE "waiting"
    /\ UNCHANGED attempt

(* The 300 ms have passed; the loop condition.                             *)
LoopAgain ==
    /\ retried = "waiting"
    /\ retried' = IF lAttempt >= 0 THEN "looping" ELSE "undefined"
    /\ UNCHANGED <<attempt, lAttempt, calls, failure>>

RetryNext == CallOnce \/ LoopAgain

(* A positive attempt is the number of calls at most, and an error comes   *)
(* out of it as an error: after the last call, or a fatal one.  With none  *)
(* left from the start the call is made once all the same, and its         *)
(* retryable error comes out as undefined.                                 *)
RetryAnswers ==
    /\ attempt > 0 => calls <= attempt /\ retried # "undefined"
    /\ retried = "thrown" => failure = "fatal" \/ (failure = "retryable" /\ calls = attempt)
    /\ attempt <= 0 => calls <= 1 /\ (retried = "undefined" => failure = "retryable")

=============================================================================
