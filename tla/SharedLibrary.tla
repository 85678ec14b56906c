---------------------------- MODULE SharedLibrary ----------------------------
(***************************************************************************)
(* SharedLibrary: the helpers of backend/libs/shared/src beside each       *)
(* other.  They share no state: a behaviour is one of one of them, and the *)
(* others stay as they began.                                              *)
(***************************************************************************)
EXTENDS CachedReads, RequestLimit, RetryLoop, RandomString, ListPages, OperationChecks

VARIABLE helper     \* the one that runs

libraryVars == <<helper, cacheVars, limitVars, retryVars, stringVars, listVars, checkVars>>

LibraryTypeOK ==
    /\ CachedReadsTypeOK /\ RequestLimitTypeOK /\ RetryTypeOK
    /\ RandomStringTypeOK /\ ListTypeOK /\ CheckTypeOK

(* Each Init has several states; only those of the helper that runs vary.  *)
Started ==
    /\ helper # "cache" => ttl = 1000
    /\ helper # "retry" => attempt = 1
    /\ helper # "string" => length = 0 /\ count = 1
    /\ helper # "list" => rows = {} /\ asked = 0 /\ ordered
    /\ helper # "checks" => options = {} /\ \A q \in Parent : parents[q] = Absent

LibraryInit ==
    /\ helper \in {"cache", "limit", "retry", "string", "list", "checks"}
    /\ CachedReadsInit /\ RequestLimitInit /\ RetryInit
    /\ RandomStringInit /\ ListInit /\ CheckInit
    /\ Started

LibraryNext ==
    /\ UNCHANGED helper
    /\ \/ /\ helper = "cache" /\ CachedReadsNext
          /\ UNCHANGED <<limitVars, retryVars, stringVars, listVars, checkVars>>
       \/ /\ helper = "limit" /\ RequestLimitNext
          /\ UNCHANGED <<cacheVars, retryVars, stringVars, listVars, checkVars>>
       \/ /\ helper = "retry" /\ RetryNext
          /\ UNCHANGED <<cacheVars, limitVars, stringVars, listVars, checkVars>>
       \/ /\ helper = "string" /\ RandomStringNext
          /\ UNCHANGED <<cacheVars, limitVars, retryVars, listVars, checkVars>>
       \/ /\ helper = "list" /\ ListNext
          /\ UNCHANGED <<cacheVars, limitVars, retryVars, stringVars, checkVars>>
       \/ /\ helper = "checks" /\ CheckNext
          /\ UNCHANGED <<cacheVars, limitVars, retryVars, stringVars, listVars>>

LibrarySpec == LibraryInit /\ [][LibraryNext]_libraryVars

(* Each of the other helpers, in variables of the declared shape, does     *)
(* what its callers are promised.                                          *)
HelpersKeepTheirWord ==
    /\ LibraryTypeOK
    /\ KeptAnswersAreDropped
    /\ RetryAnswers
    /\ NoCharacterIsLikelier /\ LengthsAreKept
    /\ PagesMeetEveryRowOnce

=============================================================================
