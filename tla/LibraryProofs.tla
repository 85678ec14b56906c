---------------------------- MODULE LibraryProofs ----------------------------
(***************************************************************************)
(* What the libraries of the back end keep: the configuration loading for  *)
(* every set of databases, whatever becomes of the secret; the helpers for *)
(* any callers, options, ranges and tables.                                *)
(***************************************************************************)
EXTENDS Configuration, SharedLibrary, FiniteSetTheorems, TLAPS

(***************************************************************************)
(* Part 1: the configuration                                               *)
(***************************************************************************)

(* A build that ended wrote both files whole.                              *)
ImageState == image # None => image.conf \in Secret /\ image.envFile \in Secret

(* What a start has behind it: the first loadConfig wrote conf.json5, the  *)
(* last one the env file, if it is one that is read back.                  *)
FilesState ==
    /\ conf \in Secret => first = conf
    /\ stage = "envFile" => content # None /\ (~named => content = Empty)
    /\ stage = "conf" => content = loaded
    /\ stage \in {"conf", "create", "serving"} =>
         /\ loaded # None
         /\ IF named THEN envFile = loaded ELSE loaded = Empty
    /\ stage = "serving" => Readable /\ running = Effective /\ Effective.postgres # None

(* What the container's command migrated is what its files name.           *)
CommandState ==
    /\ stage \in {"migrate", "read", "envFile"} => ~moved
    /\ stage \notin {"stopped", "migrate"} /\ task = "command" /\ ~moved =>
         Readable /\ Effective.postgres \in migrated

(* Every record that is read or written is of the declared shape.          *)
LEMMA SecretsMeet ==
    ASSUME NEW c \in Secret, NEW d \in Secret, override \in Database \cup {None}
    PROVE  /\ Empty \in Secret
           /\ Merged(c, d) \in Secret
           /\ Overridden(c) \in Secret
BY DEF Secret, Empty, Merged, Overridden

(* Types, and the files a start has behind it                              *)
(* (libs/service/src/index.ts:36-86, config.service.ts).                   *)
THEOREM FilesAreBehindTheStart == Spec => [](TypeOK /\ ImageState /\ FilesState /\ CommandState)
<1> DEFINE Inv == TypeOK /\ ImageState /\ FilesState /\ CommandState
<1> USE ConstantsAssumption
<1>1. Init => Inv
  BY DEF Init, TypeOK, ImageState, FilesState, CommandState, File, Readable
<1>2. Inv /\ [Next]_vars => Inv'
  <2> SUFFICES ASSUME Inv, [Next]_vars PROVE Inv'
    OBVIOUS
  <2>0. /\ None \notin Secret /\ Torn \notin Secret /\ Empty \in Secret
        /\ Readings \subseteq Secret
        /\ ~named => Readings = {Empty}
        /\ Readable => Effective \in Secret
    <3>1. None \notin Secret /\ Torn \notin Secret /\ Empty \in Secret
      BY DEF Secret, Empty
    <3>2. Readings \subseteq Secret /\ (~named => Readings = {Empty})
      BY <3>1 DEF Readings, TypeOK
    <3>3. Parsed(envFile) \in Secret
      BY <3>1 DEF Parsed
    <3>4. Readable => Effective \in Secret
      BY <3>3, SecretsMeet DEF Readable, Effective, TypeOK
    <3>5. QED
      BY <3>1, <3>2, <3>4
  <2>1. CASE Build
    <3>1. TypeOK' /\ ImageState'
      BY <2>0, <2>1 DEF Build, TypeOK, ImageState, history, files, File
    <3>2. FilesState' /\ CommandState'
      BY <2>1 DEF Build, FilesState, CommandState, history, files, Readable, Effective,
         Parsed, Merged, Overridden
    <3>3. QED
      BY <3>1, <3>2
  <2>2. CASE Replace
    <3>1. TypeOK' /\ ImageState'
      BY <2>2 DEF Replace, TypeOK, ImageState, File
    <3>2. FilesState' /\ CommandState'
      BY <2>0, <2>2 DEF Replace, FilesState, CommandState, ImageState
    <3>3. QED
      BY <3>1, <3>2
  <2>3. CASE Rewrite
    <3>1. TypeOK' /\ ImageState'
      BY <2>3 DEF Rewrite, TypeOK, ImageState, history, files
    <3>2. FilesState' /\ CommandState'
      BY <2>3 DEF Rewrite, FilesState, CommandState, history, files, Readable, Effective,
         Parsed, Merged, Overridden
    <3>3. QED
      BY <3>1, <3>2
  <2>4. ASSUME NEW what \in {"command", "generate", "start"}, Start(what) PROVE Inv'
    <3>1. TypeOK' /\ ImageState'
      BY <2>4 DEF Start, TypeOK, ImageState, files
    <3>2. FilesState' /\ CommandState'
      BY <2>4 DEF Start, FilesState, CommandState, files
    <3>3. QED
      BY <3>1, <3>2
  <2>5. CASE Migrate
    <3>1. TypeOK' /\ ImageState'
      BY <2>0, <2>5 DEF Migrate, Exit, TypeOK, ImageState, files, history, Secret
    <3>2. FilesState'
      BY <2>5 DEF Migrate, Exit, FilesState, files, history
    <3>3. CommandState'
      BY <2>5 DEF Migrate, Exit, CommandState, files, history, Readable, Effective,
         Parsed, Merged, Overridden
    <3>4. QED
      BY <3>1, <3>2, <3>3
  <2>6. CASE Read
    <3>1. TypeOK' /\ ImageState'
      BY <2>0, <2>6 DEF Read, Exit, TypeOK, ImageState, files, history
    <3>2. FilesState'
      BY <2>0, <2>6 DEF Read, Exit, FilesState, files, history
    <3>3. CommandState'
      BY <2>6 DEF Read, Exit, CommandState, files, history, Readable, Effective,
         Parsed, Merged, Overridden
    <3>4. QED
      BY <3>1, <3>2, <3>3
  <2>7. CASE WriteEnvFile
    <3>1. TypeOK' /\ ImageState'
      BY <2>7 DEF WriteEnvFile, TypeOK, ImageState, FilesState, File
    <3>2. FilesState'
      BY <2>7 DEF WriteEnvFile, FilesState
    <3>3. CommandState'
      <4>1. ~moved' => envFile' = envFile
        BY <2>7, Zenon DEF WriteEnvFile
      <4>2. ~moved' => Effective' = Effective /\ Readable' = Readable
        BY <2>7, <4>1 DEF WriteEnvFile, Readable, Effective, Parsed, Merged, Overridden
      <4>3. QED
        BY <2>7, <4>1, <4>2 DEF WriteEnvFile, CommandState
    <3>4. QED
      BY <3>1, <3>2, <3>3
  <2>8. CASE WriteConf
    <3>0. content \in Secret /\ stage' \in {"stopped", "create"}
      BY <2>8 DEF WriteConf, FilesState, TypeOK, Continued
    <3>1. TypeOK' /\ ImageState'
      BY <2>8, <3>0 DEF WriteConf, TypeOK, ImageState, File
    <3>2. FilesState'
      BY <2>8, <3>0 DEF WriteConf, FilesState
    <3>3. CommandState'
      BY <2>0, <2>8, <3>0 DEF WriteConf, CommandState, Readable, Effective, Parsed,
         Merged, Overridden
    <3>4. QED
      BY <3>1, <3>2, <3>3
  <2>9. CASE Create
    <3>1. TypeOK' /\ ImageState'
      BY <2>0, <2>9 DEF Create, Exit, TypeOK, ImageState, files, history
    <3>2. Readable' = Readable /\ Effective' = Effective
      BY <2>9 DEF Create, files, Readable, Effective, Parsed, Merged, Overridden
    <3>3. FilesState' /\ CommandState'
      BY <2>9, <3>2 DEF Create, Exit, FilesState, CommandState, files, history
    <3>4. QED
      BY <3>1, <3>3
  <2>10. CASE Stop
    <3>1. TypeOK' /\ ImageState'
      BY <2>10 DEF Stop, Exit, TypeOK, ImageState, files, history, File
    <3>2. FilesState' /\ CommandState'
      BY <2>0, <2>10 DEF Stop, Exit, FilesState, CommandState, files, history
    <3>3. QED
      BY <3>1, <3>2
  <2>11. CASE UNCHANGED vars
    <3>1. TypeOK' /\ ImageState'
      BY <2>11 DEF vars, TypeOK, ImageState, files, history
    <3>2. FilesState' /\ CommandState'
      BY <2>11 DEF vars, FilesState, CommandState, files, history, Readable, Effective,
         Parsed, Merged, Overridden
    <3>3. QED
      BY <3>1, <3>2
  <2>12. QED
    BY <2>1, <2>2, <2>3, <2>4, <2>5, <2>6, <2>7, <2>8, <2>9, <2>10, <2>11 DEF Next
<1>3. QED
  BY <1>1, <1>2, PTL DEF Spec

-----------------------------------------------------------------------------
(* A server runs over the database its start read of, or the first the     *)
(* place was given (libs/service/src/index.ts:50-80, config.service.ts).   *)
THEOREM ServersRunOnLastOrFirst == Spec => []RunsOnLastOrFirst
<1>1. TypeOK /\ FilesState => RunsOnLastOrFirst
  <2> SUFFICES ASSUME TypeOK, FilesState, stage = "serving" PROVE RunsOnLastOrFirst
    BY DEF RunsOnLastOrFirst
  <2>1. loaded \in Secret /\ Parsed(envFile) = loaded
    BY DEF FilesState, TypeOK, Parsed
  <2>2. conf \in Secret /\ first = conf /\ running = Effective /\ Effective.postgres # None
    BY DEF FilesState, Readable
  <2>3. Effective = Overridden(Merged(conf, loaded))
    BY <2>1 DEF Effective
  <2>4. QED
    BY <2>1, <2>2, <2>3 DEF RunsOnLastOrFirst, Merged, Overridden
<1>2. QED
  BY <1>1, FilesAreBehindTheStart, PTL

(* The container's command serves over migrated tables, unless the secret  *)
(* moved (backend/package.json:24).                                        *)
THEOREM CommandsMigrateFirst == Spec => []MigratedUnlessMoved
<1>1. FilesState /\ CommandState => MigratedUnlessMoved
  BY DEF FilesState, CommandState, MigratedUnlessMoved
<1>2. QED
  BY <1>1, FilesAreBehindTheStart, PTL

(* A torn conf.json5 stays, and nothing serves over it                     *)
(* (libs/service/src/index.ts:75-80).                                      *)
THEOREM TornFilesStay == Spec => TornConfStays
<1>1. TypeOK /\ FilesState /\ [Next]_vars => [conf = Torn => Replace \/ (conf' = Torn /\ stage' # "serving")]_vars
  <2> SUFFICES ASSUME TypeOK, FilesState, Next, conf = Torn, ~Replace
               PROVE  conf' = Torn /\ stage' # "serving"
    OBVIOUS
  <2>1. Torn # None /\ ~Readable /\ stage # "serving"
    BY ConstantsAssumption DEF FilesState, Readable
  <2>2. CASE Build \/ Rewrite
    BY <2>1, <2>2 DEF Build, Rewrite, files
  <2>3. ASSUME NEW what \in {"command", "generate", "start"}, Start(what)
        PROVE  conf' = Torn /\ stage' # "serving"
    BY <2>3 DEF Start, files
  <2>4. CASE Migrate \/ Read \/ WriteEnvFile
    BY <2>1, <2>4 DEF Migrate, Read, WriteEnvFile, Exit, files
  <2>5. CASE WriteConf
    BY <2>1, <2>5 DEF WriteConf, Continued
  <2>6. CASE Create \/ Stop
    BY <2>1, <2>6 DEF Create, Stop, Exit, files
  <2>7. QED
    BY <2>2, <2>3, <2>4, <2>5, <2>6 DEF Next
<1>2. QED
  BY <1>1, FilesAreBehindTheStart, PTL DEF Spec, TornConfStays

(***************************************************************************)
(* Part 2: the helpers                                                     *)
(***************************************************************************)

(* A step of the library is a step of one helper; the others stand still.  *)
LEMMA EachByItself ==
    ASSUME [LibraryNext]_libraryVars
    PROVE  /\ [CachedReadsNext]_cacheVars /\ [RequestLimitNext]_limitVars
           /\ [RetryNext]_retryVars /\ [RandomStringNext]_stringVars
           /\ [ListNext]_listVars /\ [CheckNext]_checkVars
BY DEF LibraryNext, libraryVars

-----------------------------------------------------------------------------
(* The cache                                                               *)

(* An entry that nothing crossed is the record, and no write is about to   *)
(* change it: a writer that met the entry deletes it first.                *)
EntryState ==
    /\ entry # Nil /\ ~crossed =>
         entry.of = record /\ \A w \in Writer : at[w] # "write"
    /\ \A r \in Reader : at[r] = "set" => value[r] # Nil

(* While there is no client, whoever has opened one still waits for it.    *)
ClientState ==
    /\ OneClientUnlessDoubled
    /\ latest \in open \cup {Nil}
    /\ \A c \in Caller : at[c] = "connect" => latest # Nil
    /\ client = Nil => \A d \in open : at[d] = "connect"

CacheInv == CachedReadsTypeOK /\ EntryState /\ ClientState /\ RefusedTtlFailsReads

LEMMA CacheBegins == CachedReadsInit => CacheInv
BY CachedReadsAssumption DEF CachedReadsInit, CacheInv, CachedReadsTypeOK, EntryState, ClientState,
   OneClientUnlessDoubled, RefusedTtlFailsReads, Caller, Value

LEMMA CacheGoesOn == CacheInv /\ [CachedReadsNext]_cacheVars => CacheInv'
<1> SUFFICES ASSUME CacheInv, [CachedReadsNext]_cacheVars
             PROVE  CacheInv'
  OBVIOUS
<1> USE CachedReadsAssumption DEF CacheInv, CachedReadsTypeOK, Caller, Value
<1>1. ASSUME NEW c \in Caller, Conn(c)
      PROVE  CacheInv'
  <2>1. CachedReadsTypeOK'
    BY <1>1 DEF Conn, Move, FirstCommand
  <2>2. EntryState'
    BY <1>1 DEF Conn, Move, FirstCommand, EntryState
  <2>3. ClientState'
    <3>1. CASE client # Nil
      <4>1. at' = [at EXCEPT ![c] = FirstCommand(c)] /\ UNCHANGED <<open, latest, doubled, client>>
        BY <1>1, <3>1 DEF Conn, Move
      <4>2. FirstCommand(c) # "connect"
        BY DEF FirstCommand
      <4> QED
        BY <3>1, <4>1, <4>2 DEF ClientState, OneClientUnlessDoubled
    <3>2. CASE client = Nil
      <4>1. /\ latest' = c /\ open' = open \cup {c} /\ client' = Nil
            /\ at' = [at EXCEPT ![c] = "connect"]
            /\ doubled' = (doubled \/ \E d \in Caller : at[d] = "connect")
        BY <1>1, <3>2 DEF Conn, Move
      <4>2. open = {} \/ doubled'
        BY <3>2, <4>1 DEF ClientState
      <4>3. \A a, b \in open' : a = b \/ doubled'
        BY <4>1, <4>2
      <4>4. \A d \in open' : at'[d] = "connect"
        BY <3>2, <4>1 DEF ClientState
      <4>5. c # Nil
        OBVIOUS
      <4> QED
        BY <4>1, <4>3, <4>4, <4>5 DEF ClientState, OneClientUnlessDoubled
    <3> QED
      BY <3>1, <3>2
  <2>4. RefusedTtlFailsReads'
    BY <1>1 DEF Conn, Move, FirstCommand, RefusedTtlFailsReads
  <2> QED
    BY <2>1, <2>2, <2>3, <2>4
<1>2. ASSUME NEW c \in Caller, Connected(c)
      PROVE  CacheInv'
  <2>1. CachedReadsTypeOK'
    BY <1>2 DEF Connected, Move, FirstCommand
  <2>2. EntryState'
    BY <1>2 DEF Connected, Move, FirstCommand, EntryState
  <2>3. ClientState'
    BY <1>2 DEF Connected, Move, FirstCommand, ClientState, OneClientUnlessDoubled
  <2>4. RefusedTtlFailsReads'
    BY <1>2 DEF Connected, Move, FirstCommand, RefusedTtlFailsReads
  <2> QED
    BY <2>1, <2>2, <2>3, <2>4
<1>3. ASSUME NEW r \in Reader, Get(r)
      PROVE  CacheInv'
  <2>1. CachedReadsTypeOK'
    BY <1>3 DEF Get, Move
  <2>2. EntryState'
    BY <1>3 DEF Get, Move, EntryState
  <2>3. ClientState'
    BY <1>3 DEF Get, Move, ClientState, OneClientUnlessDoubled
  <2>4. RefusedTtlFailsReads'
    BY <1>3 DEF Get, Move, RefusedTtlFailsReads
  <2> QED
    BY <2>1, <2>2, <2>3, <2>4
<1>4. ASSUME NEW r \in Reader, Original(r)
      PROVE  CacheInv'
  <2>1. CachedReadsTypeOK'
    BY <1>4 DEF Original, Move
  <2>2. EntryState'
    BY <1>4 DEF Original, Move, EntryState
  <2>3. ClientState'
    BY <1>4 DEF Original, Move, ClientState, OneClientUnlessDoubled
  <2>4. RefusedTtlFailsReads'
    BY <1>4 DEF Original, Move, RefusedTtlFailsReads
  <2> QED
    BY <2>1, <2>2, <2>3, <2>4
<1>5. ASSUME NEW r \in Reader, Set(r)
      PROVE  CacheInv'
  <2>0. \/ /\ entry' = [of |-> value[r]] /\ at' = [at EXCEPT ![r] = "done"]
           /\ crossed' = (value[r] # record \/ \E w \in Writer : at[w] \in {"del", "write"})
        \/ at' = [at EXCEPT ![r] = "error"] /\ UNCHANGED <<entry, crossed>>
    BY <1>5, Zenon DEF Set, Move
  <2>a. at[r] = "set" /\ UNCHANGED <<ttl, record, open, latest, client, value, doubled>>
    BY <1>5 DEF Set
  <2>1. CachedReadsTypeOK'
    <3>1. value[r] \in Writer
      BY <2>a DEF EntryState
    <3>2. entry' \in [of : Writer] \cup {Nil}
      BY <2>0, <3>1
    <3>3. crossed' \in BOOLEAN
      BY <2>0, Zenon
    <3>4. at' \in [Caller -> {"idle", "connect", "get", "read", "set", "scan",
                             "del", "write", "done", "error"}]
      BY <2>0
    <3> QED
      BY <2>a, <3>2, <3>3, <3>4
  <2>2. EntryState'
    <3>1. entry' # Nil /\ ~crossed' => entry'.of = record /\ \A w \in Writer : at[w] # "write"
      <4>1. CASE UNCHANGED <<entry, crossed>>
        BY <2>a, <4>1 DEF EntryState
      <4>2. CASE /\ entry' = [of |-> value[r]]
                 /\ crossed' = (value[r] # record \/ \E w \in Writer : at[w] \in {"del", "write"})
        BY <2>a, <4>2, Zenon
      <4> QED
        BY <2>0, <4>1, <4>2
    <3>2. \A w \in Writer : at'[w] = at[w]
      BY <2>0
    <3>3. \A q \in Reader : at'[q] = "set" => at[q] = "set"
      BY <2>0
    <3> QED
      BY <2>a, <3>1, <3>2, <3>3 DEF EntryState
  <2>3. ClientState'
    BY <1>5 DEF Set, Move, ClientState, OneClientUnlessDoubled
  <2>4. RefusedTtlFailsReads'
    BY <1>5 DEF Set, Move, Accepted, RefusedTtlFailsReads
  <2> QED
    BY <2>1, <2>2, <2>3, <2>4
<1>6. CASE Expire
  <2>1. CachedReadsTypeOK'
    BY <1>6 DEF Expire
  <2>2. EntryState'
    BY <1>6 DEF Expire, EntryState
  <2>3. ClientState'
    BY <1>6 DEF Expire, ClientState, OneClientUnlessDoubled
  <2>4. RefusedTtlFailsReads'
    BY <1>6 DEF Expire, RefusedTtlFailsReads
  <2> QED
    BY <2>1, <2>2, <2>3, <2>4
<1>7. ASSUME NEW w \in Writer, Scan(w) \/ Del(w) \/ Write(w)
      PROVE  CacheInv'
  <2>1. CachedReadsTypeOK'
    BY <1>7 DEF Scan, Del, Write, Move
  <2>2. EntryState'
    BY <1>7 DEF Scan, Del, Write, Move, EntryState
  <2>3. ClientState'
    BY <1>7 DEF Scan, Del, Write, Move, ClientState, OneClientUnlessDoubled
  <2>4. RefusedTtlFailsReads'
    BY <1>7 DEF Scan, Del, Write, Move, RefusedTtlFailsReads
  <2> QED
    BY <2>1, <2>2, <2>3, <2>4
<1>8. CASE UNCHANGED cacheVars
  BY <1>8 DEF cacheVars, EntryState, ClientState, OneClientUnlessDoubled, RefusedTtlFailsReads
<1> QED
  BY <1>1, <1>2, <1>3, <1>4, <1>5, <1>6, <1>7, <1>8 DEF CachedReadsNext, CacheStep

(* The cache is stale for one reason, one client is opened unless two      *)
(* first calls meet, and a refused ttl fails the reads                     *)
(* (shared/src/cache/cache.service.ts, decorator/cache.decorator.ts).      *)
THEOREM CacheStaysSound == LibrarySpec => []CacheIsSound
<1>1. LibraryInit => CacheInv
  BY CacheBegins DEF LibraryInit
<1>2. CacheInv /\ [LibraryNext]_libraryVars => CacheInv'
  BY CacheGoesOn, EachByItself
<1>3. CacheInv => CacheIsSound
  BY DEF CacheInv, CachedReadsTypeOK, EntryState, ClientState, CacheIsSound, StaleOnlyIfCrossed
<1> QED
  BY <1>1, <1>2, <1>3, PTL DEF LibrarySpec

-----------------------------------------------------------------------------
(* The request limiter and the retry loop                                  *)

(* The timer of the request whose answer is kept has not fired, unless the *)
(* handler was slower than it.                                             *)
LimitInv == RequestLimitTypeOK /\ (hash # {} /\ ~outlived => hash \subseteq timers)

LEMMA LimitGoesOn ==
    /\ RequestLimitInit => LimitInv
    /\ LimitInv /\ [RequestLimitNext]_limitVars => LimitInv'
<1>1. RequestLimitInit => LimitInv
  BY DEF RequestLimitInit, LimitInv, RequestLimitTypeOK
<1>2. LimitInv /\ [RequestLimitNext]_limitVars => LimitInv'
  <2> SUFFICES ASSUME LimitInv, [RequestLimitNext]_limitVars
               PROVE  LimitInv'
    OBVIOUS
  <2> USE DEF LimitInv, RequestLimitTypeOK
  <2>1. ASSUME NEW q \in Request, Intercept(q) \/ PassBy(q) PROVE LimitInv'
    BY <2>1 DEF Intercept, PassBy
  <2>2. ASSUME NEW q \in Request, Handled(q) PROVE LimitInv'
    BY <2>2 DEF Handled
  <2>3. ASSUME NEW q \in Request, Fire(q) PROVE LimitInv'
    BY <2>3 DEF Fire
  <2>4. CASE UNCHANGED limitVars
    BY <2>4 DEF limitVars
  <2> QED
    BY <2>1, <2>2, <2>3, <2>4 DEF RequestLimitNext
<1> QED
  BY <1>1, <1>2

(* What is left of the argument counts the calls; while there is something *)
(* to do, a positive argument is not used up.                              *)
RetryInv ==
    /\ RetryTypeOK
    /\ lAttempt = attempt - calls
    /\ retried = "looping" => IF attempt > 0 THEN calls < attempt ELSE calls = 0
    /\ retried = "waiting" => /\ failure = "retryable"
                              /\ IF attempt > 0 THEN calls < attempt ELSE calls = 1
    /\ RetryAnswers

LEMMA RetryGoesOn ==
    /\ RetryInit => RetryInv
    /\ RetryInv /\ [RetryNext]_retryVars => RetryInv'
<1> USE RetryAssumption
<1>1. RetryInit => RetryInv
  BY DEF RetryInit, RetryInv, RetryTypeOK, RetryAnswers
<1>2. RetryInv /\ [RetryNext]_retryVars => RetryInv'
  <2> SUFFICES ASSUME RetryInv, [RetryNext]_retryVars
               PROVE  RetryInv'
    OBVIOUS
  <2> USE DEF RetryInv, RetryTypeOK, RetryAnswers
  <2>1. CASE CallOnce
    BY <2>1 DEF CallOnce, Last
  <2>2. CASE LoopAgain
    BY <2>2 DEF LoopAgain
  <2>3. CASE UNCHANGED retryVars
    BY <2>3 DEF retryVars
  <2> QED
    BY <2>1, <2>2, <2>3 DEF RetryNext
<1> QED
  BY <1>1, <1>2

-----------------------------------------------------------------------------
(* The random strings                                                      *)

(* A number is made of its quotient and its remainder.                     *)
LEMMA Division ==
    ASSUME NEW a \in Nat, NEW n \in Nat \ {0}
    PROVE  /\ a \div n \in Nat /\ a % n \in 0 .. n - 1
           /\ a = n * (a \div n) + (a % n)
OBVIOUS

LEMMA DivisionOf ==
    ASSUME NEW j \in Nat, NEW n \in Nat \ {0}, NEW k \in 0 .. n - 1
    PROVE  (j * n + k) % n = k /\ (j * n + k) \div n = j
OBVIOUS

(* A block of j * n below m * n ends below it.                             *)
LEMMA Blocks ==
    ASSUME NEW j \in Nat, NEW m \in Nat, NEW n \in Nat \ {0}, NEW k \in 0 .. n - 1
    PROVE  j < m <=> j * n + k <= m * n - 1
OBVIOUS

(* crypto/random-string.ts:19-41: as many accepted selectors stand for one *)
(* character as for another, one in every block of n.                      *)
THEOREM OneInEveryBlock ==
    ASSUME NEW n \in 1 .. Selectors, NEW k \in 0 .. n - 1
    PROVE  Cardinality({s \in Accepted16(n) : s % n = k}) = Selectors \div n
<1> DEFINE m == Selectors \div n
<1> DEFINE S == 0 .. m - 1
<1> DEFINE T == {s \in Accepted16(n) : s % n = k}
<1> DEFINE f == [j \in S |-> j * n + k]
<1>1. n \in Nat \ {0} /\ Selectors \in Nat /\ m \in Nat /\ m * n <= Selectors
  BY RandomStringAssumption, Division
<1>2. T = {s \in 0 .. Selectors - 1 : s <= m * n - 1 /\ s % n = k}
  BY DEF Accepted16, MaxValidSelector
<1> HIDE DEF m
<1>3. \A j \in S : f[j] \in T
  <2> SUFFICES ASSUME NEW j \in S PROVE j * n + k \in T
    OBVIOUS
  <2>1. j \in Nat /\ j < m
    BY <1>1
  <2>2. j * n + k <= m * n - 1 /\ (j * n + k) % n = k
    BY <1>1, <2>1, Blocks, DivisionOf
  <2>3. j * n + k \in Nat /\ m * n \in Nat
    BY <1>1, <2>1
  <2> QED
    BY <1>1, <1>2, <2>2, <2>3
<1>4. \A i, j \in S : f[i] = f[j] => i = j
  <2> SUFFICES ASSUME NEW i \in S, NEW j \in S, i * n + k = j * n + k PROVE i = j
    OBVIOUS
  <2> QED
    BY <1>1, DivisionOf
<1>5. \A s \in T : \E j \in S : f[j] = s
  <2> SUFFICES ASSUME NEW s \in T PROVE \E j \in S : j * n + k = s
    OBVIOUS
  <2>1. s \in Nat /\ s <= m * n - 1 /\ s % n = k
    BY <1>1, <1>2
  <2>2. s \div n \in Nat /\ s = n * (s \div n) + k
    BY <1>1, <2>1, Division
  <2>3. s = (s \div n) * n + k
    BY <1>1, <2>2
  <2>4. s \div n < m
    BY <1>1, <2>1, <2>2, <2>3, Blocks
  <2>5. s \div n \in S
    BY <1>1, <2>2, <2>4
  <2> QED
    BY <2>3, <2>5
<1>6. f \in Bijection(S, T)
  <2>1. f \in [S -> T] /\ DOMAIN f = S
    BY <1>3
  <2> HIDE DEF f, S, T
  <2> QED
    BY <1>4, <1>5, <2>1, Zenon DEF Bijection, Injection, Surjection, IsInjective
<1>7. IsFiniteSet(S) /\ Cardinality(S) = m
  BY <1>1, FS_Interval
<1> QED
  BY <1>6, <1>7, FS_Bijection DEF ExistsBijection, m

(* What has been put into the string so far, and what the selectors are.   *)
StringInv ==
    /\ RandomStringTypeOK
    /\ Len(string) <= length
    /\ \A i \in DOMAIN string : string[i] \in 0 .. count - 1

LEMMA StringGoesOn ==
    /\ RandomStringInit => StringInv
    /\ StringInv /\ [RandomStringNext]_stringVars => StringInv'
<1> USE RandomStringAssumption
<1>1. RandomStringInit => StringInv
  BY DEF RandomStringInit, StringInv, RandomStringTypeOK
<1>2. StringInv /\ [RandomStringNext]_stringVars => StringInv'
  <2> SUFFICES ASSUME StringInv, [RandomStringNext]_stringVars
               PROVE  StringInv'
    OBVIOUS
  <2> USE DEF StringInv, RandomStringTypeOK
  <2>0. count \in Nat \ {0} /\ length \in Nat
    OBVIOUS
  <2>1. CASE DrawBlock
    BY <2>0, <2>1 DEF DrawBlock, BlockSize
  <2>2. CASE TakeSelector
    <3>1. PICK selector \in 0 .. Selectors - 1 :
            string' = IF selector > MaxValidSelector(count) THEN string
                      ELSE Append(string, selector % count)
      BY <2>2 DEF TakeSelector
    <3>2. selector \in Nat /\ selector % count \in 0 .. count - 1
      <4>1. selector \in Nat
        OBVIOUS
      <4> QED
        BY <2>0, <4>1, Division
    <3>3. UNCHANGED <<length, count>> /\ Len(string) < length /\ entropy' \in Nat
      BY <2>2 DEF TakeSelector
    <3>4. CASE string' = string
      BY <3>3, <3>4
    <3>5. CASE string' = Append(string, selector % count)
      BY <2>0, <3>2, <3>3, <3>5
    <3> QED
      BY <3>1, <3>4, <3>5
  <2>3. CASE UNCHANGED stringVars
    BY <2>3 DEF stringVars
  <2> QED
    BY <2>1, <2>2, <2>3 DEF RandomStringNext
<1> QED
  BY <1>1, <1>2

LEMMA StringsAreFair == StringInv => NoCharacterIsLikelier /\ LengthsAreKept
<1> SUFFICES ASSUME StringInv PROVE NoCharacterIsLikelier /\ LengthsAreKept
  OBVIOUS
<1>1. count \in 1 .. Selectors /\ count \in Nat \ {0} /\ length \in Nat
  BY RandomStringAssumption DEF StringInv, RandomStringTypeOK
<1>2. NoCharacterIsLikelier
  <2>1. \A k \in 0 .. count - 1 :
          Cardinality({s \in Accepted16(count) : s % count = k}) = Selectors \div count
    BY <1>1, OneInEveryBlock
  <2>2. 0 \in Accepted16(count)
    <3>1. /\ Selectors \in Nat \ {0} /\ Selectors \div count \in Nat
          /\ Selectors = count * (Selectors \div count) + (Selectors % count)
          /\ Selectors % count \in 0 .. count - 1
      BY <1>1, RandomStringAssumption, Division
    <3>2. Selectors \div count >= 1
      BY <1>1, <3>1
    <3>3. (Selectors \div count) * count - 1 >= 0
      BY <1>1, <3>1, <3>2
    <3> QED
      BY <3>1, <3>3 DEF Accepted16, MaxValidSelector
  <2> QED
    BY <2>1, <2>2 DEF NoCharacterIsLikelier, StringInv
<1>3. LengthsAreKept
  <2>1. HexChars(length) >= length
    BY <1>1 DEF HexChars
  <2>2. Base64Chars(Base64Bytes(length)) >= length
    BY <1>1 DEF Base64Chars, Base64Bytes
  <2> QED
    BY <2>1, <2>2 DEF LengthsAreKept, StringInv
<1> QED
  BY <1>2, <1>3

-----------------------------------------------------------------------------
(* The pages of a list                                                     *)

Smaller(r) == Cardinality({q \in rows : q < r})

(* Pages that have been listed.                                            *)
Turned == IF reading = "ask" \/ "rows" \in waits THEN page - 1 ELSE page

FewerOf(a, b) == IF a < b THEN a ELSE b

(* What a reader has behind it, whatever becomes of the table: a page is   *)
(* turned when its limit is positive and there is more.                    *)
ReaderState ==
    /\ waits # {} => reading = "answer"
    /\ page > 1 \/ reading = "done" \/ (reading = "answer" /\ "rows" \notin waits) => Limit >= 1
    /\ reading = "done" => page * Limit >= total

(* What it has met of a table that stands still.                           *)
MetState ==
    changes = 0 /\ reading # "refused" =>
        /\ reading \in {"answer", "done"} /\ "count" \notin waits => total = Cardinality(rows)
        /\ ordered => \A r \in 1 .. MaxRows :
              listed[r] = IF r \in rows /\ Smaller(r) < Limit * Turned THEN 1 ELSE 0
        /\ Turned = 0 => \A r \in 1 .. MaxRows : listed[r] = 0
        /\ ~ordered /\ Turned = 1 => \E S \in SUBSET rows :
              /\ Cardinality(S) = FewerOf(Cardinality(rows), Limit)
              /\ \A r \in 1 .. MaxRows : listed[r] = IF r \in S THEN 1 ELSE 0

PagesInv == ListTypeOK /\ ReaderState /\ MetState

LEMMA LimitIsNotZero ==
    ASSUME ListTypeOK
    PROVE  Limit \in Int /\ Limit # 0
BY ListPagesAssumption DEF ListTypeOK, Limit

(* Rows can be counted, and so can those below one of them.                *)
LEMMA RowsAreCounted ==
    ASSUME ListTypeOK
    PROVE  /\ IsFiniteSet(rows) /\ Cardinality(rows) \in 0 .. MaxRows
           /\ \A r : Smaller(r) \in Nat
           /\ \A r \in rows : Smaller(r) < Cardinality(rows)
<1>1. IsFiniteSet(1 .. MaxRows) /\ Cardinality(1 .. MaxRows) = MaxRows
  BY ListPagesAssumption, FS_Interval
<1>2. IsFiniteSet(rows) /\ Cardinality(rows) \in Nat /\ Cardinality(rows) <= MaxRows
  <2>1. rows \in SUBSET (1 .. MaxRows)
    BY DEF ListTypeOK
  <2>2. IsFiniteSet(rows) /\ Cardinality(rows) <= MaxRows
    BY <1>1, <2>1, FS_Subset
  <2> QED
    BY <2>2, FS_CardinalityType
<1>3. ASSUME NEW r PROVE Smaller(r) \in Nat
  <2>1. {q \in rows : q < r} \in SUBSET rows
    OBVIOUS
  <2> QED
    BY <1>2, <2>1, FS_Subset, FS_CardinalityType DEF Smaller
<1>4. ASSUME NEW r \in rows PROVE Smaller(r) < Cardinality(rows)
  <2> DEFINE B == {q \in rows : q < r}
  <2>1. B \in SUBSET rows
    OBVIOUS
  <2>2. r \notin B
    BY ListPagesAssumption DEF ListTypeOK
  <2>3. IsFiniteSet(B) /\ Cardinality(B) \in Nat /\ Cardinality(B) <= Cardinality(rows)
    BY <1>2, <2>1, FS_Subset, FS_CardinalityType
  <2>4. Cardinality(B) # Cardinality(rows)
    BY <1>2, <2>1, <2>2, FS_Subset
  <2> QED
    BY <1>2, <2>3, <2>4 DEF Smaller
<1> QED
  BY <1>2, <1>3, <1>4, ListPagesAssumption

LEMMA PagesBegin == ListInit => PagesInv
<1> SUFFICES ASSUME ListInit PROVE PagesInv
  OBVIOUS
<1>1. ListTypeOK
  BY ListPagesAssumption DEF ListInit, ListTypeOK
<1>2. ReaderState
  BY DEF ListInit, ReaderState
<1>3. MetState
  <2>1. Turned = 0 /\ Limit * Turned = 0
    BY <1>1, LimitIsNotZero DEF ListInit, Turned
  <2>2. \A r \in 1 .. MaxRows : ~(Smaller(r) < 0)
    BY <1>1, RowsAreCounted
  <2> QED
    BY <2>1, <2>2 DEF ListInit, MetState
<1> QED
  BY <1>1, <1>2, <1>3 DEF PagesInv

LEMMA PagesGoOn == PagesInv /\ [ListNext]_listVars => PagesInv'
<1> SUFFICES ASSUME PagesInv, [ListNext]_listVars
             PROVE  PagesInv'
  OBVIOUS
<1> USE DEF PagesInv
<1>0. /\ MaxRows \in Nat /\ Limit \in Int /\ Limit # 0 /\ page \in Nat /\ page >= 1
      /\ Cardinality(rows) \in 0 .. MaxRows /\ \A r : Smaller(r) \in Nat
  BY ListPagesAssumption, LimitIsNotZero, RowsAreCounted DEF ListTypeOK
<1>1. CASE AskPage
  <2>1. UNCHANGED <<rows, asked, ordered, page, total, listed, changes>>
    BY <1>1 DEF AskPage
  <2>2. Limit' = Limit /\ Turned' = Turned /\ \A r : Smaller(r)' = Smaller(r)
    BY <1>1, <2>1 DEF AskPage, Limit, Turned, Smaller
  <2>3. ListTypeOK' /\ ReaderState'
    BY <1>1, <2>1, <2>2 DEF AskPage, ListTypeOK, ReaderState
  <2>4. MetState'
    BY <1>1, <2>1, <2>2 DEF AskPage, MetState
  <2> QED
    BY <2>3, <2>4
<1>2. CASE CountRows
  <2>1. UNCHANGED <<rows, asked, ordered, page, reading, listed, changes>>
    BY <1>2 DEF CountRows
  <2>2. Limit' = Limit /\ Turned' = Turned /\ \A r : Smaller(r)' = Smaller(r)
    BY <1>2, <2>1 DEF CountRows, Limit, Turned, Smaller
  <2>3. ListTypeOK' /\ ReaderState'
    BY <1>0, <1>2, <2>1, <2>2 DEF CountRows, ListTypeOK, ReaderState
  <2>4. MetState'
    BY <1>2, <2>1, <2>2 DEF CountRows, MetState
  <2> QED
    BY <2>3, <2>4
<1>3. CASE TurnPage
  <2>0. UNCHANGED <<rows, asked, ordered, waits, total, listed, changes>> /\ waits = {} /\ reading = "answer"
    BY <1>3 DEF TurnPage
  <2>1. Limit >= 1 /\ Limit' = Limit /\ \A r : Smaller(r)' = Smaller(r)
    BY <2>0 DEF ReaderState, Limit, Smaller
  <2>2. CASE page * Limit < total /\ page' = page + 1 /\ reading' = "ask"
    <3>1. page <= page * Limit
      BY <1>0, <2>1
    <3>2. page + 1 \in 1 .. MaxRows + 2
      BY <1>0, <2>2, <3>1 DEF ListTypeOK
    <3>3. ListTypeOK'
      BY <2>0, <2>2, <3>2 DEF ListTypeOK
    <3>4. ReaderState'
      BY <2>0, <2>1, <2>2 DEF ReaderState
    <3>5. Turned' = Turned
      BY <1>0, <2>0, <2>2 DEF Turned
    <3>6. MetState'
      BY <2>0, <2>1, <2>2, <3>5 DEF MetState
    <3> QED
      BY <3>3, <3>4, <3>6
  <2>3. CASE ~(page * Limit < total) /\ reading' = "done" /\ page' = page
    <3>1. ListTypeOK'
      BY <2>0, <2>3 DEF ListTypeOK
    <3>2. page * Limit \in Int /\ total \in Int
      BY <1>0 DEF ListTypeOK
    <3>3. ReaderState'
      BY <2>0, <2>1, <2>3, <3>2 DEF ReaderState
    <3>4. Turned' = Turned
      BY <2>0, <2>3 DEF Turned
    <3>5. MetState'
      BY <2>0, <2>1, <2>3, <3>4 DEF MetState
    <3> QED
      BY <3>1, <3>3, <3>5
  <2> QED
    BY <1>3, <2>2, <2>3 DEF TurnPage
<1>4. CASE ChangeRows
  <2>1. ListTypeOK' /\ changes' # 0
    BY <1>4, ListPagesAssumption DEF ChangeRows, ListTypeOK
  <2>2. ReaderState'
    BY <1>4 DEF ChangeRows, ReaderState, Limit
  <2> QED
    BY <2>1, <2>2 DEF MetState
<1>5. CASE ListRows
  <2>0. /\ UNCHANGED <<rows, asked, ordered, page, total, changes>>
        /\ "rows" \in waits /\ reading = "answer" /\ Turned = page - 1
    BY <1>5 DEF ListRows, ReaderState, Turned
  <2>1. Limit' = Limit /\ \A r : Smaller(r)' = Smaller(r)
    BY <2>0 DEF Limit, Smaller
  <2>2. CASE reading' = "refused" /\ waits' = {} /\ listed' = listed
    <3>1. ListTypeOK' /\ MetState'
      BY <2>0, <2>2 DEF ListTypeOK, MetState
    <3>2. ReaderState'
      BY <2>0, <2>1, <2>2 DEF ReaderState
    <3> QED
      BY <3>1, <3>2
  <2>3. ASSUME Limit >= 0, reading' = reading, waits' = waits \ {"rows"}, NEW S \in Windows,
               listed' = [r \in 1 .. MaxRows |-> listed[r] + (IF r \in S THEN 1 ELSE 0)]
        PROVE  PagesInv'
    <3>1. ListTypeOK'
      BY <2>0, <2>3 DEF ListTypeOK
    <3>2. Limit >= 1 /\ ReaderState'
      BY <1>0, <2>0, <2>1, <2>3 DEF ReaderState
    <3>3. Turned' = page
      BY <2>0, <2>3 DEF Turned
    <3>4. Limit * page = Limit * (page - 1) + Limit /\ Limit * (page - 1) \in Nat
      BY <1>0, <3>2
    <3>5. ASSUME ordered, changes = 0, NEW r \in 1 .. MaxRows
          PROVE  listed'[r] = IF r \in rows /\ Smaller(r) < Limit * page THEN 1 ELSE 0
      <4>1. S = {q \in rows : Smaller(q) >= Limit * (page - 1) /\ Smaller(q) < Limit * (page - 1) + Limit}
        BY <2>3, <3>5 DEF Windows, Offset, Smaller
      <4>2. listed[r] = IF r \in rows /\ Smaller(r) < Limit * (page - 1) THEN 1 ELSE 0
        BY <2>0, <3>5 DEF MetState
      <4> QED
        BY <1>0, <2>3, <3>2, <3>4, <3>5, <4>1, <4>2
    <3>6. ASSUME ~ordered, changes = 0, page = 1
          PROVE  /\ S \in SUBSET rows /\ Cardinality(S) = FewerOf(Cardinality(rows), Limit)
                 /\ \A r \in 1 .. MaxRows : listed'[r] = IF r \in S THEN 1 ELSE 0
      <4>1. Offset = 0
        BY <1>0, <3>6 DEF Offset
      <4>2. S \in SUBSET rows /\ Cardinality(S) = FewerOf(Cardinality(rows), Limit)
        BY <1>0, <2>3, <3>6, <4>1 DEF Windows, FewerOf
      <4>3. \A r \in 1 .. MaxRows : listed[r] = 0
        BY <2>0, <3>6 DEF MetState
      <4> QED
        BY <2>3, <4>2, <4>3
    <3>7. MetState'
      <4> SUFFICES ASSUME changes = 0
                   PROVE  MetState'
        BY <2>0 DEF MetState
      <4>1. "count" \notin waits' => total' = Cardinality(rows')
        BY <2>0, <2>3 DEF MetState
      <4>2. Turned' # 0
        BY <1>0, <3>3
      <4>3. ordered' => \A r \in 1 .. MaxRows :
               listed'[r] = IF r \in rows' /\ Smaller(r)' < Limit' * Turned' THEN 1 ELSE 0
        BY <2>0, <2>1, <3>3, <3>5
      <4>4. ~ordered' /\ Turned' = 1 => \E T \in SUBSET rows' :
              /\ Cardinality(T) = FewerOf(Cardinality(rows'), Limit')
              /\ \A r \in 1 .. MaxRows : listed'[r] = IF r \in T THEN 1 ELSE 0
        BY <2>0, <2>1, <3>3, <3>6
      <4> QED
        BY <4>1, <4>2, <4>3, <4>4 DEF MetState, FewerOf
    <3> QED
      BY <3>1, <3>2, <3>7
  <2> QED
    BY <1>0, <1>5, <2>2, <2>3 DEF ListRows
<1>6. CASE UNCHANGED listVars
  <2>1. Limit' = Limit /\ Turned' = Turned /\ \A r : Smaller(r)' = Smaller(r)
    BY <1>6 DEF listVars, Limit, Turned, Smaller
  <2>2. ListTypeOK' /\ ReaderState' /\ MetState'
    BY <1>6, <2>1 DEF listVars, ListTypeOK, ReaderState, MetState
  <2> QED
    BY <2>2
<1> QED
  BY <1>1, <1>2, <1>3, <1>4, <1>5, <1>6 DEF ListNext

LEMMA PagesMeetEveryRow == PagesInv => PagesMeetEveryRowOnce
<1> SUFFICES ASSUME PagesInv, reading = "done", changes = 0, ordered \/ page = 1,
                    NEW r \in 1 .. MaxRows
             PROVE  listed[r] = IF r \in rows THEN 1 ELSE 0
  BY DEF PagesMeetEveryRowOnce
<1> USE DEF PagesInv
<1>1. /\ waits = {} /\ Turned = page /\ page \in Nat /\ Limit \in Int
      /\ page * Limit >= Cardinality(rows) /\ Limit >= 1
  BY ListPagesAssumption, LimitIsNotZero DEF ReaderState, MetState, Turned, ListTypeOK
<1>2. CASE ordered
  <2>1. listed[r] = IF r \in rows /\ Smaller(r) < Limit * page THEN 1 ELSE 0
    BY <1>1, <1>2 DEF MetState
  <2>2. r \in rows => Smaller(r) < Cardinality(rows) /\ Smaller(r) \in Nat /\ Cardinality(rows) \in Nat
    BY RowsAreCounted
  <2>3. Limit * page = page * Limit /\ Limit * page \in Int
    BY <1>1
  <2> QED
    BY <1>1, <2>1, <2>2, <2>3
<1>3. CASE ~ordered
  <2>1. page = 1 /\ Cardinality(rows) <= Limit /\ Cardinality(rows) \in Nat
    BY <1>1, <1>3, RowsAreCounted
  <2>2. PICK S \in SUBSET rows :
          /\ Cardinality(S) = FewerOf(Cardinality(rows), Limit)
          /\ \A q \in 1 .. MaxRows : listed[q] = IF q \in S THEN 1 ELSE 0
    BY <1>1, <1>3, <2>1 DEF MetState
  <2>3. S = rows
    BY <1>1, <2>1, <2>2, RowsAreCounted, FS_Subset DEF FewerOf
  <2> QED
    BY <2>2, <2>3
<1> QED
  BY <1>2, <1>3

-----------------------------------------------------------------------------
(* The checks of an operation                                              *)

Overlapped(v) == \E c \in overlapped : payload[c].prop = v

(* A call whose check for the prop v has passed and that has not written.  *)
Passed(c, v) == phase[c] = "check" /\ "unique" \notin due[c] /\ payload[c].prop = v

Had(q) == parents[q] # Absent \/ q \in orphaned

CallState ==
    /\ \A o \in Op : due[o] # {} => phase[o] = "check"
    /\ \A o \in Op : phase[o] = "idle" => payload[o].prop = Absent /\ o \notin overlapped
    /\ \A o \in Op : method[o] = "remove" => payload[o].prop = Absent /\ payload[o].parent = Absent

(* Unless two calls with it met: a prop that a call has passed with is in  *)
(* no row, no other call has passed with it, and no two rows have it.      *)
PropState ==
    "unique" \in options => \A v \in Prop : v # Absent /\ ~Overlapped(v) =>
        /\ \A s, t \in Holding(v) : s = t
        /\ \A c \in Op : Passed(c, v) => Holding(v) = {}
        /\ \A c, d \in Op : Passed(c, v) /\ Passed(d, v) => c = d

KeptState == \A o \in kept : phase[o] = "error"

(* A call past a check of its parent, and the row of a checked call.       *)
ParentState ==
    /\ \A o \in Op : phase[o] = "check" /\ payload[o].parent # Absent
            /\ (\E check \in {"exist", "compere"} : check \in options \ due[o]) =>
          Had(payload[o].parent)
    /\ options \cap {"exist", "compere"} # {} =>
          \A o \in Op : items[o] # Absent /\ items[o].parent # Absent => Had(items[o].parent)

CheckInv == CheckTypeOK /\ CallState /\ PropState /\ KeptState /\ ParentState

LEMMA ChecksBegin == CheckInit => CheckInv
<1> SUFFICES ASSUME CheckInit PROVE CheckInv
  OBVIOUS
<1>1. CheckTypeOK
  BY DEF CheckInit, CheckTypeOK, Payload
<1>2. CallState /\ KeptState /\ ParentState
  BY DEF CheckInit, CallState, KeptState, ParentState
<1>3. PropState
  BY DEF CheckInit, PropState, Holding, Passed
<1> QED
  BY <1>1, <1>2, <1>3 DEF CheckInv

(* What a call writes comes from its payload or from the row it writes to. *)
LEMMA WrittenRow ==
    ASSUME CheckTypeOK, NEW o \in Op, RunMethod(o)
    PROVE  \E row \in Item \cup {Absent} :
              LET old == items[target[o]]
              IN /\ items' = [items EXCEPT ![target[o]] = row]
                 /\ row # Absent =>
                      /\ row \in Item
                      /\ row.prop = payload[o].prop \/ (old # Absent /\ row.prop = old.prop)
                      /\ row.parent = payload[o].parent \/ (old # Absent /\ row.parent = old.parent)
<1> DEFINE p == payload[o]
<1> DEFINE old == items[target[o]]
<1>1. p \in Payload /\ old \in Item \cup {Absent} /\ target[o] \in Op
  BY DEF CheckTypeOK
<1>2. CASE method[o] = "create"
  <2> DEFINE row == [prop |-> p.prop, parent |-> p.parent]
  <2>1. items' = [items EXCEPT ![target[o]] = row]
    BY <1>2 DEF RunMethod
  <2>2. row \in Item /\ row.prop = p.prop /\ row.parent = p.parent
    BY <1>1 DEF Payload, Item
  <2> HIDE DEF row
  <2> QED
    BY <2>1, <2>2
<1>3. CASE method[o] = "update" /\ old # Absent
  <2> DEFINE row == [prop   |-> IF p.prop # Absent THEN p.prop ELSE old.prop,
                     parent |-> IF p.parent # Absent THEN p.parent ELSE old.parent]
  <2>1. items' = [items EXCEPT ![target[o]] = row]
    BY <1>3 DEF RunMethod
  <2>2. /\ row \in Item
        /\ row.prop = p.prop \/ row.prop = old.prop
        /\ row.parent = p.parent \/ row.parent = old.parent
    BY <1>1, <1>3 DEF Payload, Item
  <2> HIDE DEF row
  <2> QED
    BY <1>3, <2>1, <2>2
<1>4. CASE method[o] # "create" /\ ~(method[o] = "update" /\ old # Absent)
  <2>1. items' = [items EXCEPT ![target[o]] = Absent]
    BY <1>4 DEF RunMethod
  <2> QED
    BY <2>1
<1> QED
  BY <1>2, <1>3, <1>4

(* What a check does to the call that waits for it.                        *)
LEMMA PassEffect ==
    ASSUME CheckTypeOK, CallState, NEW o \in Op, NEW check, NEW passes \in BOOLEAN,
           Pass(o, check, passes)
    PROVE  /\ check \in due[o] /\ phase[o] = "check"
           /\ UNCHANGED <<options, items, parents, method, payload, target, orphaned>>
           /\ due' \in [Op -> SUBSET Checks]
           /\ phase' \in [Op -> {"idle", "check", "done", "error"}]
           /\ \A d \in Op \ {o} : due'[d] = due[d] /\ phase'[d] = phase[d]
           /\ passes => due'[o] = due[o] \ {check} /\ phase'[o] = "check"
           /\ ~passes => due'[o] = {} /\ phase'[o] = "error"
<1>1. check \in due[o] /\ phase[o] = "check"
  BY DEF Pass, CallState
<1>2. UNCHANGED <<options, items, parents, method, payload, target, orphaned>>
  BY DEF Pass
<1>3. CASE passes
  <2>1. due' = [due EXCEPT ![o] = @ \ {check}] /\ phase' = phase
    BY <1>3 DEF Pass
  <2> QED
    BY <1>1, <1>2, <1>3, <2>1 DEF CheckTypeOK
<1>4. CASE ~passes
  <2>1. due' = [due EXCEPT ![o] = {}] /\ phase' = [phase EXCEPT ![o] = "error"]
    BY <1>4 DEF Pass
  <2> QED
    BY <1>1, <1>2, <1>4, <2>1 DEF CheckTypeOK
<1> QED
  BY <1>3, <1>4

LEMMA InvokeKeeps == ASSUME CheckInv, NEW o \in Op, Invoke(o) PROVE CheckInv'
<1> USE DEF CheckInv
<1>1. PICK m \in {"create", "update", "remove"}, p \in Payload, t \in Op :
        /\ m = "remove" => p = [prop |-> Absent, parent |-> Absent, owner |-> Absent]
        /\ method' = [method EXCEPT ![o] = m]
        /\ payload' = [payload EXCEPT ![o] = p]
        /\ target' = [target EXCEPT ![o] = t]
        /\ due' = [due EXCEPT ![o] = IF m = "remove" THEN {} ELSE options]
  BY DEF Invoke
<1>2. /\ phase[o] = "idle" /\ phase' = [phase EXCEPT ![o] = "check"]
      /\ UNCHANGED <<options, items, parents, kept, overlapped, orphaned>>
  BY DEF Invoke
<1>3. CheckTypeOK'
  BY <1>1, <1>2 DEF CheckTypeOK
<1>4. \A d \in Op \ {o} : /\ phase'[d] = phase[d] /\ due'[d] = due[d] /\ payload'[d] = payload[d]
                          /\ method'[d] = method[d]
  BY <1>1, <1>2 DEF CheckTypeOK
<1>5. /\ phase'[o] = "check" /\ payload'[o] = p /\ method'[o] = m
      /\ due'[o] = IF m = "remove" THEN {} ELSE options
  BY <1>1, <1>2 DEF CheckTypeOK
<1>6. m = "remove" => p.prop = Absent /\ p.parent = Absent
  BY <1>1
<1>7. CallState'
  BY <1>2, <1>4, <1>5, <1>6 DEF CallState
<1>8. PropState'
  <2> SUFFICES ASSUME "unique" \in options, NEW v \in Prop, v # Absent, ~Overlapped(v)'
               PROVE  /\ \A s, r \in Holding(v)' : s = r
                      /\ \A c \in Op : Passed(c, v)' => Holding(v)' = {}
                      /\ \A c, d \in Op : Passed(c, v)' /\ Passed(d, v)' => c = d
    BY <1>2 DEF PropState
  <2>1. ~Overlapped(v)
    BY <1>2, <1>4 DEF Overlapped, CallState, CheckTypeOK
  <2>2. Holding(v)' = Holding(v)
    BY <1>2 DEF Holding
  <2>3. \A c \in Op : Passed(c, v)' => Passed(c, v)
    <3>1. ~Passed(o, v)'
      BY <1>2, <1>5, <1>6 DEF Passed
    <3> QED
      BY <1>4, <3>1 DEF Passed
  <2> QED
    BY <2>1, <2>2, <2>3 DEF PropState
<1>9. KeptState'
  BY <1>2, <1>4 DEF KeptState, CheckTypeOK
<1>10. ParentState'
  BY <1>2, <1>4, <1>5, <1>6 DEF ParentState, Had
<1> QED
  BY <1>3, <1>7, <1>8, <1>9, <1>10

LEMMA UniqueKeeps == ASSUME CheckInv, NEW o \in Op, CheckUnique(o) PROVE CheckInv'
<1> USE DEF CheckInv
<1>1. UniquePasses(o) \in BOOLEAN /\ Pass(o, "unique", UniquePasses(o))
  BY DEF CheckUnique, UniquePasses
<1>2. /\ "unique" \in due[o] /\ phase[o] = "check"
      /\ UNCHANGED <<options, items, parents, method, payload, target, orphaned>>
      /\ due' \in [Op -> SUBSET Checks]
      /\ phase' \in [Op -> {"idle", "check", "done", "error"}]
      /\ \A d \in Op \ {o} : due'[d] = due[d] /\ phase'[d] = phase[d]
      /\ UniquePasses(o) => due'[o] = due[o] \ {"unique"} /\ phase'[o] = "check"
      /\ ~UniquePasses(o) => due'[o] = {} /\ phase'[o] = "error"
  BY <1>1, PassEffect
<1>3. /\ kept \subseteq kept' /\ kept' \subseteq kept \cup {o}
      /\ o \in kept' => o \in kept \/ ~UniquePasses(o)
  <2>1. CASE kept' = kept
    BY <2>1
  <2>2. CASE kept' # kept
    <3>1. /\ kept' = kept \cup {o} /\ items[target[o]] # Absent
          /\ payload[o].prop # Absent /\ items[target[o]].prop = payload[o].prop
      BY <2>2 DEF CheckUnique
    <3>2. target[o] \in Holding(payload[o].prop)
      BY <3>1 DEF Holding, CheckTypeOK
    <3> QED
      BY <3>1, <3>2 DEF UniquePasses
  <2> QED
    BY <2>1, <2>2
<1>4. /\ overlapped \subseteq overlapped' /\ overlapped' \subseteq Op
      /\ \A c \in overlapped' \ overlapped : payload[c].prop = payload[o].prop /\ payload[o].prop # Absent
      /\ \A d \in Op \ {o} : phase[d] = "check" /\ payload[d].prop = payload[o].prop
                               /\ payload[o].prop # Absent => o \in overlapped'
  BY DEF CheckUnique, CheckTypeOK
<1>5. CheckTypeOK'
  BY <1>2, <1>3, <1>4 DEF CheckTypeOK
<1>6. CallState'
  BY <1>2, <1>4 DEF CallState
<1>7. PropState'
  <2> SUFFICES ASSUME "unique" \in options, NEW v \in Prop, v # Absent, ~Overlapped(v)'
               PROVE  /\ \A s, r \in Holding(v)' : s = r
                      /\ \A c \in Op : Passed(c, v)' => Holding(v)' = {}
                      /\ \A c, d \in Op : Passed(c, v)' /\ Passed(d, v)' => c = d
    BY <1>2 DEF PropState
  <2>1. ~Overlapped(v)
    BY <1>2, <1>4 DEF Overlapped
  <2>2. Holding(v)' = Holding(v)
    BY <1>2 DEF Holding
  <2>3. \A c \in Op \ {o} : Passed(c, v)' => Passed(c, v)
    BY <1>2 DEF Passed
  <2>4. Passed(o, v)' => Holding(v) = {} /\ \A d \in Op \ {o} : ~Passed(d, v)
    <3> SUFFICES ASSUME Passed(o, v)'
                 PROVE  Holding(v) = {} /\ \A d \in Op \ {o} : ~Passed(d, v)
      OBVIOUS
    <3>1. payload[o].prop = v /\ UniquePasses(o)
      BY <1>2 DEF Passed
    <3>2. o \notin overlapped'
      BY <1>2, <3>1 DEF Overlapped
    <3> QED
      BY <1>4, <3>1, <3>2 DEF UniquePasses, Passed
  <2> QED
    BY <2>1, <2>2, <2>3, <2>4 DEF PropState
<1>8. KeptState'
  BY <1>2, <1>3 DEF KeptState, CheckTypeOK
<1>9. ParentState'
  BY <1>2 DEF ParentState, Had
<1> QED
  BY <1>5, <1>6, <1>7, <1>8, <1>9

LEMMA ParentCheckKeeps ==
    ASSUME CheckInv, NEW o \in Op, CheckExist(o) \/ CheckCompere(o)
    PROVE  CheckInv'
<1> USE DEF CheckInv
<1>1. PICK check \in {"exist", "compere"}, passes \in BOOLEAN :
        /\ Pass(o, check, passes)
        /\ passes /\ payload[o].parent # Absent => parents[payload[o].parent] # Absent
  <2>1. CASE CheckExist(o)
    BY <2>1 DEF CheckExist, ExistPasses
  <2>2. CASE CheckCompere(o)
    BY <2>2 DEF CheckCompere, ComperePasses
  <2> QED
    BY <2>1, <2>2
<1>2. /\ check \in due[o] /\ phase[o] = "check"
      /\ UNCHANGED <<options, items, parents, method, payload, target, orphaned>>
      /\ due' \in [Op -> SUBSET Checks]
      /\ phase' \in [Op -> {"idle", "check", "done", "error"}]
      /\ \A d \in Op \ {o} : due'[d] = due[d] /\ phase'[d] = phase[d]
      /\ passes => due'[o] = due[o] \ {check} /\ phase'[o] = "check"
      /\ ~passes => due'[o] = {} /\ phase'[o] = "error"
  BY <1>1, PassEffect
<1>3. UNCHANGED <<kept, overlapped>>
  BY DEF CheckExist, CheckCompere
<1>4. CheckTypeOK'
  BY <1>2, <1>3 DEF CheckTypeOK
<1>5. CallState'
  BY <1>2, <1>3 DEF CallState
<1>6. PropState'
  <2>1. \A c \in Op, v \in Prop : Passed(c, v)' => Passed(c, v)
    BY <1>2 DEF Passed
  <2>2. \A v \in Prop : Holding(v)' = Holding(v) /\ (Overlapped(v) => Overlapped(v)')
    BY <1>2, <1>3 DEF Holding, Overlapped
  <2> QED
    BY <1>2, <2>1, <2>2 DEF PropState
<1>7. KeptState'
  BY <1>2, <1>3 DEF KeptState, CheckTypeOK
<1>8. ParentState'
  BY <1>1, <1>2 DEF ParentState, Had
<1> QED
  BY <1>4, <1>5, <1>6, <1>7, <1>8

LEMMA MethodKeeps == ASSUME CheckInv, NEW o \in Op, RunMethod(o) PROVE CheckInv'
<1> USE DEF CheckInv
<1> DEFINE s == target[o]
<1> DEFINE old == items[s]
<1>1. PICK row \in Item \cup {Absent} :
        /\ items' = [items EXCEPT ![s] = row]
        /\ row # Absent =>
             /\ row \in Item
             /\ row.prop = payload[o].prop \/ (old # Absent /\ row.prop = old.prop)
             /\ row.parent = payload[o].parent \/ (old # Absent /\ row.parent = old.parent)
  BY WrittenRow
<1>2. /\ phase[o] = "check" /\ due[o] = {} /\ phase' = [phase EXCEPT ![o] = "done"]
      /\ UNCHANGED <<options, parents, method, payload, target, due, kept, overlapped, orphaned>>
  BY DEF RunMethod
<1>3. CheckTypeOK' /\ s \in Op
  BY <1>1, <1>2 DEF CheckTypeOK
<1>4. /\ \A d \in Op \ {o} : phase'[d] = phase[d]
      /\ phase'[o] = "done"
      /\ \A t \in Op \ {s} : items'[t] = items[t]
      /\ items'[s] = row
  BY <1>1, <1>2, <1>3 DEF CheckTypeOK
<1>5. CallState'
  BY <1>2, <1>4 DEF CallState
<1>6. PropState'
  <2> SUFFICES ASSUME "unique" \in options, NEW v \in Prop, v # Absent, ~Overlapped(v)'
               PROVE  /\ \A t, r \in Holding(v)' : t = r
                      /\ \A c \in Op : Passed(c, v)' => Holding(v)' = {}
                      /\ \A c, d \in Op : Passed(c, v)' /\ Passed(d, v)' => c = d
    BY <1>2 DEF PropState
  <2>1. ~Overlapped(v)
    BY <1>2 DEF Overlapped
  <2>2. \A c \in Op : Passed(c, v)' => c # o /\ Passed(c, v)
    BY <1>2, <1>4 DEF Passed
  <2>3. CASE payload[o].prop = v
    <3>1. Passed(o, v) /\ Holding(v) = {}
      BY <1>2, <2>1, <2>3 DEF Passed, PropState
    <3>2. \A c \in Op : ~Passed(c, v)'
      BY <2>1, <2>2, <3>1 DEF PropState
    <3>3. \A t \in Holding(v)' : t = s
      BY <1>4, <3>1 DEF Holding
    <3> QED
      BY <3>2, <3>3
  <2>4. CASE payload[o].prop # v
    <3>1. \A t \in Holding(v)' : t \in Holding(v)
      BY <1>1, <1>3, <1>4, <2>4 DEF Holding
    <3> QED
      BY <2>1, <2>2, <3>1 DEF PropState
  <2> QED
    BY <2>3, <2>4
<1>7. KeptState'
  BY <1>2 DEF KeptState, CheckTypeOK
<1>8. ParentState'
  <2>1. ASSUME NEW d \in Op, phase'[d] = "check"
        PROVE  phase[d] = "check"
    BY <1>4, <2>1
  <2>2. ASSUME options \cap {"exist", "compere"} # {}, row # Absent, row.parent # Absent
        PROVE  Had(row.parent)
    BY <1>1, <1>2, <1>3, <2>2 DEF ParentState
  <2> QED
    BY <1>2, <1>3, <1>4, <2>1, <2>2 DEF ParentState, Had
<1> QED
  BY <1>3, <1>5, <1>6, <1>7, <1>8

LEMMA ChecksGoOn == CheckInv /\ [CheckNext]_checkVars => CheckInv'
<1> SUFFICES ASSUME CheckInv, [CheckNext]_checkVars PROVE CheckInv'
  OBVIOUS
<1>1. ASSUME NEW q \in Parent, RemoveParent(q) PROVE CheckInv'
  <2>0. /\ UNCHANGED <<options, items, method, payload, target, due, phase, kept, overlapped>>
        /\ parents' = [parents EXCEPT ![q] = Absent] /\ orphaned' = orphaned \cup {q}
    BY <1>1 DEF RemoveParent
  <2>1. CheckTypeOK' /\ \A p : Had(p) => Had(p)'
    BY <2>0 DEF CheckInv, CheckTypeOK, Had
  <2>2. CallState' /\ KeptState'
    BY <2>0 DEF CheckInv, CallState, KeptState
  <2>3. PropState'
    BY <2>0 DEF CheckInv, PropState, Holding, Overlapped, Passed
  <2>4. ParentState'
    BY <2>0, <2>1 DEF CheckInv, ParentState
  <2> QED
    BY <2>1, <2>2, <2>3, <2>4 DEF CheckInv
<1>2. CASE UNCHANGED checkVars
  <2>1. CheckTypeOK' /\ CallState' /\ KeptState'
    BY <1>2 DEF checkVars, CheckInv, CheckTypeOK, CallState, KeptState
  <2>2. PropState'
    BY <1>2 DEF checkVars, CheckInv, PropState, Holding, Overlapped, Passed
  <2>3. ParentState'
    BY <1>2 DEF checkVars, CheckInv, ParentState, Had
  <2> QED
    BY <2>1, <2>2, <2>3 DEF CheckInv
<1> QED
  BY <1>1, <1>2, InvokeKeeps, UniqueKeeps, ParentCheckKeeps, MethodKeeps DEF CheckNext

LEMMA ChecksAreHeld == CheckInv => ChecksHold
<1> SUFFICES ASSUME CheckInv PROVE ChecksHold
  OBVIOUS
<1>1. PropsUniqueUnlessOverlapped
  <2> SUFFICES ASSUME "unique" \in options, NEW o \in Op, NEW d \in Op, o # d,
                      items[o] # Absent, items[d] # Absent,
                      items[o].prop = items[d].prop, items[o].prop # Absent
               PROVE  \E c \in overlapped : payload[c].prop = items[o].prop
    BY DEF PropsUniqueUnlessOverlapped
  <2>1. items[o].prop \in Prop
    BY DEF CheckInv, CheckTypeOK, Item
  <2>2. o \in Holding(items[o].prop) /\ d \in Holding(items[o].prop)
    BY DEF Holding
  <2> QED
    BY <2>1, <2>2 DEF CheckInv, PropState, Overlapped
<1>2. KeptPropsAreRefused
  BY DEF CheckInv, KeptState, KeptPropsAreRefused
<1>3. ParentsExistedOnce
  BY DEF CheckInv, ParentState, ParentsExistedOnce, Had
<1> QED
  BY <1>1, <1>2, <1>3 DEF ChecksHold

-----------------------------------------------------------------------------
(* The checks of an operation hold what they are worth: a checked prop is  *)
(* unique unless two calls met, a kept one is refused, a parent was there  *)
(* (decorator/sequelize.decorator.ts, sequelize/validation.service.ts).    *)
THEOREM ChecksAreWorthIt == LibrarySpec => []ChecksHold
<1>1. LibraryInit => CheckInv
  BY ChecksBegin DEF LibraryInit
<1>2. CheckInv /\ [LibraryNext]_libraryVars => CheckInv'
  BY ChecksGoOn, EachByItself
<1> QED
  BY <1>1, <1>2, ChecksAreHeld, PTL DEF LibrarySpec

(* A kept answer is dropped, a retry ends as promised, no character is     *)
(* likelier than another, and who turns the pages meets every row once     *)
(* (inspector/request-limit.inspector.ts, util/promise/Native.ts,          *)
(* crypto/random-string.ts, sequelize/filter.service.ts).                  *)
THEOREM HelpersDoAsPromised == LibrarySpec => []HelpersKeepTheirWord
<1> DEFINE Inv == CacheInv /\ LimitInv /\ RetryInv /\ StringInv /\ PagesInv /\ CheckInv
<1>1. LibraryInit => Inv
  BY CacheBegins, LimitGoesOn, RetryGoesOn, StringGoesOn, PagesBegin, ChecksBegin DEF LibraryInit
<1>2. Inv /\ [LibraryNext]_libraryVars => Inv'
  BY CacheGoesOn, LimitGoesOn, RetryGoesOn, StringGoesOn, PagesGoOn, ChecksGoOn, EachByItself
<1>3. Inv => HelpersKeepTheirWord
  <2> SUFFICES ASSUME Inv PROVE HelpersKeepTheirWord
    OBVIOUS
  <2>1. LibraryTypeOK
    BY DEF CacheInv, LimitInv, RetryInv, StringInv, PagesInv, CheckInv, LibraryTypeOK
  <2>2. KeptAnswersAreDropped
    BY DEF LimitInv, KeptAnswersAreDropped
  <2>3. RetryAnswers
    BY DEF RetryInv
  <2> QED
    BY <2>1, <2>2, <2>3, StringsAreFair, PagesMeetEveryRow DEF HelpersKeepTheirWord
<1> QED
  BY <1>1, <1>2, <1>3, PTL DEF LibrarySpec

=============================================================================
