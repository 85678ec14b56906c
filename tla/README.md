# Palatine Whiteboard: verification project

The repository is a shared whiteboard: a React front end around a Yjs document
(BlockSuite), a NestJS back end over PostgreSQL and Redis, and a socket.io gateway
between the two. This directory models how a document travels, from a stroke in a
browser tab through the debounced save and the socket into the table `documents` and
the cache and back to the tabs of the same account, and what that rests on: accounts
and sign-in, the migrations that make the tables, the configuration a server starts
with, and the shared library of the back end.

The modules are translated from the source. `PROJECT.json` maps every definition to
the lines it stands for, lists the hazards of the code and names the properties that
watch over each.

## 1. The system

| component | state it keeps | operations | interacts with |
|---|---|---|---|
| document service (`backend/src/document/document.service.ts`, `document.controller.ts`) | rows of `documents`, keys `doc:<user>` in Redis, `saveTimeouts` | `getDocument`, `createDocument`, `updateDocument`; without a caller `saveDocumentUpdate`, `schedulePostgresSave` | called by the HTTP routes and by the gateway; one SQL statement or Redis command per await |
| document gateway (`document.gateway.ts`) | `connectedClients`, `client.data`, socket.io rooms | `handleConnection`, `handleDisconnect`, `handleUpdate`, `handleJoinRoom`, `handleLeaveRoom`, `handlePing`; without a caller `sendUpdateToUser`, `getConnectionStats` | calls `AuthService.validateUser` and `DocumentService.updateDocument`, emits to the room of the user |
| editor session (`frontend/src/editor/context.tsx`, `services/documentSync.ts`, `hooks/`) | the Yjs document, the React Query entry `['document']`, `hasCreatedRef`, the listener and timer of each `DocumentSyncService`, the socket | the provider's effect (load, create, clean up), `debouncedSave`, `saveDocument`, `sendUpdate`, `documentUpdated` | GET and POST over HTTP, `updateDocument` over the socket |
| accounts (`backend/src/auth`, `backend/src/user`, `shared/src/crypto`) | rows of `users` | `register`, `login`, `validateUser`, `RolesGuard`, user routes | guard of the document routes, handshake of the gateway |
| sign-in state (`AuthContext.tsx`, `LoginForm.tsx`, `api/index.ts`) | tokens in `localStorage`, `isAuthenticated` | `login`, the forms, the interceptors; without a caller `logout` | accounts, editor session, socket |
| migrations (`backend/migration`) | the table `migrations`, the store directory of each place | `list`, `sync`, `add`, `up`, scripts V1 and V2 | makes the tables, runs before the application in its container |
| configuration (`libs/service/src/index.ts`, `config.service.ts`) | `conf.json5`, `config-<env>.json5` | `loadConfig`, `ConfigService` | everything at start |
| generic service (`shared/src/sequelize`) | none of its own | `create`, `findOne`, `findAll`, `update`, `upsert`, `remove`, `order`, `contentOrder`, `processContent`, `processRel`; the decorators `Transaction` and `Operation` | base class of the document and user services |
| cache service (`shared/src/cache`, `cache.decorator.ts`) | one lazily opened Redis client | `set`, `get`, `del`, `scan`, `conn`; decorators `Store`, `Purge` (unused) | document service |
| request limiter, retry loop, random strings (`shared/src/inspector`, `util`, `crypto`) | an answer and its timers; none | `intercept`, `retry`, `toPromise`, `randomString` | the limiter is not registered |
| validation pipe, error filter, logging, fetch, files, images, pages | little or none | | |

Hard behaviours. Handlers interleave at every `await`; nothing is locked and no
transaction is opened by the document service. The stores are two and are not
updated together. A statement may commit and lose its answer. The process may stop
between any two steps. The handshake of a socket waits for a query while the socket
may close and its messages may already be handled. The browser saves on a timer that
every edit restarts, over a socket that may be closed, and hears of neither success
nor failure. Tabs share one `localStorage` and are told nothing of each other's
writes. A migration script commits apart from the row that says so, and one of the two
does not wait for its query. Containers run the same commands over one database.

What makes each component correct:

* service: an acknowledged update is stored, exactly once; a failed one at most once;
  versions count updates; content stays with its owner; one document per account;
  the cache does not outlive what it caches; every request is answered; a deferred
  save is stored, replaced by a newer one, or lost for a reason;
* gateway: the registry, the rooms and the sockets' own lists agree; an update is
  shown to the other sockets of its user, once it is stored, and to nobody else; the
  sender is told the truth;
* editor session: one saver per document; no edit is forgotten by the debounce; what
  reaches the store and what reaches the other tabs;
* accounts and sign-in: one account to an e-mail; who knows the password is let in,
  nobody else; a tab's calls run as the account that signed in there;
* migrations: a row marked Complete took effect; the application is served over its
  tables; a database from which no command leads to a served application comes about
  for known reasons only;
* configuration: a server runs on what its own start read, or on what the place was
  first given; the container's migrations and its server mean the same database;
* generic service: two lists that order the same rows do not mix; a call is told what
  became of it; every call ends, deadlocks included;
* library: the cache is stale for one reason only; limits, retries, pages, random
  strings and the checks around an operation do what their callers rely on.

## 2. Modules

| module | what it is | read with |
|---|---|---|
| `DocumentRegister` | what the service promises: a register per document row, requests that are called and answered once | – |
| `DocumentService` | the service cut at every await, refines `DocumentRegister` | `document.service.ts:34-110`, `common.service.ts:47-118` |
| `DocumentGateway` | the gateway over the register (`INSTANCE DocumentRegister`) | `document.gateway.ts:39-182`, `auth.service.ts:34-44` |
| `EditorSession` | the browser tabs of one account over the service as a tab sees it | `context.tsx`, `documentSync.ts`, `useDocumentSync.ts`, `useDocument.ts`, `useCreateDocument.ts` |
| `DeferredSave` | the save that is put off by thirty seconds | `document.service.ts:113-153` |
| `Accounts` | registration, login, the guard, change and removal of a user | `auth.service.ts`, `roles.guard.ts`, `user.service.ts` |
| `SignIn` | browser tabs over `Accounts` (which it extends) | `AuthContext.tsx`, `LoginForm.tsx`, `useLogin.ts`, `api/index.ts`, `all-exceptions.filter.ts` |
| `Migration` | `sync`, `add`, `up` and the container's command over one database | `migration.service.ts`, `store/` |
| `Configuration` | the two files, the secret, the starts that write and read them | `libs/service/src/index.ts`, `config.service.ts` |
| `SequencedContent` | the transactions of the generic service, and `upsert` | `common.service.ts`, `sequelize.decorator.ts` |
| `CachedReads` | the lazy client, `Store` and `Purge` | `cache.service.ts`, `redis.ts`, `cache.decorator.ts` |
| `RequestLimit`, `RetryLoop`, `RandomString`, `ListPages`, `OperationChecks` | one helper each | `request-limit.inspector.ts`, `Native.ts`, `random-string.ts`, `filter.service.ts`, `validation.service.ts` |
| `SharedLibrary` | the six helper modules beside each other, one of them running | – |
| `MC...` | instances for TLC: symmetry sets, constants | – |
| `...Proofs` | theorems, see section 5 | – |

A definition whose name ends in `_Bug` is a plausible mistake in the definition that
follows it (a dropped check, a missing reset, the wrong set of recipients). No
specification uses it; `PROJECT.json` pairs each with the property that must notice.

In every module an action is one awaited statement with the synchronous code after it.

### 2.1 DocumentService and DocumentRegister

The label of a request (`pc`) is the await it stands at:

| label | code |
|---|---|
| `g_find` | `getDocument:42` |
| `u_find`, `u_write`, `u_reread`, `u_purge`, `u_return` | `updateDocument:86`, the UPDATE and the re-read of `CommonService.update` (`common.service.ts:84-89`), the `del` at 106, the read at 109 |
| `c_find`, `c_insert`, `c_reread`, `c_cache` | `createDocument:59`, the INSERT and the re-read of `CommonService.create` (`common.service.ts:50-56`), the `set` at 80 |

`documents` maps a row's uuid to owner, content and version; the content of a row is
the request that supplied it, so "whose bytes are these" has an answer. `cache` is the
Redis key `doc:<user>`: it is written and deleted and never read (the reads are
commented out at 36-40). `CACHE_TTL` is passed as a bare number, which the Redis client
takes for no option, so entries do not expire and the model has no expiry. The foreign key refuses the document
of an account that is gone and cascades when one is deleted.

`findOne` limits to one row and sets no order, so `FindOne` is a choice among the rows
of the user. `Fail` is a statement that fails without effect, or `Buffer.from`
refusing its input; the `lost` branches are statements that committed and whose answer
did not arrive. `Restart` loses every handler in flight. History variables (`wrote`,
`ceiling`, `lagging`, `raced`, `skewed`) are read by properties only.

`DocumentRegister` has neither versions nor awaits: a request is called, takes effect
at most once, and is answered once. `KeepsPromise` is that specification under the
mapping `Contents`, `Calls`, `Phases`: a request has been applied once its write
changed a row. `KeepsFairPromise` adds that every request is answered.

### 2.2 DocumentGateway

The gateway takes the service at its promise: it contains an instance of
`DocumentRegister` over shared variables, and `HandlerStep` moves the request of an
update event and, in the same step as its answer, runs the rest of `handleUpdate`.
Requests without a socket are calls over HTTP. `Connect` is `handleConnection` up to
its await, `HandshakeDone` and `HandshakeFailed` what follows; messages may arrive in
between and find no user. What socket.io does is modelled as the gateway relies on it
and is the only external behaviour: a closed socket is in no room, `join` after
closing does nothing, an event to a closed socket is dropped.

`ValidateUser` follows `auth.service.ts:35-37`: the claim `user` is read, `login` signs
only `sub`, the filter service drops an undefined value, and some account is found.

### 2.3 EditorSession

A Yjs document is the set of what was inserted into it and applying an update is
union, which is what Yjs guarantees for inserts; deletion is an insert of its own
there. `initEditor` inserts blocks of its own at every mount, so a mount is an element
and a stroke is another. The query cache outlives the mount; the document, the service
and the timer do not.

`Provide` is the provider's effect with the cleanup of its last run. `Load` is
`loadDocument`, whose `doc.destroy()` unsubscribes the service that was just made.
`Created` is the mutation's `onSuccess`, which stores the body where the query keeps
the whole response, so the provider sees no document afterwards. The initial-load
effect of `useDocumentSync.ts:14-29` is not a step: `documentData` is a serialised
Buffer, `base64ToUint8Array` throws on it and the catch only logs. `Decoded` is what a
tab takes from another tab's save: nothing, for the same reason.

The server side of this module is the service as a tab sees it: find and insert of a
create are two steps, a save overwrites a row in one, any call may fail.

### 2.4 DeferredSave

A save is accepted (`Accept`: the temporary key, `clearTimeout` of the timer in the
map, a new timer) and its callback then stands at `find`, `write` or `insert`,
`del_temp`, `del_doc`. All timers have one delay, so they fire in the order they were
armed in. `clearTimeout` stops a timer that has not fired and nothing else: a callback
that runs goes on beside its successor and ends by deleting the temporary key and the
map entry, whichever save they belong to by then (`outlived`). Two callbacks of one
account that run side by side (`overlapped`) may both insert a row. `lossy` accounts
lost a save to a failure or a restart; what is left of it is a key nobody reads.

### 2.5 Accounts and SignIn

A client has one request at a time: `r_find`, `r_insert`, `r_reread`, `r_show` of a
registration, `l_find`, `l_check` of a login, `g_find` of the guard. The index on
e-mail is the migration's (V1); the check before it is a query of its own. A password
that PATCH replaced is stored as it came, unhashed, and no login matches it afterwards,
which is why a row keeps whether it is hashed.

In `SignIn` a client is a browser tab. A login is two writes of the shared storage:
`useLogin` stores both tokens, and `LoginForm` goes on with `login(access_token, '', '')`
which empties the refresh token; `AuthProvider` asks for both, so a reload finds the tab
signed out. `between` marks tabs that opened between another's two writes, `overtaken`
those whose token another tab's form has replaced. The interceptor waits for a 401;
`AllExceptionsFilter` answers with `statusCode || 400`, no exception of these paths has
a `statusCode`, and so `StatusCode` is 400 and that branch never runs.

### 2.6 Migration

A place is a container or a checkout with its own store directory. Labels are
`s_list`, `s_check`, `s_count`, `s_create` of `sync` and `add`, and `u_list`, `u_run`,
`u_mark`, `u_close`, `u_abort` of `up`. V1 awaits its transaction. V2 does not await its
query: `RunV2` puts the row into `flight` and goes on to mark it Complete; `Applied` and
`Rejected` end the query, and when its process has ended before, it is one of the
`orphans`, which the server still finishes. A rejection nobody catches ends the process.
History: `torn` (V1 took effect and its process did not mark it), `cut` (a query of V2
ended without a table), `early` (an `add` by hand that counted no row), `places`, `hurt`.

### 2.7 Configuration

A secret is kept as the two keys that decide a start. `Read` may find it, or fail and
read `{}`; `WriteEnvFile` overwrites `config-<env>.json5` at every start, `WriteConf`
writes `conf.json5` only where there is none. `ConfigService` merges the first over the
second (`Merged`: a key the newer file lacks keeps its old value) and lets the
environment replace keys the files have (`Overridden`). The container's command runs its
migrations before its start loads anything, over the files of the start before. A stop
during a write leaves a `Torn` file.

### 2.8 SequencedContent

One call is one transaction, its statements queued on one connection. A statement waits
while another transaction has written the row, and PostgreSQL aborts one of those that
wait in a circle (`BreakCircle`). READ UNCOMMITTED, which the decorator asks for, is READ
COMMITTED in PostgreSQL, and a statement sees what its own transaction wrote. `upsert` is
outside any transaction: find, then insert or update.

### 2.9 The library

Six helpers over variables of their own. `SharedLibrary` has them in one specification:
`helper` is chosen in the initial state and the others stand still.

* `CachedReads`: `Store` and `Purge` around a read and a write of one record; the client
  is opened by whoever finds none.
* `RequestLimit`: the answer kept under a key and the two-second timer each request
  starts.
* `RetryLoop`: `CPromise.retry` and `toPromise`.
* `RandomString`: the selectors that are accepted, of which there are `Selectors` (2^16 in the code).
* `ListPages`: a reader that turns the pages of `findAll` while rows come and go.
* `OperationChecks`: the `Operation` decorator, whose checks are queries beside each
  other with nothing held until the write.

## 3. Runs

| run | bounds | what it shows |
|---|---|---|
| `service` | 2 accounts, 2 rows, 3 requests, creates without a version; fairness of every handler (413 332 states) | type correctness, six invariants, the refinement of the register and of its promise that every request is answered |
| `gateway` | 2 accounts, 2 sockets, 2 requests, 1 row, 1 document room (508 426) | rooms, registry, late registrations, broadcasts and answers |
| `gateway_answers` | 1 account, 2 sockets, 2 requests, 1 row, no document room; fairness of handlers and handshakes | the sender hears of its update |
| `editor` | 2 tabs, 1 stroke, 2 rows, 1 mount per tab (903 085) | one saver, nothing merged is stored |
| `editor_edits` | 1 tab, 2 strokes, 2 rows, 2 mounts; fairness of the timer | no edit is forgotten |
| `editor_tabs` | 2 tabs, 1 stroke, 2 rows, 1 mount; fairness of the timer | a violation, see 3.1 |
| `deferred` | 2 accounts, 3 saves; fairness of timers and callbacks (293 665) | whose the temporary key and the row are, and that a save comes to an end |
| `identity` | 2 tabs, e-mails, passwords and accounts (3 428 386) | registrations, logins, who is signed in and whose token a call carries |
| `migration` | 2 places, both scripts and one name for `add`, 2 commands in all; fairness of processes and queries (77 894) | what Complete means, which databases are stuck and why, and that a container alone serves |
| `configuration` | 2 databases (754 800) | which configuration and which tables a server runs over |
| `content` | 2 calls, 2 sources of which calls name 1, 2 rows, lists of up to 2; fairness of calls (726 988) | orders do not mix, answers are true, upserts meet, calls end |
| `library` | 3 readers, 2 writers, ttl 0, 1000 and 1500; 3 requests; attempts -1 to 3; `Selectors` 16; 4 rows on pages of up to 3, limits -1 to 5, 2 changes; 3 operations (1 662 109) | the six helpers |

Why the bounds suffice to be interesting.

* Service, gateway, editor: two creates race with two requests; a third is the update
  that meets the second row, or comes between another's find and write. Two accounts are
  needed for content to reach a wrong owner and for the handshake to pick a wrong
  account. Two rows are what two creates can leave. `MaxMounts` 2 lets an editor come back
  to a page whose query cache still holds a document.
* Deferred saves: three saves of one account are one running, one replaced and one armed.
* Identity: two tabs fill both roles of every race (two registrations of one e-mail, a
  form and a load, two forms); two accounts tell whose token it is.
* Migrations: `MaxRuns` 2 is two places at once or one place twice; both are needed for a
  second V1 row and for a wedged database to be tried again.
* Configuration has no bound but the two databases: a start may follow any number of
  others.
* Content: two rows and two calls are the least with a circle of waiters. `Asked`, the
  sources calls name, keeps one source that nobody touches; `MaxItems` 2 is a list with an
  order.
* Library: each of `Ttl`, `Attempts`, `Limits`, `Lengths`, `Counts` holds a value on either
  side of every comparison the code makes; `Selectors` 16 is divided by some counts (1, 16)
  and not by others (3, 5); `MaxRows` is more than one page of `MaxLimit`; `MaxChanges` lets a
  row go on a page that was read and come on one that was not.

Requests, rows, accounts, sockets, tabs, strokes, databases and operations are
interchangeable, which is the symmetry of the safety runs; the runs with liveness use
none. In `library` only the operations are permuted.

Deadlock is checked for the service (`Quiet` is the end of an instance), the gateway, the
accounts and the configuration. The other runs set `CHECK_DEADLOCK FALSE`: users close
every tab for good, a database has had all its commands, a call is made once.

### 3.1 Where the code and its comments part

`editor_tabs` checks one sentence of the sources that the code contradicts:
`document.gateway.ts:118` says that the broadcast matters for synchronisation between
tabs, and the receiving tab cannot decode what it is sent (`SavesReachOtherTabs`).

Other intentions, stated in a comment or by the code itself, hold in a weaker form. The
passing runs check that form, which names the exact circumstance of the exception:

| the intention | the form that holds | why |
|---|---|---|
| `document.ts:17`: `unique: true` | `OneDocumentUnlessRaced` | two creates overlap; the migration makes no unique index |
| `document.service.ts:104`: cache invalidation | `CacheStaleOnlyIfSkewed` | a create sets the key after the update deleted it, or the deletion fails |
| `document.service.ts:108`: return the fresh document | `ReplyShowsUpdatedRow` | the account has two documents |
| `document.gateway.ts:85`: remove from the map of connected clients | `GhostsClosedEarly` | a socket that closed during its handshake is registered afterwards |
| `document.gateway.ts:52`: join the user's personal room | `ValidateUser` | the claim read is not the one `login` signs; some account is found |
| `document.gateway.ts:117`: including the sender | `UpdatesReachTheirUser` | `client.to` leaves the sender out |
| `api/index.ts`: on a 401 the tokens are dropped | `CallsRunAsSignedIn` with `StatusCode` | the filter's status is 400 |
| the decorator `Store` with its `ttl` in milliseconds | `RefusedTtlFailsReads` | the decorator divides by 1000, and Redis refuses what is no whole positive number |

## 4. Fairness

* `DocumentService!FairSpec`: weak fairness of every request's `Step`. The database and
  Redis clients return or fail, and Node runs every continuation that is ready.
  `DocumentRegister!FairSpec` asks the same of `Answer`.
* `DocumentGateway!FairSpec`: the service answers, and a handshake waits for one query.
  Nothing is assumed of clients.
* `EditorSession!FairSpec`: a browser fires a timer that stays due. Every edit restarts
  the two seconds, so a user who never pauses starves the save; an instance has
  finitely many strokes and the liveness property speaks of users who pause. Nothing is
  assumed of the network or the server.
* `DeferredSave!FairSpec`: a timer fires once it is the next one due, and each await of a
  callback returns. Nobody has to save.
* `Migration!FairSpec`: a process goes on once its statement returns, and the server ends
  a query of V2. Nothing is assumed of operators.
* `SequencedContent!FairSpec`: the statement at the head of a call's queue is executed
  once no other transaction holds its row, and the database breaks a circle of waiters.

## 5. Proofs

`tlapm` proves the theorems of eight modules: every invariant the runs check, every
property of theirs about steps or safety, and the refinement of the register. They hold
for any sets of accounts, rows, requests, sockets, tabs, strokes, saves, places, databases,
calls and operations. The only assumptions are those the modules name, which TLC evaluates
in every run:

* `ConstantsAssumption`: the versions of creates, `MaxMounts` and `MaxRuns` are naturals,
  strokes are not mounts, what an operator passes to `up` is a plan of `up`, and the values
  `None` and `Torn` are none of the others. In `SequencedContent` there are finitely many
  uuids and `MaxItems` is positive.
* `CachedReadsAssumption`, `RetryAssumption`, `RandomStringAssumption`,
  `ListPagesAssumption`: times, attempts, lengths and limits are numbers, and `Nil` is no
  client and no value. No character list is longer than there are selectors; 2^16 is not
  reached by any of the code's.

`DocumentServiceProofs`. None of the properties mentions where a handler stands, and
each of them depends on it, so the strengthenings say what a handler at a label knows.

* `TypeCorrect`: types with `HandlerState` (the operation fits the label, a handler past
  its find or insert holds a document).
* `PlacedInvariant`: `TableState` (a row has an issued uuid and an owner that exists),
  `HeldState` (the document held belongs to the caller while it exists, and goes only
  with the account), `WriteState` (the label tells whether the request has written).
  `AckedUpdatesStored` is a part of it: a purge comes after a re-read that met the row,
  a row that is missing never comes back because uuids are issued once, so the write
  met it too.
* `VersionsCount` adds `SnapshotsBehind`: no snapshot is ahead of the count.
* `ContentBelongsToOwner` needs `HeldState`: the row written is the caller's.
* `DocumentsUnlessRaced` adds `OneCreator`: unless creates raced, one create of an
  account at most is between check and insert, and the account has no document then.
* `RepliesShowUpdatedRow` adds `ReplyState`: an account whose handler holds a document
  has no other.
* `StaleCacheHasCause` adds `CacheBacked` and `FillCurrent`: an entry has a document
  behind it, and a create about to set one holds the content its document has.

The second part of the module is the refinement, `ServiceKeepsPromise == Spec =>
KeepsPromise`. The mapping is computed once per variable (`ContentsOf`, `CallsOf`, `PhasesOf`), then one lemma per
kind of step: a call, a read, the write of an update, the insert, an acknowledgement,
giving up, a removal, a restart. Everything else is a stutter.

`DocumentGatewayProofs`. Four lemmas say what the steps of the register do to phases and
calls, so the gateway's proofs never open the register again. `RegistryAndRooms` needs
`SocketState`: before its handshake is over a socket has no user, no room and no place
in the registry, and a handshake whose socket has closed closed early.
`UpdatesAndAnswers` needs `EventState`: a socket is in the room of its own account only,
and a request that came from a socket is an update of that socket's account.
`GhostsCloseEarly`, `SendersAreToldTheTruth` and `GatewayTypes` follow.
`GatewayKeepsToTheRegister` says that the gateway never steps outside `DocumentRegister`.
The service implements it (`ServiceKeepsPromise`), so what is proved of the gateway rests
on nothing of the service but its promise. `SendersAreNotForgotten` is the safety half of
`SendersAnswered`: a sender that stays connected is unanswered only while the service owes
the answer. `NoSocketIsLeftOut` is the converse of `UpdatesReachTheirUser`, a property of
steps: what is acknowledged is shown to every other open socket of the account.

`EditorSessionProofs`. `OneSaverAtMost` with `PageState` (a page without the editor has
no timer and has created nothing; before the create nothing listens),
`EditsAreHandedOver` from it, and `NothingMergedIsEverStored` with `WorkState`: the first
mount of a tab opens on an empty query and creates at once, and while it listens it
shows its own work only, as do its posts and saves under way.

`DeferredSaveProofs`. `TypesAndOrder` has `OrderState`: a place in the order belongs to
one save, and what has fired was armed before what has not. `UnsavedIsHeld` follows from
it. `TheLastSaveShows` adds `RowState` (who inserted, who holds what) and `OneByOne`: an
account whose callbacks never overlapped has one at a time, each later in the order than
all that are stored, and its row holds the last that has written. Both are in
`RowsAndCallbacks`, and so is why `SavesAreNotForgotten` holds: only a newer save of the
account clears a timer.

`SequencedContentProofs`. `SequencedInvariant` proves the conjunction of what each
property needs; every part rests on `Shape` (types, which statement a call can be at, and
that what is queued names rows) and on `LockState`: a row two open transactions have
written is one transaction's, and a uuid in use was issued. `LocksHold` is what follows of
a step: only the call that has written a row changes it. The steps are sorted once
(`StepCases`: a call that only looks, one that rolls back, one that works, a commit, the
two writes of an upsert) and described by what they do to rows and history (`RowEffect`,
`CommitEffect`, `InsertEffect`, `UpdateEffect`), so that each part is one lemma.

* `OrdersDoNotMix` is inductive with `LockState`: a commit writes all its rows at once.
* `CallsAreTold` has three parts. `ErrorState`: the last writer of a row is done or had no
  answer to its commit. `OrderState`: an order at work has each row it names written,
  queued or removed. `BaseState`: while removeBaseRel is to come, the clearing statement is
  last in the queue; past it, every row the call has added has a deletion queued.
* `UpsertsAgree` adds `FreshState` (rows a transaction has added are no other call's) and
  that an upsert between find and insert is alone with its source and nothing was made for
  it, unless the source is marked as raced.
* `WrittenRowsAreHeld` is an action property with no run of its own: no step of another call
  changes a row an open transaction has written.
* `CallsDoNotLoop` is the safety half of `CallsEnd`: every statement of a call brings its own
  end nearer and sets no other call back, so a call that does not end waits. The order is
  lexicographic: the stage of the call, whether `removeBaseRel`'s lookup, which alone queues
  other statements, is still to come (`ClearIsLast`: at most the last statement is one), and
  the length of the queue.

`LibraryProofs`, first part, the configuration. `FilesAreBehindTheStart`: `ImageState`,
`FilesState` (what is in the two files is what the first and the last start wrote) and
`CommandState` (what was migrated is what the files name, while this start has not changed
them). `ServersRunOnLastOrFirst` and `CommandsMigrateFirst` follow. `TornFilesStay` is an
action property with no run of its own: a `conf.json5` that was cut short is never written
again.

Second part, the helpers. A step of `SharedLibrary` is a step of one helper
(`EachByItself`), so each has an invariant of its own, and the three theorems about
`LibrarySpec` put them together.

* `CacheInv`, for `CacheStaysSound`: an entry nothing crossed is the record and no writer is
  past its deletion (`EntryState`); while there is no client, whoever opened one still waits
  for it (`ClientState`), which is why a second one means that two callers met.
* `CheckInv`, for `ChecksAreWorthIt`: a value no two calls overlapped on is in one row at most,
  and in none while a call has passed its check and not yet written (`PropState`); an update
  that keeps its value ends in error (`KeptState`); a call past a check of its parent, and
  the row it leaves, has a parent that was there (`ParentState`).
* For `HelpersDoAsPromised`: `LimitInv` (the timer of the kept answer is still armed unless
  the handler outlived it), `RetryInv` (what is left of the attempts counts the calls),
  `StringInv`, and `PagesInv`: over a table that stands still the reader has met the rows that
  fewer than `Limit * Turned` others precede, each once (`MetState`), so the last page
  leaves none. Without an order this holds for the first page only, which is all the
  property promises.
* `OneInEveryBlock` counts: among the accepted selectors, as many stand for one character as
  for any other. The selectors of character `k` are in bijection with the blocks of `n`
  below the largest valid one, `j` going to `j * n + k`.

`SignInProofs`. `AccountsAndTabs` is the inductive invariant: `TableState` (one account to
an e-mail; a hashed column hashes the password the account was registered with),
`RequestOf` (what a request has found, by the statement it waits for), `LoginOf` (a login
decides by the column it read) and `TabState` (a tab's form and its request belong
together). `Undisturbed` says that other clients' steps keep a request's part, `Moves`,
`Begins` and `Inserts` what the steps of a request do to it; `StepKeeps`, `TakeKeeps` and
`OperatorKeeps` put them together. The four properties of the run `identity` follow.

`MigrationProofs`. `CommandsAndRows` is the inductive invariant: `TableState` and
`PlaceState`, which says of a container past its check that each script has a row, and
past `u_list` that each script was `Made` or is in `todo`. `Landed` is the weakest thing
the un-awaited V2 leaves true: the table is there, or the query is under way, or it was
refused after the mark; `LandedStays` is why no step takes it back. `Elsewhere`, `EndKeeps`,
`NextFileEffect`, `RunKeeps`, `ContinueKeeps` treat one kind of step each.
`CompleteIsApplied` follows, and `WedgesHaveAReason` with `V1Accounted`: while nothing was
torn, a V1 that took effect has a row that is Complete or about to be (`MarksStay`).
`WedgesAreForGood` proves `WedgedStaysDown`: once a row of V1 is pending over V1's own
tables (`WedgedAt`), nobody who still runs can mark it (`NobodyMarksIt`), and a container
that was stopped then is `Barred` from serving: from its check on it has that row ahead.
`AloneItNeverGivesUp` is the safety half of `AloneItServes`: a container that has its
database to itself, unhurt and with no early `add`, neither ends nor turns to its end
before it serves, whatever ran at its place before. Its invariant, `LoneState`, says what
`Lone` keeps: the rows are the place's own and V1's comes first (`LoneTable`), what sync
has still to add is known at each statement (`LoneSync`), and a script whose tables exist
is marked or about to be, so none runs again (`LoneUp`).

Only model-checked: liveness under fairness (`KeepsFairPromise`, `SendersAnswered`,
`EditsLeaveTheTab`, `SavesSettle`, `AloneItServes`, `CallsEnd`), which is out of the prover's
reach as `ENABLED` is. The safety half of each is proved, in the same order: `KeepsPromise`,
`SendersAreNotForgotten`, `EditsAreHandedOver`, `SavesAreNotForgotten`, `AloneItNeverGivesUp`,
`CallsDoNotLoop`. No definition is recursive: what walks along a list is a fold or a
quantifier, so no proof needed an induction over data.

## 6. Not modelled

* Time: the two seconds of the debounce, the lifetime of a token beyond "it has expired",
  socket.io's heartbeat. What is due may happen at any moment.
* Contents: bytes, base64, Yjs structs; the version the browser sends (nothing reads it,
  the check at `document.service.ts:89-93` is commented out).
* The double effects of React's StrictMode (development builds), garbage collection of
  the query cache, pages that do not mount the editor.
* `sendUpdateToUser`, `getConnectionStats`, `handlePing`, `logout`, the second `@Get()` of
  the document controller: no caller, or no state.
* The translation of filter operators to SQL and of include options (`filter.service.ts`,
  `meta.ts`), and the `props` and `array` forms of the validation options: conversions
  whose result no other component's state depends on.
* The Consul client (`config/consul`), which nothing uses; the casts of configuration
  values and their copies in `process.env`; the column `hex` of the migrations, which is
  stored and compared by nothing that changes the schema.
* The whiteboard, files and image modules: stubs over mock data, with no state that
  outlives a call.
* Request plumbing (validation pipe, logging, outgoing HTTP), rendering and wording:
  conversions and input/output without shared state.
* Generated and vendored code.

## 7. Plan

Done: every component of section 1 but the last row; the proofs of every invariant and
safety property of the runs, and of the refinement.

Next, in this order:

1. More properties of steps: the order in which a handler of the service, a callback and a
   command come to their end, as `CallsDoNotLoop` has it for `SequencedContent`.
2. `SignIn` composed with `EditorSession`: a tab whose token another form has replaced
   saves into the other account's document.
3. The translation of filters, against a reference definition.
