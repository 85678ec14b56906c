--------------------------- MODULE EditorSession ----------------------------
(***************************************************************************)
(* EditorSession: the browser tabs of one account and the document they    *)
(* share through the backend: EditorProvider (frontend/src/editor/         *)
(* context.tsx), useDocumentSync, DocumentSyncService, the query and the   *)
(* mutation of hooks/document, over getDocument, createDocument and        *)
(* updateDocument as a tab sees them.                                      *)
(*                                                                         *)
(* A tab is one page with one query cache; the editor may be mounted in it *)
(* more than once.  A Yjs document is the set of what was inserted into    *)
(* it, and merging an update is union: the blocks initEditor adds at every *)
(* mount are one element, a stroke the user draws is another.  A save      *)
(* carries the whole document.                                             *)
(*                                                                         *)
(* A call may fail or its answer may be lost at any point: the network,    *)
(* the gateway (an update that arrives before the handshake is over), the  *)
(* service or a restart of it.  The tab learns nothing of a failed save,   *)
(* it listens to neither "error" nor "updateAcknowledged".                 *)
(***************************************************************************)
EXTENDS Integers

CONSTANTS
    Tab,        \* browser tabs
    Stroke,     \* user edits, each drawn at most once
    DocId,      \* uuids of document rows
    MaxMounts,  \* how often the editor is mounted in a tab
    None        \* no row, no document in the query, no author

Mount == Tab \X (1..MaxMounts)

Element == Stroke \cup Mount

ASSUME ConstantsAssumption ==
    /\ MaxMounts \in Nat
    /\ \A s \in (SUBSET Element) \cup Mount : s # None
    /\ Stroke \cap Mount = {}

VARIABLES
    mounts,     \* Tab -> mounts of the editor so far
    mounted,    \* tabs that show the editor
    ydoc,       \* Tab -> the elements of editor.doc.spaceDoc
    query,      \* Tab -> documentData.data.documentData, or None
    effect,     \* Tab -> the query as the provider's effect last ran with it
    hasCreated, \* tabs whose hasCreatedRef is set
    listeners,  \* Tab -> DocumentSyncServices subscribed to the document
    timer,      \* tabs with a save scheduled
    online,     \* tabs whose socket is connected
    fetch,      \* Tab -> "idle", "asked" or "answered"
    found       \* Tab -> what the answer to the query holds

VARIABLES
    rows,       \* DocId -> [by, state] in the table documents, or None
    posts,      \* creates under way: [by, at, state]
    saves       \* updates under way: [by, turn, state]

(* History variables: no action reads them.                                *)
VARIABLES
    author,     \* Stroke -> the mount it was drawn in, or None
    turns,      \* Tab -> saves so far, which only tells saves apart
    handed,     \* Tab -> the document as the tab last handed it over
    dropped     \* tabs whose last save fell on a closed socket

page    == <<mounts, mounted, ydoc, hasCreated, listeners, timer, online>>
fetched == <<query, effect, fetch, found>>
server  == <<rows, posts, saves>>
history == <<author, turns, handed, dropped>>
vars    == <<page, fetched, server, history>>

State == SUBSET Element

TypeOK ==
    /\ mounts \in [Tab -> 0..MaxMounts]
    /\ mounted \in SUBSET Tab
    /\ ydoc \in [Tab -> State]
    /\ query \in [Tab -> {None} \cup State]
    /\ effect \in [Tab -> {None} \cup State]
    /\ hasCreated \in SUBSET Tab
    /\ listeners \in [Tab -> Nat]
    /\ timer \in SUBSET Tab
    /\ online \in SUBSET Tab
    /\ fetch \in [Tab -> {"idle", "asked", "answered"}]
    /\ found \in [Tab -> {None} \cup State]
    /\ rows \in [DocId -> [by : Mount, state : State] \cup {None}]
    /\ posts \in SUBSET [by : Mount, at : {"asked", "checked", "stored"}, state : State]
    /\ saves \in SUBSET [by : Mount, turn : Nat, state : State]
    /\ author \in [Stroke -> Mount \cup {None}]
    /\ turns \in [Tab -> Nat]
    /\ handed \in [Tab -> State]
    /\ dropped \in SUBSET Tab

Init ==
    /\ mounts = [t \in Tab |-> 0]
    /\ mounted = {}
    /\ ydoc = [t \in Tab |-> {}]
    /\ query = [t \in Tab |-> None]
    /\ effect = [t \in Tab |-> None]
    /\ hasCreated = {}
    /\ listeners = [t \in Tab |-> 0]
    /\ timer = {}
    /\ online = {}
    /\ fetch = [t \in Tab |-> "idle"]
    /\ found = [t \in Tab |-> None]
    /\ rows = [d \in DocId |-> None]
    /\ posts = {}
    /\ saves = {}
    /\ author = [x \in Stroke |-> None]
    /\ turns = [t \in Tab |-> 0]
    /\ handed = [t \in Tab |-> {}]
    /\ dropped = {}

-----------------------------------------------------------------------------
(* The editor.  A definition whose name ends in _Bug is a plausible        *)
(* mistake in the definition after it; no specification uses it.           *)

(* The mount a tab shows.                                                  *)
Current(t) == <<t, mounts[t]>>

(* Without doc.destroy() the services stay subscribed.                     *)
Load_Bug(t, y) ==
    /\ ydoc' = [ydoc EXCEPT ![t] = y \cup query[t]]
    /\ listeners' = [listeners EXCEPT ![t] = @ + 1]
    /\ UNCHANGED <<hasCreated, posts, handed, dropped>>

(* loadDocument destroys editor.doc.spaceDoc, which takes every listener   *)
(* off it, the new service's among them, and then applies the update.      *)
Load(t, y) ==
    /\ ydoc' = [ydoc EXCEPT ![t] = y \cup query[t]]
    /\ listeners' = [listeners EXCEPT ![t] = 0]
    /\ UNCHANGED <<hasCreated, posts, handed, dropped>>

(* The editor's own document is posted and gets a service.                 *)
Create(t, p, y) ==
    /\ posts' = posts \cup {[by |-> p, at |-> "asked", state |-> y]}
    /\ hasCreated' = hasCreated \cup {t}
    /\ ydoc' = [ydoc EXCEPT ![t] = y]
    /\ listeners' = [listeners EXCEPT ![t] = @ + 1]
    /\ handed' = [handed EXCEPT ![t] = y]
    /\ dropped' = dropped \ {t}

(* The provider's effect in the mount p whose document is y: it loads what *)
(* the query holds, creates once per mount, or does nothing.  The cleanup  *)
(* of its last run comes first: a service that is still subscribed is that *)
(* run's, and its timer goes.                                              *)
Provide(t, p, y) ==
    /\ effect' = [effect EXCEPT ![t] = query[t]]
    /\ timer' = timer \ {t}
    /\ \/ query[t] # None /\ Load(t, y)
       \/ query[t] = None /\ t \notin hasCreated /\ Create(t, p, y)
       \/ /\ query[t] = None /\ t \in hasCreated
          /\ UNCHANGED <<ydoc, listeners, hasCreated, posts, handed, dropped>>

(* initEditor makes a document with a page of its own; the query is asked  *)
(* unless it is under way, and the effect runs with what the cache holds.  *)
Open(t) ==
    /\ t \notin mounted /\ mounts[t] < MaxMounts
    /\ mounted' = mounted \cup {t}
    /\ mounts' = [mounts EXCEPT ![t] = @ + 1]
    /\ Provide(t, <<t, mounts[t] + 1>>, {<<t, mounts[t] + 1>>})
    /\ fetch' = [fetch EXCEPT ![t] = IF @ = "idle" THEN "asked" ELSE @]
    /\ UNCHANGED <<online, query, found, rows, saves, author, turns>>

(* React runs the effect again once documentData.data.documentData is      *)
(* another object; an answer with equal content is the same object.        *)
Rerun(t) ==
    /\ t \in mounted
    /\ effect[t] # query[t]
    /\ Provide(t, Current(t), ydoc[t])
    /\ UNCHANGED <<mounts, mounted, online, query, fetch, found, rows, saves, author, turns>>

(* The cleanup takes a listener off that loading has already destroyed.    *)
Leave_Bug(t) ==
    /\ t \in mounted
    /\ mounted' = mounted \ {t}
    /\ ydoc' = [ydoc EXCEPT ![t] = {}]
    /\ hasCreated' = hasCreated \ {t}
    /\ listeners' = [listeners EXCEPT ![t] = @ - 1]
    /\ timer' = timer \ {t}
    /\ online' = online \ {t}
    /\ effect' = [effect EXCEPT ![t] = None]
    /\ handed' = [handed EXCEPT ![t] = {}]
    /\ dropped' = dropped \ {t}
    /\ UNCHANGED <<mounts, query, fetch, found, server, author, turns>>

(* The editor goes: the cleanup drops the save that is scheduled, and the  *)
(* document with what was drawn in it.  The query cache stays.             *)
Leave(t) ==
    /\ t \in mounted
    /\ mounted' = mounted \ {t}
    /\ ydoc' = [ydoc EXCEPT ![t] = {}]
    /\ hasCreated' = hasCreated \ {t}
    /\ listeners' = [listeners EXCEPT ![t] = 0]
    /\ timer' = timer \ {t}
    /\ online' = online \ {t}
    /\ effect' = [effect EXCEPT ![t] = None]
    /\ handed' = [handed EXCEPT ![t] = {}]
    /\ dropped' = dropped \ {t}
    /\ UNCHANGED <<mounts, query, fetch, found, server, author, turns>>

(* The edit is not scheduled while a save of the tab is on its way.        *)
Draw_Bug(t, x) ==
    /\ t \in mounted /\ author[x] = None
    /\ ydoc' = [ydoc EXCEPT ![t] = @ \cup {x}]
    /\ author' = [author EXCEPT ![x] = Current(t)]
    /\ timer' = IF listeners[t] > 0 /\ \A m \in saves : m.by # Current(t)
                THEN timer \cup {t} ELSE timer
    /\ UNCHANGED <<mounts, mounted, hasCreated, listeners, online, fetched, server,
                   turns, handed, dropped>>

(* The update event reaches whatever is subscribed; debouncedSave starts   *)
(* its timer anew.                                                         *)
Draw(t, x) ==
    /\ t \in mounted /\ author[x] = None
    /\ ydoc' = [ydoc EXCEPT ![t] = @ \cup {x}]
    /\ author' = [author EXCEPT ![x] = Current(t)]
    /\ timer' = IF listeners[t] > 0 THEN timer \cup {t} ELSE timer
    /\ UNCHANGED <<mounts, mounted, hasCreated, listeners, online, fetched, server,
                   turns, handed, dropped>>

(* saveDocument and sendUpdate: the whole document goes out, or nowhere    *)
(* when the socket is not connected, and is not tried again.               *)
FireTimer(t) ==
    /\ t \in timer
    /\ timer' = timer \ {t}
    /\ turns' = [turns EXCEPT ![t] = @ + 1]
    /\ IF t \in online
       THEN /\ saves' = saves \cup {[by |-> Current(t), turn |-> turns[t], state |-> ydoc[t]]}
            /\ handed' = [handed EXCEPT ![t] = ydoc[t]]
            /\ dropped' = dropped \ {t}
       ELSE /\ dropped' = dropped \cup {t}
            /\ UNCHANGED <<saves, handed>>
    /\ UNCHANGED <<mounts, mounted, ydoc, hasCreated, listeners, online, fetched,
                   rows, posts, author>>

(* The socket connects and reconnects on its own.                          *)
GoOnline(t) ==
    /\ t \in mounted \ online
    /\ online' = online \cup {t}
    /\ UNCHANGED <<mounts, mounted, ydoc, hasCreated, listeners, timer, fetched, server, history>>

GoOffline(t) ==
    /\ t \in online
    /\ online' = online \ {t}
    /\ UNCHANGED <<mounts, mounted, ydoc, hasCreated, listeners, timer, fetched, server, history>>

-----------------------------------------------------------------------------
(* The query: GET /document                                                *)

(* The query is asked again after a failure and when the browser is back   *)
(* on the network.                                                         *)
Refetch(t) ==
    /\ t \in mounted /\ fetch[t] = "idle"
    /\ fetch' = [fetch EXCEPT ![t] = "asked"]
    /\ UNCHANGED <<page, query, effect, found, server, history>>

Rows == {d \in DocId : rows[d] # None}

(* getDocument: any row of the account, or null.                           *)
FindOne == IF Rows = {} THEN {None} ELSE {rows[d].state : d \in Rows}

AnswerFetch(t) ==
    /\ fetch[t] = "asked"
    /\ fetch' = [fetch EXCEPT ![t] = "answered"]
    /\ \E q \in FindOne : found' = [found EXCEPT ![t] = q]
    /\ UNCHANGED <<page, query, effect, server, history>>

(* The answer replaces what the cache holds, older or newer.               *)
Fetched(t) ==
    /\ fetch[t] = "answered"
    /\ fetch' = [fetch EXCEPT ![t] = "idle"]
    /\ query' = [query EXCEPT ![t] = found[t]]
    /\ found' = [found EXCEPT ![t] = None]
    /\ UNCHANGED <<page, effect, server, history>>

FetchFails(t) ==
    /\ fetch[t] # "idle"
    /\ fetch' = [fetch EXCEPT ![t] = "idle"]
    /\ found' = [found EXCEPT ![t] = None]
    /\ UNCHANGED <<page, query, effect, server, history>>

-----------------------------------------------------------------------------
(* The create: POST /document                                              *)

Become(p, label) == posts' = (posts \ {p}) \cup {[p EXCEPT !.at = label]}

(* createDocument answers with a document that exists; otherwise it goes   *)
(* on to insert one, and another create may come between.                  *)
CheckPost(p) ==
    /\ p.at = "asked"
    /\ Become(p, IF Rows = {} THEN "checked" ELSE "stored")
    /\ UNCHANGED <<page, fetched, rows, saves, history>>

InsertPost(p) ==
    /\ p.at = "checked"
    /\ \E d \in DocId \ Rows :
         rows' = [rows EXCEPT ![d] = [by |-> p.by, state |-> p.state]]
    /\ Become(p, "stored")
    /\ UNCHANGED <<page, fetched, saves, history>>

(* onSuccess puts the body where the query keeps a response: the document  *)
(* is then looked for in body.data, which is not there.                    *)
Created(p) ==
    /\ p.at = "stored"
    /\ posts' = posts \ {p}
    /\ query' = [query EXCEPT ![p.by[1]] = None]
    /\ UNCHANGED <<page, effect, fetch, found, rows, saves, history>>

PostFails(p) ==
    /\ posts' = posts \ {p}
    /\ UNCHANGED <<page, fetched, rows, saves, history>>

-----------------------------------------------------------------------------
(* The update: the event updateDocument of the socket                      *)

(* What another tab takes from documentUpdated: the payload is the object  *)
(* the saving tab sent, { data: { updateData } }, which atob refuses.      *)
Decoded(m) == {}

(* updateDocument overwrites a row with the state the save carries; the    *)
(* gateway sends the save on to the other sockets of the account.          *)
ApplySave(m) ==
    /\ \E d \in Rows :
         rows' = [rows EXCEPT ![d] = [by |-> m.by, state |-> m.state]]
    /\ saves' = saves \ {m}
    /\ ydoc' = [t \in Tab |->
                  IF t \in (mounted \cap online) \ {m.by[1]}
                  THEN ydoc[t] \cup Decoded(m) ELSE ydoc[t]]
    /\ UNCHANGED <<mounts, mounted, hasCreated, listeners, timer, online, fetched,
                   posts, history>>

SaveFails(m) ==
    /\ saves' = saves \ {m}
    /\ UNCHANGED <<page, fetched, rows, posts, history>>

TabStep(t) ==
    \/ Open(t) \/ Rerun(t) \/ Leave(t)
    \/ \E x \in Stroke : Draw(t, x)
    \/ FireTimer(t) \/ GoOnline(t) \/ GoOffline(t)
    \/ Refetch(t) \/ AnswerFetch(t) \/ Fetched(t) \/ FetchFails(t)

Next ==
    \/ \E t \in Tab : TabStep(t)
    \/ \E p \in posts : CheckPost(p) \/ InsertPost(p) \/ Created(p) \/ PostFails(p)
    \/ \E m \in saves : ApplySave(m) \/ SaveFails(m)

Spec == Init /\ [][Next]_vars

(* A browser runs the timers that are due.  Every edit starts the timer    *)
(* anew, so this speaks of users who pause: an instance has finitely many  *)
(* strokes.                                                                *)
FairSpec == Spec /\ \A t \in Tab : WF_vars(FireTimer(t))

-----------------------------------------------------------------------------
(* Properties                                                              *)

(* One service at most saves a tab's document, a save is scheduled by that *)
(* service only, and there is none once the effect has run with a stored   *)
(* document (context.tsx:48-82, documentSync.ts:76-78).                    *)
OneSaver ==
    \A t \in Tab :
        /\ listeners[t] <= 1
        /\ t \in timer => listeners[t] = 1
        /\ effect[t] # None => listeners[t] = 0

(* While a service listens to a tab's document, whatever the tab shows has *)
(* been handed to the backend or is about to be, unless the last save fell *)
(* on a closed socket (documentSync.ts:29-46, useDocumentSync.ts:70-74).   *)
EditsHandedOver ==
    \A t \in Tab :
        listeners[t] > 0 /\ t \notin timer /\ t \notin dropped => handed[t] = ydoc[t]

(* What the mount p drew by itself.                                        *)
OwnWork(p) == {p} \cup {x \in Stroke : author[x] = p}

(* A mount that has loaded a document does not save and one that saves has *)
(* loaded none: the first mount of a tab never stores anything it did not  *)
(* draw itself, so what two tabs drew is not brought together in the       *)
(* store, although every tab merges what it loads.                         *)
NothingMergedIsStored ==
    \A d \in Rows : rows[d].by[2] = 1 => rows[d].state \subseteq OwnWork(rows[d].by)

(* An edit made while a service listens reaches the backend or falls on a  *)
(* closed socket, unless the tab loads a document or closes first.         *)
EditsLeaveTheTab ==
    \A t \in Tab, x \in Stroke :
        x \in ydoc[t] /\ listeners[t] > 0
            ~> x \in handed[t] \/ t \in dropped \/ listeners[t] = 0

-----------------------------------------------------------------------------
(* What the sources say of the tabs and the tabs do not do                 *)

(* document.gateway.ts:117-118, "send to ALL clients of this user ... this *)
(* matters for synchronisation between tabs": a save that is stored shows  *)
(* in every other open tab.                                                *)
SavesReachOtherTabs ==
    [][\A m \in saves \ saves', t \in Tab :
         (\E d \in DocId : rows'[d] # rows[d])
            /\ t \in (mounted \cap online) \ {m.by[1]}
            => m.state \subseteq ydoc'[t]]_vars

=============================================================================
