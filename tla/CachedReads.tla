---------------------------- MODULE CachedReads ----------------------------
(***************************************************************************)
(* CachedReads: CacheService with its lazy client (backend/libs/shared/    *)
(* src/cache) and the decorators Store and Purge                           *)
(* (decorator/cache.decorator.ts), around a method that reads one record   *)
(* and one that writes it.  Each await is an action.                       *)
(***************************************************************************)
EXTENDS Naturals

CONSTANTS
    Reader,     \* calls of the stored method
    Writer,     \* calls of the purging method; each writes its own value
    Ttl,        \* values of Store's option, in milliseconds
    Nil         \* no value, no client

ASSUME CachedReadsAssumption ==
    Ttl \subseteq Nat /\ Nil \notin Writer \cup Reader /\ Reader \cap Writer = {}

VARIABLES
    ttl,        \* the option the method is decorated with
    record,     \* the record: the writer it is of, or Nil before the first
    entry,      \* the key in Redis: [of |-> a value of record], or Nil
    open,       \* clients that are connected; a client is who created it
    latest,     \* Redis.client
    client,     \* CacheService.client
    at,         \* call -> the await it stands at
    value       \* Reader -> what it has read of the record

(* History variables: no action reads them.                                *)
VARIABLES
    crossed,    \* the entry was set with a write under way or over
    doubled     \* a call began to connect while another did

cacheVars == <<ttl, record, entry, open, latest, client, at, value, crossed, doubled>>

Caller == Reader \cup Writer

Value == Writer \cup {Nil}

CachedReadsTypeOK ==
    /\ ttl \in Ttl
    /\ record \in Value
    /\ entry \in [of : Writer] \cup {Nil}
    /\ open \subseteq Caller
    /\ latest \in Caller \cup {Nil} /\ client \in Caller \cup {Nil}
    /\ at \in [Caller -> {"idle", "connect", "get", "read", "set",
                          "scan", "del", "write", "done", "error"}]
    /\ value \in [Reader -> Value]
    /\ crossed \in BOOLEAN /\ doubled \in BOOLEAN

CachedReadsInit ==
    /\ ttl \in Ttl
    /\ record = Nil /\ entry = Nil
    /\ open = {} /\ latest = Nil /\ client = Nil
    /\ at = [c \in Caller |-> "idle"]
    /\ value = [r \in Reader |-> Nil]
    /\ crossed = FALSE /\ doubled = FALSE

-----------------------------------------------------------------------------
(* A definition whose name ends in _Bug is a plausible mistake in the      *)
(* definition after it; no specification uses it.                          *)

Move(c, label) == at' = [at EXCEPT ![c] = label]

FirstCommand(c) == IF c \in Reader THEN "get" ELSE "scan"

(* Every call connects for itself.                                         *)
Conn_Bug(c) ==
    /\ at[c] = "idle"
    /\ latest' = c /\ open' = open \cup {c}
    /\ Move(c, "connect")
    /\ UNCHANGED <<ttl, record, entry, client, value, crossed, doubled>>

(* conn: without a client, one is created and waited for.                  *)
Conn(c) ==
    /\ at[c] = "idle"
    /\ IF client # Nil
       THEN Move(c, FirstCommand(c)) /\ UNCHANGED <<open, latest, doubled>>
       ELSE /\ latest' = c /\ open' = open \cup {c}
            /\ doubled' = (doubled \/ \E d \in Caller : at[d] = "connect")
            /\ Move(c, "connect")
    /\ UNCHANGED <<ttl, record, entry, client, value, crossed>>

(* The client taken is the one created last, by whomever.                  *)
Connected(c) ==
    /\ at[c] = "connect"
    /\ client' = latest
    /\ Move(c, FirstCommand(c))
    /\ UNCHANGED <<ttl, record, entry, open, latest, value, crossed, doubled>>

-----------------------------------------------------------------------------
(* Store                                                                   *)

Get(r) ==
    /\ at[r] = "get"
    /\ IF entry # Nil
       THEN value' = [value EXCEPT ![r] = entry.of] /\ Move(r, "done")
       ELSE Move(r, "read") /\ UNCHANGED value
    /\ UNCHANGED <<ttl, record, entry, open, latest, client, crossed, doubled>>

(* The original; an empty result is not stored.                            *)
Original(r) ==
    /\ at[r] = "read"
    /\ value' = [value EXCEPT ![r] = record]
    /\ Move(r, IF record = Nil THEN "done" ELSE "set")
    /\ UNCHANGED <<ttl, record, entry, open, latest, client, crossed, doubled>>

Accepted_Bug(t) == TRUE

(* EX is ttl / 1000; Redis takes whole seconds above zero.                 *)
Accepted(t) == t > 0 /\ t % 1000 = 0

Set(r) ==
    /\ at[r] = "set"
    /\ IF Accepted(ttl)
       THEN /\ entry' = [of |-> value[r]]
            /\ crossed' = (value[r] # record \/ \E w \in Writer : at[w] \in {"del", "write"})
            /\ Move(r, "done")
       ELSE Move(r, "error") /\ UNCHANGED <<entry, crossed>>
    /\ UNCHANGED <<ttl, record, open, latest, client, value, doubled>>

Expire ==
    /\ entry # Nil
    /\ entry' = Nil /\ crossed' = FALSE
    /\ UNCHANGED <<ttl, record, open, latest, client, at, value, doubled>>

-----------------------------------------------------------------------------
(* Purge: scan, del of what was found, and only then the original.         *)
Scan(w) ==
    /\ at[w] = "scan"
    /\ Move(w, IF entry # Nil THEN "del" ELSE "write")
    /\ UNCHANGED <<ttl, record, entry, open, latest, client, value, crossed, doubled>>

(* The answer of the scan is not used.                                     *)
Del_Bug(w) ==
    /\ at[w] = "del"
    /\ Move(w, "write")
    /\ UNCHANGED <<ttl, record, entry, open, latest, client, value, crossed, doubled>>

Del(w) ==
    /\ at[w] = "del"
    /\ entry' = Nil /\ crossed' = FALSE
    /\ Move(w, "write")
    /\ UNCHANGED <<ttl, record, open, latest, client, value, doubled>>

Write(w) ==
    /\ at[w] = "write"
    /\ record' = w
    /\ Move(w, "done")
    /\ UNCHANGED <<ttl, entry, open, latest, client, value, crossed, doubled>>

CacheStep(c) ==
    \/ Conn(c) \/ Connected(c)
    \/ c \in Reader /\ (Get(c) \/ Original(c) \/ Set(c))
    \/ c \in Writer /\ (Scan(c) \/ Del(c) \/ Write(c))

CachedReadsNext == (\E c \in Caller : CacheStep(c)) \/ Expire

-----------------------------------------------------------------------------
(* The entry is the record, unless it was set by a read that a write       *)
(* overtook: Purge runs before the write, and nothing purges after it.     *)
StaleOnlyIfCrossed == entry # Nil /\ entry.of # record => crossed

(* One connection is opened, unless two first calls connect at once; then  *)
(* every client but the one in use stays open and unused.                  *)
OneClientUnlessDoubled ==
    /\ \A c, d \in open : c = d \/ doubled
    /\ client # Nil => client \in open

(* A ttl of no whole seconds makes every read of a record fail, after the  *)
(* record has been read; no other does.                                    *)
RefusedTtlFailsReads ==
    LET refused == ttl = 0 \/ ttl % 1000 # 0
    IN /\ (\E r \in Reader : at[r] = "error") => refused
       /\ refused => entry = Nil /\ \A r \in Reader : at[r] = "done" => value[r] = Nil

(* The cache in one: what it holds, who connects, what is refused.         *)
CacheIsSound == StaleOnlyIfCrossed /\ OneClientUnlessDoubled /\ RefusedTtlFailsReads

=============================================================================
