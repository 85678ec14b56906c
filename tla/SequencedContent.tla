-------------------------- MODULE SequencedContent --------------------------
(***************************************************************************)
(* SequencedContent: order, contentOrder, processContent, processRel and   *)
(* upsert of CommonService (backend/libs/shared/src/sequelize/             *)
(* common.service.ts) under the Transaction decorator                      *)
(* (decorator/sequelize.decorator.ts).                                     *)
(*                                                                         *)
(* One table of rows that belong to a source and have a place in its       *)
(* sequence: contents with uuids of their own, or pairs of a relation.  A  *)
(* call is one transaction, upsert excepted; each of its statements waits  *)
(* while another transaction has written the row.  PostgreSQL reads READ   *)
(* UNCOMMITTED as READ COMMITTED, queues the statements of one             *)
(* connection, and aborts one of those that wait in a circle.              *)
(***************************************************************************)
EXTENDS Naturals, Sequences, FiniteSets, SequencesExt, Relation

CONSTANTS
    Call,       \* calls of the service; each is one transaction
    Source,     \* what the rows belong to
    Asked,      \* the sources that calls name; a bound
    Row,        \* uuids of contents, or pairs of a relation
    MaxItems,   \* the longest list in a call
    None,       \* no row, no call
    Same        \* a row the transaction has not written

Position == 0 .. MaxItems

Content == [source : Source, sequence : Position]

(* There are finitely many uuids; upsert gives its row the place 1.        *)
ASSUME ConstantsAssumption ==
    /\ MaxItems \in Nat \ {0}
    /\ Asked \subseteq Source
    /\ IsFiniteSet(Row)
    /\ None \notin Row \cup Call \cup Content
    /\ Same \notin Content \cup {None}

VARIABLES
    kind,       \* "content" or "relation": what the table holds
    table,      \* Row -> its committed content, or None
    issued,     \* rows there have been; a uuid is never given out again
    pc,         \* Call -> where it is
    job,        \* Call -> its arguments, or None
    todo,       \* Call -> statements queued on its connection
    own         \* Call -> [Row -> what its transaction has written, or Same]

(* History variables: no action reads them.                                *)
VARIABLES
    wrote,      \* Call -> rows its committed transaction updated
    made,       \* Call -> rows it inserted
    last,       \* Row -> the call that wrote it last, or None
    removed,    \* rows that were deleted
    unsure,     \* calls whose commit was answered with an error
    raced       \* sources two upserts were inserting for

transaction == <<pc, job, todo, own>>
history     == <<wrote, made, last, removed, unsure, raced>>
vars        == <<kind, table, issued, transaction, history>>

Statement == [do : {"update", "delete", "insert", "clear"}, row : Row \cup {None},
              sequence : Position]

Lists == UNION {[1 .. n -> Row] : n \in 1 .. MaxItems}

Ordering == [op : {"order", "contentOrder"}, source : Source, items : Lists]

Process == [op : {"process"}, source : Source, remove : SUBSET Row,
            add : SUBSET (Row \cup {None}), update : SUBSET Row, base : BOOLEAN]

Upsert == [op : {"upsert"}, source : Source, sequence : Position]

Active == {"check", "work", "commit", "find", "insert", "update"}

TypeOK ==
    /\ kind \in {"content", "relation"}
    /\ table \in [Row -> Content \cup {None}]
    /\ issued \in SUBSET Row
    /\ pc \in [Call -> {"idle", "done", "error"} \cup Active]
    /\ job \in [Call -> Ordering \cup Process \cup Upsert \cup {None}]
    /\ todo \in [Call -> Seq(Statement)]
    /\ own \in [Call -> [Row -> Content \cup {None, Same}]]
    /\ wrote \in [Call -> SUBSET Row] /\ made \in [Call -> SUBSET Row]
    /\ last \in [Row -> Call \cup {None}]
    /\ removed \in SUBSET Row /\ unsure \in SUBSET Call /\ raced \in SUBSET Source

Untouched == [r \in Row |-> Same]

Init ==
    /\ kind \in {"content", "relation"}
    /\ table \in [Row -> [source : Source, sequence : {0}] \cup {None}]
    /\ issued = {r \in Row : table[r] # None}
    /\ pc = [c \in Call |-> "idle"]
    /\ job = [c \in Call |-> None]
    /\ todo = [c \in Call |-> <<>>]
    /\ own = [c \in Call |-> Untouched]
    /\ wrote = [c \in Call |-> {}] /\ made = [c \in Call |-> {}]
    /\ last = [r \in Row |-> None]
    /\ removed = {} /\ unsure = {} /\ raced = {}

-----------------------------------------------------------------------------
(* A definition whose name ends in _Bug is a plausible mistake in the      *)
(* definition after it; no specification uses it.                          *)

Goto(c, label) == pc' = [pc EXCEPT ![c] = label]

(* A statement sees what is committed and what its transaction wrote.      *)
Seen(c, r) == IF own[c][r] # Same THEN own[c][r] ELSE table[r]

SeenOf(c, s) == {r \in Row : Seen(c, r) # None /\ Seen(c, r).source = s}

(* The rows another transaction has written and not committed.             *)
LockedFor(c, r) == \E d \in Call \ {c} : own[d][r] # Same

Do(what, r, n) == [do |-> what, row |-> r, sequence |-> n]

Each(what, S) == [i \in 1 .. Cardinality(S) |-> Do(what, SetToSeq(S)[i], 0)]

(* The Promise.all of order and contentOrder: the list gives the places.   *)
Updates(items) == [i \in DOMAIN items |-> Do("update", items[i], i)]

(* The removal of everything first.                                        *)
Changes_Bug(j) ==
    (IF j.base THEN <<Do("clear", None, 0)>> ELSE <<>>)
        \o Each("delete", j.remove) \o Each("insert", j.add) \o Each("update", j.update)

(* processContent and processRel: remove, add, update, and the removal of  *)
(* everything of the source last.                                          *)
Changes(j) ==
    Each("delete", j.remove) \o Each("insert", j.add) \o Each("update", j.update)
        \o (IF j.base THEN <<Do("clear", None, 0)>> ELSE <<>>)

-----------------------------------------------------------------------------
(* The calls.  The decorator opens the transaction.                        *)
Begin(c, j, label, statements) ==
    /\ pc[c] = "idle"
    /\ job' = [job EXCEPT ![c] = j]
    /\ todo' = [todo EXCEPT ![c] = statements]
    /\ Goto(c, label)
    /\ UNCHANGED <<kind, table, issued, own, history>>

CallOrder(c) ==
    \E s \in Asked, items \in Lists :
        Begin(c, [op |-> IF kind = "content" THEN "order" ELSE "contentOrder",
                  source |-> s, items |-> items], "check", <<>>)

(* Bound: as long as there are uuids for every call under way.             *)
UuidsLeft == Cardinality({c \in Call : pc[c] \in Active}) < Cardinality(Row \ issued)

(* What is added to a table of contents has no uuid yet; a relation's      *)
(* update does not exist.                                                  *)
CallProcess(c) ==
    \E s \in Asked, base \in BOOLEAN, remove, add, update \in {{}} \cup {{r} : r \in Row} :
        /\ kind = "content" /\ add # {} => UuidsLeft
        /\ LET j == [op |-> "process", source |-> s, remove |-> remove, base |-> base,
                      add |-> IF kind = "content" /\ add # {} THEN {None} ELSE add,
                      update |-> IF kind = "content" THEN update ELSE {}]
           IN Begin(c, j, "work", Changes(j))

CallUpsert(c) ==
    /\ kind = "content" /\ UuidsLeft
    /\ \E s \in Asked : Begin(c, [op |-> "upsert", source |-> s, sequence |-> 1], "find", <<>>)

-----------------------------------------------------------------------------
(* The findAll of order and its assertion.                                 *)
CheckPasses_Bug(c) == TRUE

(* order counts the rows of the source that are named: a name twice, or    *)
(* one of nothing, leaves it short.  contentOrder counts the answers, the  *)
(* nulls among them, which are always as many as the questions.            *)
CheckPasses(c) ==
    LET items == job[c].items
    IN job[c].op = "order" =>
          Cardinality({r \in SeenOf(c, job[c].source) : \E i \in DOMAIN items : items[i] = r})
              = Len(items)

(* The decorator forgets to end the transaction of a call that throws.     *)
Rollback_Bug(c) ==
    /\ Goto(c, "error")
    /\ todo' = [todo EXCEPT ![c] = <<>>]
    /\ UNCHANGED <<kind, table, issued, job, own, history>>

(* The decorator's catch: rollback, and the error goes on.                 *)
Rollback(c) ==
    /\ Goto(c, "error")
    /\ todo' = [todo EXCEPT ![c] = <<>>]
    /\ own' = [own EXCEPT ![c] = Untouched]
    /\ UNCHANGED <<kind, table, issued, job, history>>

Check(c) ==
    /\ pc[c] = "check"
    /\ IF CheckPasses(c)
       THEN /\ todo' = [todo EXCEPT ![c] = Updates(job[c].items)]
            /\ Goto(c, "work")
            /\ UNCHANGED <<kind, table, issued, job, own, history>>
       ELSE Rollback(c)

Write(c, r, value) == own' = [own EXCEPT ![c][r] = value]

Head1(c) == Head(todo[c])

Next1(c) == todo' = [todo EXCEPT ![c] = Tail(@)]

(* order's update has the uuid in its filter, the others the source too.   *)
Meets(c, r) ==
    Seen(c, r) # None /\ (job[c].op # "order" => Seen(c, r).source = job[c].source)

(* The statement is sent without the transaction and commits at once.      *)
UpdateRow_Bug(c) ==
    /\ pc[c] = "work" /\ todo[c] # <<>> /\ Head1(c).do = "update"
    /\ LET r == Head1(c).row
       IN IF table[r] # None /\ Meets(c, r)
          THEN /\ ~LockedFor(c, r)
               /\ table' = [table EXCEPT ![r].sequence = Head1(c).sequence]
               /\ last' = [last EXCEPT ![r] = c]
               /\ wrote' = [wrote EXCEPT ![c] = @ \cup {r}]
          ELSE UNCHANGED <<table, last, wrote>>
    /\ Next1(c)
    /\ UNCHANGED <<kind, issued, pc, job, own, made, removed, unsure, raced>>

(* An UPDATE.  Nobody looks whether it met a row.                          *)
UpdateRow(c) ==
    /\ pc[c] = "work" /\ todo[c] # <<>> /\ Head1(c).do = "update"
    /\ LET r == Head1(c).row
       IN IF Meets(c, r)
          THEN ~LockedFor(c, r) /\ Write(c, r, [Seen(c, r) EXCEPT !.sequence = Head1(c).sequence])
          ELSE UNCHANGED own
    /\ Next1(c)
    /\ UNCHANGED <<kind, table, issued, pc, job, history>>

(* service.remove deletes by uuid, the relation's destroy by both keys.    *)
DeleteRow(c) ==
    /\ pc[c] = "work" /\ todo[c] # <<>> /\ Head1(c).do = "delete"
    /\ LET r == Head1(c).row
           met == Seen(c, r) # None
               /\ (kind = "relation" => Seen(c, r).source = job[c].source)
       IN IF met THEN ~LockedFor(c, r) /\ Write(c, r, None) ELSE UNCHANGED own
    /\ Next1(c)
    /\ UNCHANGED <<kind, table, issued, pc, job, history>>

(* An INSERT: a new uuid, or a pair that the key refuses when it is there. *)
InsertRow(c) ==
    /\ pc[c] = "work" /\ todo[c] # <<>> /\ Head1(c).do = "insert"
    /\ LET new == [source |-> job[c].source, sequence |-> 0]
       IN \/ /\ kind = "content"
             /\ \E r \in Row \ issued :
                  Write(c, r, new) /\ issued' = issued \cup {r}
             /\ Next1(c)
             /\ UNCHANGED <<kind, table, pc, job, history>>
          \/ /\ kind = "relation" /\ ~LockedFor(c, Head1(c).row)
             /\ IF Seen(c, Head1(c).row) = None
                THEN /\ Write(c, Head1(c).row, new) /\ Next1(c)
                     /\ UNCHANGED <<kind, table, issued, pc, job, history>>
                ELSE Rollback(c)

(* removeBaseRel: a DELETE of the rows of the source it sees, in the order *)
(* the table happens to have.                                              *)
ClearSource(c) ==
    /\ pc[c] = "work" /\ todo[c] # <<>> /\ Head1(c).do = "clear"
    /\ \E rows \in SetToSeqs(SeenOf(c, job[c].source)) :
         todo' = [todo EXCEPT ![c] = [i \in DOMAIN rows |-> Do("delete", rows[i], 0)] \o Tail(@)]
    /\ UNCHANGED <<kind, table, issued, pc, job, own, history>>

Finish(c) ==
    /\ pc[c] = "work" /\ todo[c] = <<>>
    /\ Goto(c, "commit")
    /\ UNCHANGED <<kind, table, issued, job, todo, own, history>>

(* What a transaction wrote becomes the table's, and its locks go.         *)
Publish(c) ==
    LET written == {r \in Row : own[c][r] # Same}
        kept    == {r \in written : own[c][r] # None}
    IN /\ table' = [r \in Row |-> Seen(c, r)]
       /\ own' = [own EXCEPT ![c] = Untouched]
       /\ last' = [r \in Row |-> IF r \in written THEN c ELSE last[r]]
       /\ wrote' = [wrote EXCEPT ![c] = {r \in kept : table[r] # None}]
       /\ made' = [made EXCEPT ![c] = {r \in written : table[r] = None}]
       /\ removed' = removed \cup (written \ kept)

(* The commit; its answer may be an error although it took effect.         *)
Commit(c) ==
    /\ pc[c] = "commit"
    /\ Publish(c)
    /\ \/ Goto(c, "done") /\ UNCHANGED unsure
       \/ Goto(c, "error") /\ unsure' = unsure \cup {c}
    /\ UNCHANGED <<kind, issued, job, todo, raced>>

-----------------------------------------------------------------------------
(* The filter finds nothing of what is there.                              *)
UpsertFind_Bug(c) ==
    /\ pc[c] = "find"
    /\ Goto(c, "insert")
    /\ raced' = raced \cup {s \in Source : \E d \in Call :
                   pc[d] = "insert" /\ job[d].source = s /\ s = job[c].source}
    /\ UNCHANGED <<kind, table, issued, job, todo, own, wrote, made, last, removed, unsure>>

(* upsert, outside a transaction: findOne, then update or create.          *)
UpsertFind(c) ==
    /\ pc[c] = "find"
    /\ \/ /\ SeenOf(c, job[c].source) = {}
          /\ Goto(c, "insert")
          /\ raced' = raced \cup {s \in Source : \E d \in Call :
                         pc[d] = "insert" /\ job[d].source = s /\ s = job[c].source}
          /\ UNCHANGED todo
       \/ \E r \in SeenOf(c, job[c].source) :
             /\ todo' = [todo EXCEPT ![c] = <<Do("update", r, job[c].sequence)>>]
             /\ Goto(c, "update")
             /\ UNCHANGED raced
    /\ UNCHANGED <<kind, table, issued, job, own, wrote, made, last, removed, unsure>>

UpsertInsert(c) ==
    /\ pc[c] = "insert"
    /\ \E r \in Row \ issued :
         /\ table' = [table EXCEPT ![r] =
               [source |-> job[c].source, sequence |-> job[c].sequence]]
         /\ issued' = issued \cup {r}
         /\ made' = [made EXCEPT ![c] = {r}]
         /\ last' = [last EXCEPT ![r] = c]
    /\ Goto(c, "done")
    /\ UNCHANGED <<kind, job, todo, own, wrote, removed, unsure, raced>>

UpsertUpdate(c) ==
    /\ pc[c] = "update"
    /\ LET r == Head1(c).row
       IN IF table[r] # None
          THEN /\ ~LockedFor(c, r)
               /\ table' = [table EXCEPT ![r].sequence = Head1(c).sequence]
               /\ last' = [last EXCEPT ![r] = c]
               /\ wrote' = [wrote EXCEPT ![c] = {r}]
          ELSE UNCHANGED <<table, last, wrote>>
    /\ Next1(c) /\ Goto(c, "done")
    /\ UNCHANGED <<kind, issued, job, own, made, removed, unsure, raced>>

-----------------------------------------------------------------------------
(* c's next statement waits for a row d has written.                       *)
Waits(c, d) ==
    /\ c # d /\ pc[c] \in {"work", "update"} /\ todo[c] # <<>>
    /\ Head1(c).row # None /\ own[d][Head1(c).row] # Same

InCircle(c) ==
    /\ \E d \in Call : Waits(c, d)
    /\ TransitiveClosure([p \in Call \X Call |-> Waits(p[1], p[2])], Call)[<<c, c>>]

(* PostgreSQL's deadlock detector.                                         *)
BreakCircle(c) == InCircle(c) /\ Rollback(c)

(* A statement fails, or the connection does.                              *)
Fail(c) == pc[c] \in Active /\ Rollback(c)

Step(c) ==
    \/ Check(c) \/ UpdateRow(c) \/ DeleteRow(c) \/ InsertRow(c) \/ ClearSource(c)
    \/ Finish(c) \/ Commit(c)
    \/ UpsertFind(c) \/ UpsertInsert(c) \/ UpsertUpdate(c)
    \/ BreakCircle(c)

Next ==
    \E c \in Call : CallOrder(c) \/ CallProcess(c) \/ CallUpsert(c) \/ Step(c) \/ Fail(c)

Spec == Init /\ [][Next]_vars

(* The database answers; who waits in a circle is told so.                 *)
FairSpec == Spec /\ \A c \in Call : WF_vars(Step(c))

-----------------------------------------------------------------------------
(* Two calls that wrote the same two rows wrote them one after the other:  *)
(* the rows do not end with one place from each list.                      *)
NoMixedOrders ==
    \A c, d \in Call : \A r, q \in wrote[c] \cap wrote[d] :
        last[r] = c /\ last[q] = d => c = d

(* A call that is answered with an error has changed nothing, unless the   *)
(* error was the commit's.                                                 *)
ErrorsLeaveNothing ==
    \A c \in Call : pc[c] = "error" /\ c \notin unsure => \A r \in Row : last[r] # c

(* An order that is acknowledged has put each row it names in its place,   *)
(* or the row was removed between the check and the update.                *)
OrdersReachTheirRows ==
    \A c \in Call : pc[c] = "done" /\ job[c].op = "order" =>
        \A i \in DOMAIN job[c].items : job[c].items[i] \in wrote[c] \cup removed

(* What a call adds together with removeBaseRel does not stay.             *)
BaseRemovalTakesTheAdded ==
    \A c \in Call : pc[c] = "done" /\ job[c].op = "process" /\ job[c].base =>
        \A r \in made[c] : last[r] = c => table[r] = None

(* A call is told what happened, in a table of the declared shape.         *)
CallsAreToldTheTruth ==
    TypeOK /\ ErrorsLeaveNothing /\ OrdersReachTheirRows /\ BaseRemovalTakesTheAdded

(* A source that had no row has at most one after upserts alone, unless    *)
(* two of them found nothing before either had inserted.                   *)
UpsertsMeet ==
    \A s \in Source : s \notin raced =>
        \A c, d \in Call : \A r \in made[c], q \in made[d] :
            /\ job[c].op = "upsert" /\ job[d].op = "upsert"
            /\ table[r] # None /\ table[r].source = s
            /\ table[q] # None /\ table[q].source = s
            => r = q

(* Every call ends, whatever waits for whatever.                           *)
CallsEnd == \A c \in Call : pc[c] \in Active ~> pc[c] \in {"done", "error"}

=============================================================================
