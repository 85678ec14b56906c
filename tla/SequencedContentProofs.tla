----------------------- MODULE SequencedContentProofs -----------------------
(***************************************************************************)
(* Proofs about SequencedContent: its type invariant, NoMixedOrders,       *)
(* CallsAreToldTheTruth and UpsertsMeet, for any number of calls, rows and *)
(* sources and any length of list, with the inductive invariant they share.*)
(***************************************************************************)
EXTENDS SequencedContent, FiniteSetTheorems, SequenceTheorems, TLAPS

(* What a call under way asks for, and where it keeps what it has written. *)
JobState ==
    \A c \in Call :
        /\ pc[c] # "idle" => job[c] \in Ordering \cup Process \cup Upsert
        /\ pc[c] = "check" => job[c] \in Ordering
        /\ pc[c] \in {"work", "commit"} => job[c] \in Ordering \cup Process
        /\ pc[c] \in {"find", "insert", "update"} => job[c] \in Upsert
        /\ pc[c] # "idle" /\ job[c] \in Upsert => kind = "content"
        /\ pc[c] \notin {"work", "commit"} => own[c] = Untouched
        /\ pc[c] \notin {"done", "error"} => wrote[c] = {} /\ made[c] = {}

(* The statements on a connection name rows, those that need one.          *)
NamesItsRow(s) ==
    s.do \in {"update", "delete"} \/ (s.do = "insert" /\ kind = "relation") => s.row \in Row

QueueState ==
    \A c \in Call :
        /\ \A i \in DOMAIN todo[c] : NamesItsRow(todo[c][i])
        /\ pc[c] = "commit" => todo[c] = <<>>
        /\ pc[c] = "update" => todo[c] # <<>> /\ Head1(c).do = "update"

Shape == TypeOK /\ JobState /\ QueueState

(* Only the last statement of a queue may be the removal of everything.    *)
OnlyLastClears(q) == \A i \in DOMAIN q : q[i].do = "clear" => i = Len(q)

(* A row two transactions have written is one's.  A uuid in use was issued.*)
LockState ==
    /\ \A c, d \in Call : \A r \in Row : own[c][r] # Same /\ own[d][r] # Same => c = d
    /\ kind = "content" => \A r \in Row :
          /\ table[r] # None => r \in issued
          /\ \A c \in Call : own[c][r] # Same \/ r \in made[c] => r \in issued

ErrorState ==
    /\ \A c \in Call : \A r \in Row : last[r] = c => pc[c] = "done" \/ c \in unsure
    /\ \A c \in unsure : pc[c] = "error"

(* An order at work: it only updates, and each row it names is written, in *)
(* the queue, or was removed.                                              *)
OrderAtWork(c) ==
    /\ \A i \in DOMAIN todo[c] : todo[c][i].do = "update"
    /\ \A r \in Row : own[c][r] # Same => own[c][r] \in Content /\ table[r] # None
    /\ \A i \in DOMAIN job[c].items :
          LET r == job[c].items[i]
          IN \/ r \in removed
             \/ own[c][r] # Same
             \/ table[r] # None /\ \E k \in DOMAIN todo[c] : todo[c][k].row = r

OrderState ==
    /\ \A c \in Call : pc[c] \in {"work", "commit"} /\ job[c].op = "order" => OrderAtWork(c)
    /\ OrdersReachTheirRows

(* The rows c has made and not committed.                                  *)
Added(c, r) == own[c][r] \in Content /\ table[r] = None

ClearAhead(c) == todo[c] # <<>> /\ todo[c][Len(todo[c])].do = "clear"

PastClear(c) ==
    /\ \A i \in DOMAIN todo[c] : todo[c][i].do = "delete"
    /\ \A r \in Row : Added(c, r) => \E i \in DOMAIN todo[c] : todo[c][i].row = r

BaseState ==
    /\ \A c \in Call : pc[c] \in {"work", "commit"} =>
          \A r \in Row : Added(c, r) => own[c][r].source = job[c].source
    /\ \A c \in Call : pc[c] \in {"work", "commit"} /\ job[c].op = "process" /\ job[c].base =>
          ClearAhead(c) \/ PastClear(c)
    /\ BaseRemovalTakesTheAdded

(* Row r is one an upsert made for source s.                               *)
MadeFor(s, r) ==
    /\ \E c \in Call : r \in made[c] /\ job[c].op = "upsert"
    /\ table[r] # None /\ table[r].source = s

(* The rows c has added are no call's yet, and those it updates stay with  *)
(* their source.                                                           *)
FreshState ==
    kind = "content" => \A c \in Call : \A r \in Row :
        /\ Added(c, r) => \A d \in Call : r \notin made[d]
        /\ own[c][r] \in Content /\ table[r] \in Content => own[c][r].source = table[r].source

UpsertState ==
    /\ \A c, d \in Call :
          /\ pc[c] = "insert" /\ pc[d] = "insert" /\ job[c].source = job[d].source
          /\ job[c].source \notin raced
          => c = d
    /\ \A c \in Call : pc[c] = "insert" /\ job[c].source \notin raced =>
          \A r \in Row : ~MadeFor(job[c].source, r)
    /\ UpsertsMeet

IInv == /\ Shape /\ LockState /\ ErrorState
        /\ OrderState /\ BaseState /\ FreshState /\ UpsertState /\ NoMixedOrders

-----------------------------------------------------------------------------
(* The statements for a set of rows: each is for a member of the set.      *)
LEMMA EachNamesMembers ==
    ASSUME NEW S, IsFiniteSet(S), S \subseteq Row \cup {None},
           NEW what \in {"update", "delete", "insert", "clear"}
    PROVE  /\ Each(what, S) \in Seq(Statement)
           /\ \A i \in DOMAIN Each(what, S) :
                 Each(what, S)[i].do = what /\ Each(what, S)[i].row \in S
<1> DEFINE n == Cardinality(S)
<1>1. n \in Nat /\ SetToSeq(S) \in [1 .. n -> S]
  <2>1. n \in Nat /\ \E f \in [1 .. n -> S] : IsInjective(f)
    BY FS_CardinalityType DEF ExistsBijection, Bijection, Injection
  <2> QED BY <2>1 DEF SetToSeq
<1>2. 0 \in Position
  BY ConstantsAssumption DEF Position
<1>3. \A i \in 1 .. n : Do(what, SetToSeq(S)[i], 0) \in Statement
  BY <1>1, <1>2 DEF Do, Statement
<1>4. Each(what, S) \in [1 .. n -> Statement]
  BY <1>3 DEF Each
<1>5. Each(what, S) \in Seq(Statement)
  BY <1>1, <1>4, SeqDef
<1>6. \A i \in DOMAIN Each(what, S) :
         Each(what, S)[i].do = what /\ Each(what, S)[i].row \in S
  BY <1>1 DEF Each, Do
<1> QED BY <1>5, <1>6

(* What the elements of a concatenation are.                               *)
LEMMA ConcatElements ==
    ASSUME NEW s \in Seq(Statement), NEW t \in Seq(Statement)
    PROVE  /\ s \o t \in Seq(Statement)
           /\ Len(s \o t) = Len(s) + Len(t)
           /\ \A i \in DOMAIN (s \o t) :
                 (\E k \in DOMAIN s : (s \o t)[i] = s[k]) \/ (\E k \in DOMAIN t : (s \o t)[i] = t[k])
           /\ \A k \in DOMAIN s : \E i \in DOMAIN (s \o t) : (s \o t)[i] = s[k]
           /\ t # <<>> => s \o t # <<>> /\ (s \o t)[Len(s \o t)] = t[Len(t)]
<1>1. /\ s \o t \in Seq(Statement)
      /\ Len(s \o t) = Len(s) + Len(t)
      /\ \A i \in 1 .. Len(s) + Len(t) :
            (s \o t)[i] = IF i <= Len(s) THEN s[i] ELSE t[i - Len(s)]
  BY ConcatProperties
<1>2. /\ Len(s) \in Nat /\ DOMAIN s = 1 .. Len(s)
      /\ Len(t) \in Nat /\ DOMAIN t = 1 .. Len(t)
      /\ DOMAIN (s \o t) = 1 .. Len(s) + Len(t)
  BY <1>1, LenProperties
<1>3. \A i \in DOMAIN (s \o t) :
         (\E k \in DOMAIN s : (s \o t)[i] = s[k]) \/ (\E k \in DOMAIN t : (s \o t)[i] = t[k])
  <2> TAKE i \in DOMAIN (s \o t)
  <2>1. CASE i <= Len(s)
    BY <1>1, <1>2, <2>1
  <2>2. CASE ~(i <= Len(s))
    <3>1. i - Len(s) \in DOMAIN t
      BY <1>2, <2>2
    <3> QED BY <1>1, <1>2, <2>2, <3>1
  <2> QED BY <2>1, <2>2
<1>4. \A k \in DOMAIN s : \E i \in DOMAIN (s \o t) : (s \o t)[i] = s[k]
  BY <1>1, <1>2
<1>5. ASSUME t # <<>> PROVE s \o t # <<>> /\ (s \o t)[Len(s \o t)] = t[Len(t)]
  <2>1. Len(t) \in Nat \ {0}
    BY <1>5, EmptySeq
  <2>2. Len(s \o t) # 0
    BY <1>1, <1>2, <2>1
  <2>3. (s \o t)[Len(s \o t)] = t[(Len(s) + Len(t)) - Len(s)]
    BY <1>1, <1>2, <2>1
  <2>4. (Len(s) + Len(t)) - Len(s) = Len(t)
    BY <1>2
  <2> QED BY <2>2, <2>3, <2>4, EmptySeq
<1> QED BY <1>1, <1>3, <1>4, <1>5

(* The first statement leaves the queue, the others stay.                  *)
LEMMA TailElements ==
    ASSUME NEW s \in Seq(Statement), s # <<>>
    PROVE  /\ Head(s) \in Statement /\ Tail(s) \in Seq(Statement)
           /\ 1 \in DOMAIN s /\ s[1] = Head(s)
           /\ \A i \in DOMAIN Tail(s) : \E k \in DOMAIN s : Tail(s)[i] = s[k]
           /\ \A k \in DOMAIN s : s[k] = Head(s) \/ \E i \in DOMAIN Tail(s) : Tail(s)[i] = s[k]
           /\ Tail(s) # <<>> => Tail(s)[Len(Tail(s))] = s[Len(s)]
           /\ s[Len(s)] # Head(s) => Tail(s) # <<>>
<1>1. /\ Head(s) \in Statement /\ Tail(s) \in Seq(Statement)
      /\ Len(Tail(s)) = Len(s) - 1
      /\ \A i \in 1 .. Len(Tail(s)) : Tail(s)[i] = s[i + 1]
  BY HeadTailProperties
<1>2. /\ Len(s) \in Nat \ {0} /\ DOMAIN s = 1 .. Len(s)
      /\ DOMAIN Tail(s) = 1 .. Len(s) - 1
  BY <1>1, EmptySeq, LenProperties
<1>3. 1 \in DOMAIN s /\ s[1] = Head(s)
  BY <1>2
<1>4. \A i \in DOMAIN Tail(s) : \E k \in DOMAIN s : Tail(s)[i] = s[k]
  BY <1>1, <1>2
<1>5. \A k \in DOMAIN s : s[k] = Head(s) \/ \E i \in DOMAIN Tail(s) : Tail(s)[i] = s[k]
  <2> SUFFICES ASSUME NEW k \in DOMAIN s, k # 1
               PROVE  \E i \in DOMAIN Tail(s) : Tail(s)[i] = s[k]
    BY <1>3
  <2>1. k - 1 \in 1 .. Len(Tail(s)) /\ k - 1 \in DOMAIN Tail(s) /\ (k - 1) + 1 = k
    BY <1>1, <1>2
  <2>2. Tail(s)[k - 1] = s[k]
    BY <1>1, <2>1
  <2> QED BY <2>1, <2>2
<1>6. ASSUME Tail(s) # <<>>
      PROVE  Tail(s)[Len(Tail(s))] = s[Len(s)]
  <2>1. Len(Tail(s)) \in Nat \ {0}
    BY <1>1, <1>6, EmptySeq
  <2>2. Len(Tail(s)) \in 1 .. Len(Tail(s)) /\ Len(Tail(s)) + 1 = Len(s)
    BY <1>1, <1>2, <2>1
  <2> QED BY <1>1, <2>2
<1>7. ASSUME s[Len(s)] # Head(s)
      PROVE  Tail(s) # <<>>
  <2>1. Len(s) # 1
    BY <1>3, <1>7
  <2>2. Len(Tail(s)) # 0
    BY <1>1, <1>2, <2>1
  <2> QED BY <2>2, EmptySeq
<1> QED BY <1>1, <1>3, <1>4, <1>5, <1>6, <1>7

(* A queue put behind statements that do not remove everything.            *)
LEMMA ClearsBehind ==
    ASSUME NEW s \in Seq(Statement), NEW t \in Seq(Statement),
           \A i \in DOMAIN s : s[i].do # "clear", OnlyLastClears(t)
    PROVE  OnlyLastClears(s \o t)
<1> SUFFICES ASSUME NEW i \in DOMAIN (s \o t), (s \o t)[i].do = "clear"
             PROVE  i = Len(s \o t)
  BY DEF OnlyLastClears
<1>1. /\ Len(s \o t) = Len(s) + Len(t)
      /\ \A k \in 1 .. Len(s) + Len(t) :
            (s \o t)[k] = IF k <= Len(s) THEN s[k] ELSE t[k - Len(s)]
  BY ConcatProperties
<1>2. /\ Len(s) \in Nat /\ DOMAIN s = 1 .. Len(s)
      /\ Len(t) \in Nat /\ DOMAIN t = 1 .. Len(t)
      /\ i \in 1 .. Len(s) + Len(t)
  <2>1. s \o t \in Seq(Statement)
    BY ConcatElements
  <2> QED BY <1>1, <2>1, LenProperties
<1>3. ~(i <= Len(s))
  BY <1>1, <1>2
<1>4. i - Len(s) \in DOMAIN t /\ t[i - Len(s)].do = "clear"
  BY <1>1, <1>2, <1>3
<1>5. i - Len(s) = Len(t)
  BY <1>4 DEF OnlyLastClears
<1> QED BY <1>1, <1>2, <1>5

(* A statement leaves a shorter queue, in which at most the last clears.   *)
LEMMA ShorterQueue ==
    ASSUME NEW s \in Seq(Statement), s # <<>>, OnlyLastClears(s)
    PROVE  /\ OnlyLastClears(Tail(s)) /\ Len(Tail(s)) < Len(s)
           /\ Head(s).do = "clear" => Tail(s) = <<>>
<1>1. /\ Tail(s) \in Seq(Statement)
      /\ Len(Tail(s)) = Len(s) - 1
      /\ \A i \in 1 .. Len(Tail(s)) : Tail(s)[i] = s[i + 1]
  BY HeadTailProperties
<1>2. /\ Len(s) \in Nat \ {0} /\ DOMAIN s = 1 .. Len(s)
      /\ DOMAIN Tail(s) = 1 .. Len(s) - 1
  BY <1>1, EmptySeq, LenProperties
<1>3. OnlyLastClears(Tail(s))
  <2> SUFFICES ASSUME NEW i \in DOMAIN Tail(s), Tail(s)[i].do = "clear"
               PROVE  i = Len(Tail(s))
    BY DEF OnlyLastClears
  <2>1. i + 1 \in DOMAIN s /\ s[i + 1].do = "clear" /\ i \in Int
    BY <1>1, <1>2
  <2>2. i + 1 = Len(s)
    BY <2>1 DEF OnlyLastClears
  <2>3. Len(s) \in Int /\ Len(Tail(s)) = Len(s) - 1
    BY <1>1, <1>2
  <2> QED BY <2>1, <2>2, <2>3
<1>4. ASSUME Head(s).do = "clear" PROVE Tail(s) = <<>>
  <2>1. 1 \in DOMAIN s /\ s[1] = Head(s)
    BY TailElements
  <2>2. Len(s) = 1
    BY <1>4, <2>1 DEF OnlyLastClears
  <2>3. Len(Tail(s)) = 0
    BY <1>1, <2>2
  <2> QED BY <1>1, <2>3, EmptySeq
<1> QED BY <1>1, <1>2, <1>3, <1>4

(* What processContent and processRel send: statements that name their     *)
(* rows, the removal of everything last.                                   *)
LEMMA ChangesAreStatements ==
    ASSUME NEW j \in Process, kind = "relation" => j.add \subseteq Row
    PROVE  /\ Changes(j) \in Seq(Statement)
           /\ \A i \in DOMAIN Changes(j) : NamesItsRow(Changes(j)[i])
           /\ j.base => Changes(j) # <<>> /\ Changes(j)[Len(Changes(j))].do = "clear"
           /\ OnlyLastClears(Changes(j))
<1> DEFINE deletes == Each("delete", j.remove)
           inserts == Each("insert", j.add)
           updates == Each("update", j.update)
           ending  == IF j.base THEN <<Do("clear", None, 0)>> ELSE <<>>
<1>1. /\ j.remove \subseteq Row /\ j.add \subseteq Row \cup {None} /\ j.update \subseteq Row
      /\ j.base \in BOOLEAN
  BY DEF Process
<1>2. IsFiniteSet(j.remove) /\ IsFiniteSet(j.add) /\ IsFiniteSet(j.update)
  <2>1. IsFiniteSet(Row) /\ IsFiniteSet(Row \cup {None})
    BY ConstantsAssumption, FS_AddElement
  <2> QED BY <1>1, <2>1, FS_Subset
<1>3. /\ deletes \in Seq(Statement)
      /\ \A i \in DOMAIN deletes : deletes[i].do = "delete" /\ deletes[i].row \in j.remove
  <2> HIDE DEF deletes
  <2>1. j.remove \subseteq Row \cup {None}
    BY <1>1
  <2> QED BY <1>2, <2>1, EachNamesMembers DEF deletes
<1>4. /\ inserts \in Seq(Statement)
      /\ \A i \in DOMAIN inserts : inserts[i].do = "insert" /\ inserts[i].row \in j.add
  BY <1>1, <1>2, EachNamesMembers
<1>5. /\ updates \in Seq(Statement)
      /\ \A i \in DOMAIN updates : updates[i].do = "update" /\ updates[i].row \in j.update
  <2>1. j.update \subseteq Row \cup {None}
    BY <1>1
  <2> QED BY <1>2, <2>1, EachNamesMembers
<1>6. /\ ending \in Seq(Statement)
      /\ \A i \in DOMAIN ending : ending[i].do = "clear"
      /\ j.base => ending # <<>> /\ ending[Len(ending)].do = "clear"
      /\ OnlyLastClears(ending)
  <2>1. Do("clear", None, 0) \in Statement
    BY ConstantsAssumption DEF Do, Statement, Position
  <2> QED BY <2>1 DEF Do, OnlyLastClears
<1>7. Changes(j) = ((deletes \o inserts) \o updates) \o ending
  BY DEF Changes
<1> HIDE DEF deletes, inserts, updates, ending
<1>8. /\ deletes \o inserts \in Seq(Statement)
      /\ \A i \in DOMAIN (deletes \o inserts) : NamesItsRow((deletes \o inserts)[i])
  <2>1. \A i \in DOMAIN deletes : NamesItsRow(deletes[i])
    BY <1>1, <1>3 DEF NamesItsRow
  <2>2. \A i \in DOMAIN inserts : NamesItsRow(inserts[i])
    BY <1>4 DEF NamesItsRow
  <2> QED BY <1>3, <1>4, <2>1, <2>2, ConcatElements
<1>9. \A i \in DOMAIN (deletes \o inserts) : (deletes \o inserts)[i].do # "clear"
  BY <1>3, <1>4, ConcatElements
<1>10. /\ (deletes \o inserts) \o updates \in Seq(Statement)
      /\ \A i \in DOMAIN ((deletes \o inserts) \o updates) :
            /\ NamesItsRow(((deletes \o inserts) \o updates)[i])
            /\ ((deletes \o inserts) \o updates)[i].do # "clear"
  <2> DEFINE first == deletes \o inserts
  <2>1. \A i \in DOMAIN updates : NamesItsRow(updates[i])
    BY <1>1, <1>5 DEF NamesItsRow
  <2>2. /\ first \in Seq(Statement)
        /\ \A i \in DOMAIN first : NamesItsRow(first[i]) /\ first[i].do # "clear"
    BY <1>8, <1>9
  <2> HIDE DEF first
  <2>3. /\ first \o updates \in Seq(Statement)
        /\ \A i \in DOMAIN (first \o updates) :
              NamesItsRow((first \o updates)[i]) /\ (first \o updates)[i].do # "clear"
    BY <1>5, <2>1, <2>2, ConcatElements
  <2> QED BY <2>3 DEF first
<1> DEFINE before == (deletes \o inserts) \o updates
<1>11. \A i \in DOMAIN ending : NamesItsRow(ending[i])
  BY <1>6 DEF NamesItsRow
<1>12. /\ before \in Seq(Statement)
       /\ \A i \in DOMAIN before : NamesItsRow(before[i]) /\ before[i].do # "clear"
  BY <1>10
<1> HIDE DEF before
<1>13. /\ before \o ending \in Seq(Statement)
       /\ \A i \in DOMAIN (before \o ending) : NamesItsRow((before \o ending)[i])
       /\ ending # <<>> => before \o ending # <<>>
                        /\ (before \o ending)[Len(before \o ending)] = ending[Len(ending)]
  BY <1>6, <1>11, <1>12, ConcatElements
<1>14. Changes(j) = before \o ending
  BY <1>7 DEF before
<1>15. OnlyLastClears(before \o ending)
  BY <1>6, <1>12, ClearsBehind
<1> QED BY <1>6, <1>13, <1>14, <1>15

(* What order and contentOrder send: an update for each row of the list.   *)
LEMMA UpdatesAreStatements ==
    ASSUME NEW items \in Lists
    PROVE  /\ items \in Seq(Row) /\ Len(items) \in 1 .. MaxItems
           /\ DOMAIN items = 1 .. Len(items)
           /\ Updates(items) \in Seq(Statement) /\ DOMAIN Updates(items) = DOMAIN items
           /\ \A i \in DOMAIN items :
                 Updates(items)[i].do = "update" /\ Updates(items)[i].row = items[i]
<1>1. PICK n \in 1 .. MaxItems : items \in [1 .. n -> Row]
  BY DEF Lists
<1>2. n \in Nat /\ n <= MaxItems /\ MaxItems \in Nat
  BY <1>1, ConstantsAssumption
<1>3. items \in Seq(Row) /\ Len(items) = n /\ DOMAIN items = 1 .. n
  BY <1>1, <1>2, SeqDef, LenProperties
<1>4. \A i \in 1 .. n : Do("update", items[i], i) \in Statement
  BY <1>1, <1>2 DEF Do, Statement, Position
<1>5. Updates(items) \in [1 .. n -> Statement]
  BY <1>3, <1>4 DEF Updates
<1>6. Updates(items) \in Seq(Statement)
  BY <1>2, <1>5, SeqDef
<1>7. \A i \in DOMAIN items :
         Updates(items)[i].do = "update" /\ Updates(items)[i].row = items[i]
  BY DEF Updates, Do
<1>8. DOMAIN Updates(items) = DOMAIN items
  BY DEF Updates
<1> QED BY <1>1, <1>3, <1>6, <1>7, <1>8

(* order's assertion: as many rows are found by the list's names as the    *)
(* list has places, so each place names one of them.                       *)
LEMMA CountedItemsAreThere ==
    ASSUME NEW items \in Lists, NEW met,
           \A r \in met : \E i \in DOMAIN items : items[i] = r,
           Cardinality(met) = Len(items)
    PROVE  \A i \in DOMAIN items : items[i] \in met
<1> DEFINE named  == {items[i] : i \in DOMAIN items}
           n      == Len(items)
           places == 1 .. n
<1>1. n \in Nat \ {0} /\ DOMAIN items = places /\ items \in [places -> Row]
  <2>1. items \in Seq(Row) /\ Len(items) \in 1 .. MaxItems
    BY UpdatesAreStatements
  <2>2. Len(items) \in Nat \ {0}
    BY <2>1, ConstantsAssumption
  <2> QED BY <2>1, <2>2, LenProperties
<1>2. IsFiniteSet(places) /\ Cardinality(places) = n
  <2>1. 1 \in Int /\ n \in Int /\ ~(1 > n) /\ n - 1 + 1 = n
    BY <1>1
  <2> QED BY <2>1, FS_Interval
<1>3. items \in Surjection(places, named)
  BY <1>1 DEF Surjection
<1>4. met \in SUBSET named
  OBVIOUS
<1> HIDE DEF named, places
<1>5. IsFiniteSet(named) /\ Cardinality(named) <= Cardinality(places)
  BY <1>2, <1>3, FS_Surjection
<1>6. met = named
  <2>1. /\ Cardinality(met) <= Cardinality(named)
        /\ Cardinality(named) = Cardinality(met) => named = met
    BY <1>4, <1>5, FS_Subset
  <2>2. Cardinality(named) \in Nat /\ n \in Nat
    BY <1>1, <1>5, FS_CardinalityType
  <2>3. Cardinality(named) = Cardinality(met)
    BY <1>2, <1>5, <2>1, <2>2
  <2> QED BY <2>1, <2>3
<1> QED BY <1>6 DEF named

-----------------------------------------------------------------------------
(* What a step does to one call's row or queue leaves the others' alone.   *)
LEMMA WriteEffect ==
    ASSUME TypeOK, NEW c \in Call, NEW r \in Row, NEW value, Write(c, r, value)
    PROVE  /\ own'[c][r] = value
           /\ \A d \in Call : \A q \in Row : d # c \/ q # r => own'[d][q] = own[d][q]
           /\ \A d \in Call : d # c => own'[d] = own[d]
           /\ value \in Content \cup {None} => own' \in [Call -> [Row -> Content \cup {None, Same}]]
BY DEF TypeOK, Write

(* The statement at the head of a queue, and the queue without it.         *)
LEMMA HeadEffect ==
    ASSUME Shape, NEW c \in Call, todo[c] # <<>>
    PROVE  /\ Head1(c) \in Statement /\ NamesItsRow(Head1(c))
           /\ Tail(todo[c]) \in Seq(Statement)
           /\ \A i \in DOMAIN Tail(todo[c]) : NamesItsRow(Tail(todo[c])[i])
<1>1. todo[c] \in Seq(Statement) /\ \A i \in DOMAIN todo[c] : NamesItsRow(todo[c][i])
  BY DEF Shape, TypeOK, QueueState
<1> QED BY <1>1, TailElements DEF Head1

(* A new queue of well-formed statements keeps the shape of the queues.    *)
LEMMA QueueEffect ==
    ASSUME Shape, NEW c \in Call, NEW q \in Seq(Statement),
           todo' = [todo EXCEPT ![c] = q], kind' = kind,
           \A i \in DOMAIN q : NamesItsRow(q[i])
    PROVE  /\ todo' \in [Call -> Seq(Statement)] /\ todo'[c] = q
           /\ \A d \in Call : d # c => todo'[d] = todo[d]
           /\ (\A d \in Call : \A i \in DOMAIN todo[d] : NamesItsRow(todo[d][i]))'
<1>1. todo' \in [Call -> Seq(Statement)] /\ todo'[c] = q
  BY DEF Shape, TypeOK
<1>2. \A d \in Call : d # c => todo'[d] = todo[d]
  BY DEF Shape, TypeOK
<1>3. \A d \in Call : \A i \in DOMAIN todo'[d] : NamesItsRow(todo'[d][i])
  BY <1>1, <1>2 DEF Shape, QueueState
<1>4. (\A d \in Call : \A i \in DOMAIN todo[d] : NamesItsRow(todo[d][i]))'
  BY <1>3 DEF NamesItsRow
<1> QED BY <1>1, <1>2, <1>4

-----------------------------------------------------------------------------
(* The shape of the state is an invariant.                                 *)
LEMMA InitShape == Init => Shape
<1> SUFFICES ASSUME Init PROVE Shape
  OBVIOUS
<1>1. 0 \in Position
  BY ConstantsAssumption DEF Position
<1>2. TypeOK
  BY <1>1 DEF Init, TypeOK, Content, Untouched
<1>3. JobState
  BY DEF Init, JobState
<1>4. QueueState
  BY DEF Init, QueueState
<1> QED BY <1>2, <1>3, <1>4 DEF Shape

(* How a call begins: its arguments, where it goes, what it queues.        *)
LEMMA BeginEffect ==
    ASSUME Shape, NEW c \in Call, CallOrder(c) \/ CallProcess(c) \/ CallUpsert(c)
    PROVE  \E j, label, q :
              /\ Begin(c, j, label, q)
              /\ j \in Ordering \cup Process \cup Upsert
              /\ label \in {"check", "work", "find"}
              /\ label = "check" => j \in Ordering
              /\ label = "work" => j \in Process
              /\ label = "work" /\ j.base => q # <<>> /\ q[Len(q)].do = "clear"
              /\ label = "find" => j \in Upsert
              /\ j \in Upsert => kind = "content"
              /\ q \in Seq(Statement)
              /\ \A i \in DOMAIN q : NamesItsRow(q[i])
              /\ OnlyLastClears(q)
<1>1. CASE CallOrder(c)
  <2>1. PICK s \in Asked, items \in Lists :
           Begin(c, [op |-> IF kind = "content" THEN "order" ELSE "contentOrder",
                     source |-> s, items |-> items], "check", <<>>)
    BY <1>1 DEF CallOrder
  <2> DEFINE j == [op |-> IF kind = "content" THEN "order" ELSE "contentOrder",
                   source |-> s, items |-> items]
  <2>2. j \in Ordering /\ j \notin Upsert
    BY ConstantsAssumption DEF Ordering, Upsert
  <2>3. Begin(c, j, "check", <<>>)
    BY <2>1
  <2> HIDE DEF j
  <2>4. <<>> \in Seq(Statement) /\ (\A i \in DOMAIN <<>> : NamesItsRow(<<>>[i])) /\ OnlyLastClears(<<>>)
    BY DEF OnlyLastClears
  <2> QED BY <2>2, <2>3, <2>4
<1>2. CASE CallProcess(c)
  <2>1. PICK s \in Asked, base \in BOOLEAN,
             remove, add, update \in {{}} \cup {{r} : r \in Row} :
           /\ kind = "content" /\ add # {} => UuidsLeft
           /\ LET j == [op |-> "process", source |-> s, remove |-> remove, base |-> base,
                         add |-> IF kind = "content" /\ add # {} THEN {None} ELSE add,
                         update |-> IF kind = "content" THEN update ELSE {}]
              IN Begin(c, j, "work", Changes(j))
    BY <1>2 DEF CallProcess
  <2> DEFINE j == [op |-> "process", source |-> s, remove |-> remove, base |-> base,
                   add |-> IF kind = "content" /\ add # {} THEN {None} ELSE add,
                   update |-> IF kind = "content" THEN update ELSE {}]
  <2>2. j \in Process /\ j \notin Upsert /\ (kind = "relation" => j.add \subseteq Row)
    BY ConstantsAssumption DEF Process, Upsert
  <2>3. Begin(c, j, "work", Changes(j))
    BY <2>1
  <2> HIDE DEF j
  <2>4. /\ Changes(j) \in Seq(Statement)
        /\ \A i \in DOMAIN Changes(j) : NamesItsRow(Changes(j)[i])
        /\ j.base => Changes(j) # <<>> /\ Changes(j)[Len(Changes(j))].do = "clear"
        /\ OnlyLastClears(Changes(j))
    BY <2>2, ChangesAreStatements
  <2> QED BY <2>2, <2>3, <2>4
<1>3. CASE CallUpsert(c)
  <2>1. PICK s \in Asked :
           Begin(c, [op |-> "upsert", source |-> s, sequence |-> 1], "find", <<>>)
    BY <1>3 DEF CallUpsert
  <2> DEFINE j == [op |-> "upsert", source |-> s, sequence |-> 1]
  <2>2. j \in Upsert /\ kind = "content"
    BY <1>3, ConstantsAssumption DEF Upsert, Position, CallUpsert
  <2>3. Begin(c, j, "find", <<>>)
    BY <2>1
  <2> HIDE DEF j
  <2>4. <<>> \in Seq(Statement) /\ (\A i \in DOMAIN <<>> : NamesItsRow(<<>>[i])) /\ OnlyLastClears(<<>>)
    BY DEF OnlyLastClears
  <2> QED BY <2>2, <2>3, <2>4
<1> QED BY <1>1, <1>2, <1>3

(* A call that begins keeps the shape.                                     *)
LEMMA BeginShape ==
    ASSUME Shape, NEW c \in Call, CallOrder(c) \/ CallProcess(c) \/ CallUpsert(c)
    PROVE  Shape'
<1> USE DEF Shape
<1>1. PICK j, label, q :
         /\ Begin(c, j, label, q)
         /\ j \in Ordering \cup Process \cup Upsert
         /\ label \in {"check", "work", "find"}
         /\ label = "check" => j \in Ordering
         /\ label = "work" => j \in Process
         /\ label = "find" => j \in Upsert
         /\ j \in Upsert => kind = "content"
         /\ q \in Seq(Statement)
         /\ \A i \in DOMAIN q : NamesItsRow(q[i])
  BY BeginEffect
<1>2. /\ pc[c] = "idle" /\ pc' = [pc EXCEPT ![c] = label] /\ job' = [job EXCEPT ![c] = j]
      /\ todo' = [todo EXCEPT ![c] = q]
      /\ UNCHANGED <<kind, table, issued, own, wrote, made, last, removed, unsure, raced>>
  BY <1>1 DEF Begin, Goto, history
<1>3. /\ todo' \in [Call -> Seq(Statement)] /\ todo'[c] = q
      /\ \A d \in Call : d # c => todo'[d] = todo[d]
      /\ (\A d \in Call : \A i \in DOMAIN todo[d] : NamesItsRow(todo[d][i]))'
  BY <1>1, <1>2, QueueEffect
<1>4. TypeOK'
  BY <1>1, <1>2, <1>3 DEF TypeOK, Active
<1>5. pc'[c] = label /\ job'[c] = j /\ \A d \in Call : d # c => pc'[d] = pc[d] /\ job'[d] = job[d]
  BY <1>2 DEF TypeOK
<1>6. JobState'
  BY <1>1, <1>2, <1>5 DEF JobState
<1>7. QueueState'
  <2>1. \A d \in Call : pc'[d] = "commit" => todo'[d] = <<>>
    BY <1>1, <1>3, <1>5 DEF QueueState
  <2>2. \A d \in Call : pc'[d] = "update" => todo'[d] # <<>> /\ Head(todo'[d]).do = "update"
    BY <1>1, <1>3, <1>5 DEF QueueState, Head1
  <2> QED BY <1>3, <2>1, <2>2 DEF QueueState, Head1
<1> QED BY <1>4, <1>6, <1>7

(* A rollback keeps the shape.                                             *)
LEMMA RollbackShape ==
    ASSUME Shape, NEW c \in Call, pc[c] \in Active, Rollback(c)
    PROVE  Shape'
<1> USE DEF Shape
<1>1. /\ pc' = [pc EXCEPT ![c] = "error"] /\ todo' = [todo EXCEPT ![c] = <<>>]
      /\ own' = [own EXCEPT ![c] = Untouched]
      /\ UNCHANGED <<kind, table, issued, job, wrote, made, last, removed, unsure, raced>>
  BY DEF Rollback, Goto, history
<1>2. /\ todo' \in [Call -> Seq(Statement)] /\ todo'[c] = <<>>
      /\ \A d \in Call : d # c => todo'[d] = todo[d]
      /\ (\A d \in Call : \A i \in DOMAIN todo[d] : NamesItsRow(todo[d][i]))'
  <2>1. <<>> \in Seq(Statement) /\ (\A i \in DOMAIN <<>> : NamesItsRow(<<>>[i]))
    OBVIOUS
  <2> QED BY <1>1, <2>1, QueueEffect
<1>3. TypeOK'
  <2>1. own' \in [Call -> [Row -> Content \cup {None, Same}]]
    BY <1>1 DEF TypeOK, Untouched
  <2> QED BY <1>1, <1>2, <2>1 DEF TypeOK
<1>4. /\ pc'[c] = "error" /\ own'[c] = Untouched
      /\ \A d \in Call : d # c => pc'[d] = pc[d] /\ own'[d] = own[d]
  BY <1>1 DEF TypeOK
<1>5. JobState'
  BY <1>1, <1>4 DEF JobState, Active
<1>6. QueueState'
  BY <1>2, <1>4 DEF QueueState, Head1
<1> QED BY <1>3, <1>5, <1>6

(* What a statement that succeeds does: it leaves the queue, and it writes *)
(* nothing, a row its transaction sees, or a row it makes.                 *)
RowWritten(c, r, value) ==
    /\ Write(c, r, value) /\ value \in Content \cup {None}
    /\ \/ /\ ~LockedFor(c, r) /\ Seen(c, r) # None /\ issued' = issued
          /\ value # None => value.source = Seen(c, r).source
       \/ /\ kind = "relation" /\ ~LockedFor(c, r) /\ Seen(c, r) = None /\ issued' = issued
          /\ value # None /\ value.source = job[c].source
       \/ /\ kind = "content" /\ r \notin issued /\ issued' = issued \cup {r}
          /\ value # None /\ value.source = job[c].source

Effect(c) ==
    /\ pc[c] = "work" /\ todo[c] # <<>> /\ Next1(c)
    /\ UNCHANGED <<kind, table, pc, job, history>>
    /\ \/ UNCHANGED <<own, issued>>
       \/ \E r \in Row, value \in Content \cup {None} : RowWritten(c, r, value)

(* UpdateRow, DeleteRow and InsertRow do that, or the key refuses the row. *)
LEMMA StatementEffect ==
    ASSUME Shape, NEW c \in Call, UpdateRow(c) \/ DeleteRow(c) \/ InsertRow(c)
    PROVE  Effect(c) \/ (pc[c] = "work" /\ Rollback(c))
<1>1. /\ pc[c] = "work" /\ todo[c] # <<>>
      /\ Head1(c) \in Statement /\ NamesItsRow(Head1(c))
  <2>1. pc[c] = "work" /\ todo[c] # <<>>
    BY DEF UpdateRow, DeleteRow, InsertRow
  <2> QED BY <2>1, HeadEffect
<1>2. job[c].source \in Source /\ 0 \in Position
  BY <1>1, ConstantsAssumption DEF Shape, JobState, Ordering, Process, Position
<1>3. \A r \in Row : Seen(c, r) \in Content \cup {None}
  BY DEF Shape, TypeOK, Seen
<1>4. CASE UpdateRow(c)
  <2> DEFINE r     == Head1(c).row
             value == [Seen(c, r) EXCEPT !.sequence = Head1(c).sequence]
  <2>1. r \in Row /\ Head1(c).sequence \in Position
    BY <1>1, <1>4 DEF UpdateRow, NamesItsRow, Statement
  <2>2. CASE Meets(c, r)
    <3>1. Seen(c, r) \in Content /\ Seen(c, r) # None
      BY <1>3, <2>1, <2>2 DEF Meets
    <3>2. value \in Content /\ value.source = Seen(c, r).source
      BY <2>1, <3>1 DEF Content
    <3>3. ~LockedFor(c, r) /\ Write(c, r, value) /\ issued' = issued
      BY <1>4, <2>2 DEF UpdateRow
    <3>4. RowWritten(c, r, value)
      BY <3>1, <3>2, <3>3 DEF RowWritten
    <3> HIDE DEF r, value
    <3> QED BY <1>1, <1>4, <2>1, <3>2, <3>4 DEF UpdateRow, Effect
  <2>3. CASE ~Meets(c, r)
    BY <1>1, <1>4, <2>3 DEF UpdateRow, Effect
  <2> QED BY <2>2, <2>3
<1>5. CASE DeleteRow(c)
  <2> DEFINE r   == Head1(c).row
             met == Seen(c, r) # None /\ (kind = "relation" => Seen(c, r).source = job[c].source)
  <2>1. r \in Row
    BY <1>1, <1>5 DEF DeleteRow, NamesItsRow
  <2>2. CASE met
    <3>1. ~LockedFor(c, r) /\ Write(c, r, None) /\ issued' = issued /\ Seen(c, r) # None
      BY <1>5, <2>2 DEF DeleteRow
    <3>2. RowWritten(c, r, None)
      BY <3>1 DEF RowWritten
    <3> HIDE DEF r, met
    <3> QED BY <1>1, <1>5, <2>1, <3>2 DEF DeleteRow, Effect
  <2>3. CASE ~met
    BY <1>1, <1>5, <2>3 DEF DeleteRow, Effect
  <2> QED BY <2>2, <2>3
<1>6. CASE InsertRow(c)
  <2> DEFINE new == [source |-> job[c].source, sequence |-> 0]
  <2>1. new \in Content /\ new # None /\ new.source = job[c].source
    BY <1>2, ConstantsAssumption DEF Content
  <2>2. CASE kind = "content"
    <3>1. PICK r \in Row \ issued : Write(c, r, new) /\ issued' = issued \cup {r}
      BY <1>6, <2>2 DEF InsertRow
    <3>2. Next1(c) /\ UNCHANGED <<kind, table, pc, job, history>>
      BY <1>6, <2>2 DEF InsertRow
    <3> HIDE DEF new
    <3>3. RowWritten(c, r, new)
      BY <2>1, <2>2, <3>1 DEF RowWritten
    <3> QED BY <1>1, <2>1, <3>2, <3>3 DEF Effect
  <2>3. CASE kind = "relation" /\ Seen(c, Head1(c).row) = None
    <3> DEFINE r == Head1(c).row
    <3>1. r \in Row
      BY <1>1, <1>6, <2>3 DEF InsertRow, NamesItsRow
    <3>2. ~LockedFor(c, r) /\ Write(c, r, new) /\ issued' = issued
      BY <1>6, <2>3 DEF InsertRow
    <3>3. Next1(c) /\ UNCHANGED <<kind, table, pc, job, history>>
      BY <1>6, <2>3 DEF InsertRow
    <3> HIDE DEF new
    <3>4. RowWritten(c, r, new)
      BY <2>1, <2>3, <3>2 DEF RowWritten
    <3> QED BY <1>1, <2>1, <3>1, <3>3, <3>4 DEF Effect
  <2>4. CASE kind = "relation" /\ Seen(c, Head1(c).row) # None
    BY <1>1, <1>6, <2>4 DEF InsertRow
  <2>5. kind \in {"content", "relation"}
    BY DEF Shape, TypeOK
  <2> QED BY <2>2, <2>3, <2>4, <2>5
<1> QED BY <1>4, <1>5, <1>6

(* A statement keeps the shape.                                            *)
LEMMA EffectShape ==
    ASSUME Shape, NEW c \in Call, Effect(c)
    PROVE  Shape'
<1> USE DEF Shape
<1>1. /\ pc[c] = "work" /\ todo[c] # <<>> /\ todo' = [todo EXCEPT ![c] = Tail(todo[c])]
      /\ UNCHANGED <<kind, table, pc, job, wrote, made, last, removed, unsure, raced>>
  BY DEF Effect, Next1, history
<1>2. /\ todo' \in [Call -> Seq(Statement)]
      /\ \A d \in Call : d # c => todo'[d] = todo[d]
      /\ (\A d \in Call : \A i \in DOMAIN todo[d] : NamesItsRow(todo[d][i]))'
  BY <1>1, HeadEffect, QueueEffect
<1>3. /\ own' \in [Call -> [Row -> Content \cup {None, Same}]]
      /\ issued' \in SUBSET Row
      /\ \A d \in Call : d # c => own'[d] = own[d]
  <2>1. CASE UNCHANGED <<own, issued>>
    BY <2>1 DEF TypeOK
  <2>2. ASSUME NEW r \in Row, NEW value \in Content \cup {None}, RowWritten(c, r, value)
        PROVE  <1>3
    BY <2>2, WriteEffect DEF RowWritten, TypeOK
  <2> QED BY <2>1, <2>2 DEF Effect
<1>4. TypeOK'
  BY <1>1, <1>2, <1>3 DEF TypeOK
<1>5. JobState'
  BY <1>1, <1>3 DEF JobState
<1>6. QueueState'
  BY <1>1, <1>2 DEF QueueState, Head1
<1> QED BY <1>4, <1>5, <1>6

(* order's check keeps the shape.                                          *)
LEMMA CheckShape ==
    ASSUME Shape, NEW c \in Call, Check(c)
    PROVE  Shape'
<1> USE DEF Shape
<1>1. CASE CheckPasses(c)
  <2>1. /\ pc[c] = "check" /\ pc' = [pc EXCEPT ![c] = "work"]
        /\ todo' = [todo EXCEPT ![c] = Updates(job[c].items)]
        /\ UNCHANGED <<kind, table, issued, job, own, wrote, made, last, removed, unsure, raced>>
    BY <1>1 DEF Check, Goto, history
  <2> DEFINE q == Updates(job[c].items)
  <2>2. job[c] \in Ordering /\ job[c].items \in Lists
    BY <2>1 DEF JobState, Ordering
  <2>3. q \in Seq(Statement) /\ \A i \in DOMAIN q : NamesItsRow(q[i])
    <3>1. \A i \in DOMAIN job[c].items : job[c].items[i] \in Row
      BY <2>2, UpdatesAreStatements, LenProperties
    <3> QED BY <2>2, <3>1, UpdatesAreStatements DEF NamesItsRow
  <2>4. todo' = [todo EXCEPT ![c] = q]
    BY <2>1
  <2> HIDE DEF q
  <2>5. /\ todo' \in [Call -> Seq(Statement)]
        /\ \A d \in Call : d # c => todo'[d] = todo[d]
        /\ (\A d \in Call : \A i \in DOMAIN todo[d] : NamesItsRow(todo[d][i]))'
    BY <2>1, <2>3, <2>4, QueueEffect
  <2>6. pc'[c] = "work" /\ \A d \in Call : d # c => pc'[d] = pc[d]
    BY <2>1 DEF TypeOK
  <2>7. TypeOK'
    BY <2>1, <2>5 DEF TypeOK, Active
  <2>8. JobState'
    BY <2>1, <2>2, <2>6 DEF JobState
  <2>9. QueueState'
    BY <2>1, <2>5, <2>6 DEF QueueState, Head1
  <2> QED BY <2>7, <2>8, <2>9
<1>2. CASE ~CheckPasses(c)
  BY <1>2, RollbackShape DEF Check, Active
<1> QED BY <1>1, <1>2

(* The rows removeBaseRel takes are those it sees, all of them.            *)
LEMMA ClearedRows ==
    ASSUME NEW found \in SUBSET Row, NEW rows \in SetToSeqs(found)
    PROVE  LET deletes == [i \in DOMAIN rows |-> Do("delete", rows[i], 0)]
           IN /\ deletes \in Seq(Statement)
              /\ \A i \in DOMAIN deletes : deletes[i].do = "delete" /\ deletes[i].row \in Row
              /\ \A r \in found : \E i \in DOMAIN deletes : deletes[i].row = r
<1> DEFINE n       == Cardinality(found)
           places  == 1 .. n
           deletes == [i \in DOMAIN rows |-> Do("delete", rows[i], 0)]
<1>1. IsFiniteSet(found) /\ n \in Nat
  BY ConstantsAssumption, FS_Subset, FS_CardinalityType
<1>2. rows \in [places -> found] /\ \A i, k \in places : i # k => rows[i] # rows[k]
  BY DEF SetToSeqs
<1>3. IsFiniteSet(places) /\ Cardinality(places) = n
  <2>1. 1 \in Int /\ n \in Int /\ (1 > n => n = 0) /\ n - 1 + 1 = n
    BY <1>1
  <2> QED BY <2>1, FS_Interval
<1>4. rows \in Injection(places, found)
  BY <1>2 DEF Injection, IsInjective
<1>5. rows \in Surjection(places, found)
  <2> HIDE DEF n, places
  <2> QED BY <1>1, <1>3, <1>4, FS_Injection DEF n
<1>6. 0 \in Position
  BY ConstantsAssumption DEF Position
<1>7. deletes \in [places -> Statement]
  BY <1>2, <1>6 DEF Do, Statement
<1>8. deletes \in Seq(Statement)
  BY <1>1, <1>7, SeqDef
<1>9. \A i \in DOMAIN deletes : deletes[i].do = "delete" /\ deletes[i].row \in Row
  BY <1>2 DEF Do
<1>10. \A r \in found : \E i \in DOMAIN deletes : deletes[i].row = r
  BY <1>2, <1>5 DEF Surjection, Do
<1> QED BY <1>8, <1>9, <1>10

(* What removeBaseRel leaves to do.                                        *)
LEMMA ClearEffect ==
    ASSUME Shape, NEW c \in Call, ClearSource(c)
    PROVE  \E deletes \in Seq(Statement) :
              /\ \A i \in DOMAIN deletes : deletes[i].do = "delete" /\ deletes[i].row \in Row
              /\ \A r \in SeenOf(c, job[c].source) : \E i \in DOMAIN deletes : deletes[i].row = r
              /\ todo' = [todo EXCEPT ![c] = deletes \o Tail(todo[c])]
<1>1. PICK rows \in SetToSeqs(SeenOf(c, job[c].source)) :
         todo' = [todo EXCEPT ![c] = [i \in DOMAIN rows |-> Do("delete", rows[i], 0)] \o Tail(@)]
  BY DEF ClearSource
<1> DEFINE deletes == [i \in DOMAIN rows |-> Do("delete", rows[i], 0)]
<1>2. SeenOf(c, job[c].source) \in SUBSET Row
  BY DEF SeenOf
<1>3. /\ deletes \in Seq(Statement)
      /\ \A i \in DOMAIN deletes : deletes[i].do = "delete" /\ deletes[i].row \in Row
      /\ \A r \in SeenOf(c, job[c].source) : \E i \in DOMAIN deletes : deletes[i].row = r
  BY <1>2, ClearedRows
<1>4. todo' = [todo EXCEPT ![c] = deletes \o Tail(todo[c])]
  BY <1>1
<1> HIDE DEF deletes
<1> QED BY <1>3, <1>4

(* removeBaseRel's lookup keeps the shape.                                 *)
LEMMA ClearShape ==
    ASSUME Shape, NEW c \in Call, ClearSource(c)
    PROVE  Shape'
<1> USE DEF Shape
<1>1. /\ pc[c] = "work" /\ todo[c] # <<>>
      /\ UNCHANGED <<kind, table, issued, pc, job, own, wrote, made, last, removed, unsure, raced>>
  BY DEF ClearSource, history
<1>2. PICK deletes \in Seq(Statement) :
         /\ \A i \in DOMAIN deletes : deletes[i].do = "delete" /\ deletes[i].row \in Row
         /\ todo' = [todo EXCEPT ![c] = deletes \o Tail(todo[c])]
  BY ClearEffect
<1> DEFINE q == deletes \o Tail(todo[c])
<1>3. q \in Seq(Statement) /\ \A i \in DOMAIN q : NamesItsRow(q[i])
  <2>1. \A i \in DOMAIN deletes : NamesItsRow(deletes[i])
    BY <1>2 DEF NamesItsRow
  <2>2. /\ Tail(todo[c]) \in Seq(Statement)
        /\ \A i \in DOMAIN Tail(todo[c]) : NamesItsRow(Tail(todo[c])[i])
    BY <1>1, HeadEffect
  <2> QED BY <1>2, <2>1, <2>2, ConcatElements
<1>4. todo' = [todo EXCEPT ![c] = q]
  BY <1>2
<1> HIDE DEF q
<1>5. /\ todo' \in [Call -> Seq(Statement)]
      /\ \A d \in Call : d # c => todo'[d] = todo[d]
      /\ (\A d \in Call : \A i \in DOMAIN todo[d] : NamesItsRow(todo[d][i]))'
  BY <1>1, <1>3, <1>4, QueueEffect
<1>6. TypeOK'
  BY <1>1, <1>5 DEF TypeOK
<1>7. JobState'
  BY <1>1 DEF JobState
<1>8. QueueState'
  BY <1>1, <1>5 DEF QueueState, Head1
<1> QED BY <1>6, <1>7, <1>8

(* A call that is through its statements keeps the shape.                  *)
LEMMA FinishShape ==
    ASSUME Shape, NEW c \in Call, Finish(c)
    PROVE  Shape'
<1> USE DEF Shape
<1>1. /\ pc[c] = "work" /\ todo[c] = <<>> /\ pc' = [pc EXCEPT ![c] = "commit"]
      /\ UNCHANGED <<kind, table, issued, job, todo, own, wrote, made, last, removed, unsure, raced>>
  BY DEF Finish, Goto, history
<1>2. pc'[c] = "commit" /\ \A d \in Call : d # c => pc'[d] = pc[d]
  BY <1>1 DEF TypeOK
<1>3. TypeOK'
  BY <1>1 DEF TypeOK, Active
<1>4. JobState'
  BY <1>1, <1>2 DEF JobState
<1>5. QueueState'
  BY <1>1, <1>2 DEF QueueState, Head1, NamesItsRow
<1> QED BY <1>3, <1>4, <1>5

(* A commit, row by row and call by call.                                  *)
LEMMA CommitEffect ==
    ASSUME Shape, NEW c \in Call, Commit(c)
    PROVE  /\ pc[c] = "commit"
           /\ \A r \in Row : table'[r] = IF own[c][r] # Same THEN own[c][r] ELSE table[r]
           /\ \A r \in Row : last'[r] = IF own[c][r] # Same THEN c ELSE last[r]
           /\ \A r \in Row : r \in wrote'[c] <=>
                 own[c][r] # Same /\ own[c][r] # None /\ table[r] # None
           /\ \A r \in Row : r \in made'[c] <=> own[c][r] # Same /\ table[r] = None
           /\ \A r \in Row : r \in removed' <=> r \in removed \/ own[c][r] = None
           /\ own'[c] = Untouched
           /\ \A d \in Call : d # c => /\ own'[d] = own[d] /\ pc'[d] = pc[d]
                                       /\ wrote'[d] = wrote[d] /\ made'[d] = made[d]
           /\ \/ pc'[c] = "done" /\ unsure' = unsure
              \/ pc'[c] = "error" /\ unsure' = unsure \cup {c}
           /\ UNCHANGED <<kind, issued, job, todo, raced>>
           /\ table' \in [Row -> Content \cup {None}]
           /\ own' \in [Call -> [Row -> Content \cup {None, Same}]]
           /\ pc' \in [Call -> {"idle", "done", "error"} \cup Active]
           /\ wrote' \in [Call -> SUBSET Row] /\ made' \in [Call -> SUBSET Row]
           /\ last' \in [Row -> Call \cup {None}]
           /\ removed' \in SUBSET Row /\ unsure' \in SUBSET Call
<1> USE DEF Shape, TypeOK
<1> DEFINE written == {r \in Row : own[c][r] # Same}
           kept    == {r \in written : own[c][r] # None}
<1>1. /\ table' = [r \in Row |-> Seen(c, r)]
      /\ own' = [own EXCEPT ![c] = Untouched]
      /\ last' = [r \in Row |-> IF r \in written THEN c ELSE last[r]]
      /\ wrote' = [wrote EXCEPT ![c] = {r \in kept : table[r] # None}]
      /\ made' = [made EXCEPT ![c] = {r \in written : table[r] = None}]
      /\ removed' = removed \cup (written \ kept)
      /\ pc[c] = "commit" /\ UNCHANGED <<kind, issued, job, todo, raced>>
  BY DEF Commit, Publish
<1>2. \/ pc' = [pc EXCEPT ![c] = "done"] /\ unsure' = unsure
      \/ pc' = [pc EXCEPT ![c] = "error"] /\ unsure' = unsure \cup {c}
  BY DEF Commit, Goto
<1>3. \A r \in Row : table'[r] = IF own[c][r] # Same THEN own[c][r] ELSE table[r]
  BY <1>1 DEF Seen
<1>4. /\ \A r \in Row : last'[r] = IF own[c][r] # Same THEN c ELSE last[r]
      /\ last' \in [Row -> Call \cup {None}]
  BY <1>1
<1>5. /\ \A r \in Row : r \in wrote'[c] <=>
            own[c][r] # Same /\ own[c][r] # None /\ table[r] # None
      /\ \A d \in Call : d # c => wrote'[d] = wrote[d]
      /\ wrote' \in [Call -> SUBSET Row]
  BY <1>1
<1>6. /\ \A r \in Row : r \in made'[c] <=> own[c][r] # Same /\ table[r] = None
      /\ \A d \in Call : d # c => made'[d] = made[d]
      /\ made' \in [Call -> SUBSET Row]
  BY <1>1
<1>7. /\ \A r \in Row : r \in removed' <=> r \in removed \/ own[c][r] = None
      /\ removed' \in SUBSET Row
  BY <1>1, ConstantsAssumption
<1>8. table' \in [Row -> Content \cup {None}]
  <2>1. \A r \in Row : Seen(c, r) \in Content \cup {None}
    BY DEF Seen
  <2> QED BY <1>1, <2>1
<1>9. /\ own'[c] = Untouched /\ \A d \in Call : d # c => own'[d] = own[d]
      /\ own' \in [Call -> [Row -> Content \cup {None, Same}]]
  BY <1>1 DEF Untouched
<1>10. /\ \A d \in Call : d # c => pc'[d] = pc[d]
       /\ pc' \in [Call -> {"idle", "done", "error"} \cup Active]
       /\ unsure' \in SUBSET Call
       /\ \/ pc'[c] = "done" /\ unsure' = unsure
          \/ pc'[c] = "error" /\ unsure' = unsure \cup {c}
  BY <1>2
<1> QED BY <1>1, <1>3, <1>4, <1>5, <1>6, <1>7, <1>8, <1>9, <1>10

(* A commit keeps the shape.                                               *)
LEMMA CommitShape ==
    ASSUME Shape, NEW c \in Call, Commit(c)
    PROVE  Shape'
<1> USE DEF Shape
<1>1. TypeOK'
  BY CommitEffect DEF TypeOK
<1>2. JobState'
  <2>1. ASSUME NEW d \in Call, d # c
        PROVE  pc'[d] = pc[d] /\ own'[d] = own[d] /\ job'[d] = job[d]
            /\ wrote'[d] = wrote[d] /\ made'[d] = made[d] /\ kind' = kind
    BY <2>1, CommitEffect
  <2>2. /\ pc[c] = "commit" /\ pc'[c] \in {"done", "error"} /\ own'[c] = Untouched
        /\ job'[c] = job[c] /\ kind' = kind
    BY CommitEffect
  <2> QED BY <2>1, <2>2 DEF JobState
<1>3. QueueState'
  BY CommitEffect DEF QueueState, Head1, NamesItsRow
<1> QED BY <1>1, <1>2, <1>3

(* upsert's findOne leads to a create or to an update.                     *)
LEMMA FindEffect ==
    ASSUME Shape, NEW c \in Call, UpsertFind(c)
    PROVE  /\ pc[c] = "find" /\ job[c] \in Upsert /\ kind = "content" /\ own[c] = Untouched
           /\ UNCHANGED <<kind, table, issued, job, own, wrote, made, last, removed, unsure>>
           /\ \/ /\ SeenOf(c, job[c].source) = {} /\ pc' = [pc EXCEPT ![c] = "insert"]
                 /\ raced' = raced \cup {s \in Source : \E d \in Call :
                                pc[d] = "insert" /\ job[d].source = s /\ s = job[c].source}
                 /\ todo' = todo
              \/ /\ raced' = raced /\ pc' = [pc EXCEPT ![c] = "update"]
                 /\ \E r \in Row : todo' = [todo EXCEPT ![c] = <<Do("update", r, job[c].sequence)>>]
<1>1. pc[c] = "find" /\ job[c] \in Upsert /\ kind = "content" /\ own[c] = Untouched
  BY DEF UpsertFind, Shape, JobState
<1>2. SeenOf(c, job[c].source) \subseteq Row
  BY DEF SeenOf
<1> QED BY <1>1, <1>2 DEF UpsertFind, Goto

(* upsert's findOne keeps the shape.                                       *)
LEMMA FindShape ==
    ASSUME Shape, NEW c \in Call, UpsertFind(c)
    PROVE  Shape'
<1> USE DEF Shape
<1>1. /\ pc[c] = "find" /\ job[c] \in Upsert
      /\ UNCHANGED <<kind, table, issued, job, own, wrote, made, last, removed, unsure>>
  BY FindEffect
<1>2. CASE /\ pc' = [pc EXCEPT ![c] = "insert"] /\ todo' = todo
           /\ raced' = raced \cup {s \in Source : \E d \in Call :
                          pc[d] = "insert" /\ job[d].source = s /\ s = job[c].source}
  <2>1. pc'[c] = "insert" /\ \A d \in Call : d # c => pc'[d] = pc[d]
    BY <1>2 DEF TypeOK
  <2>2. raced' \in SUBSET Source
    BY <1>2 DEF TypeOK
  <2>3. TypeOK'
    BY <1>1, <1>2, <2>2 DEF TypeOK, Active
  <2>4. JobState'
    BY <1>1, <2>1 DEF JobState
  <2>5. QueueState'
    BY <1>1, <1>2, <2>1 DEF QueueState, Head1, NamesItsRow
  <2> QED BY <2>3, <2>4, <2>5
<1>3. ASSUME raced' = raced, pc' = [pc EXCEPT ![c] = "update"], NEW r \in Row,
             todo' = [todo EXCEPT ![c] = <<Do("update", r, job[c].sequence)>>]
      PROVE  Shape'
  <2>1. pc'[c] = "update" /\ \A d \in Call : d # c => pc'[d] = pc[d]
    BY <1>3 DEF TypeOK
  <2> DEFINE q == <<Do("update", r, job[c].sequence)>>
  <2>2. /\ q \in Seq(Statement) /\ q # <<>> /\ Head(q).do = "update"
        /\ \A i \in DOMAIN q : NamesItsRow(q[i])
    <3>1. job[c].sequence \in Position
      BY <1>1 DEF Upsert
    <3>2. Do("update", r, job[c].sequence) \in Statement
      BY <3>1 DEF Do, Statement
    <3>3. NamesItsRow(Do("update", r, job[c].sequence))
      BY DEF Do, NamesItsRow
    <3> QED BY <3>2, <3>3 DEF Do
  <2>3. todo' = [todo EXCEPT ![c] = q]
    BY <1>3
  <2> HIDE DEF q
  <2>4. /\ todo' \in [Call -> Seq(Statement)] /\ todo'[c] = q
        /\ \A d \in Call : d # c => todo'[d] = todo[d]
        /\ (\A d \in Call : \A i \in DOMAIN todo[d] : NamesItsRow(todo[d][i]))'
    BY <1>1, <2>2, <2>3, QueueEffect
  <2>5. TypeOK'
    BY <1>1, <1>3, <2>4 DEF TypeOK, Active
  <2>6. JobState'
    BY <1>1, <2>1 DEF JobState
  <2>7. QueueState'
    BY <1>1, <2>1, <2>2, <2>4 DEF QueueState, Head1
  <2> QED BY <2>5, <2>6, <2>7
<1> QED BY <1>2, <1>3, FindEffect

(* upsert's create commits a row of a uuid never given out.                *)
LEMMA InsertEffect ==
    ASSUME Shape, NEW c \in Call, UpsertInsert(c)
    PROVE  /\ pc[c] = "insert" /\ job[c] \in Upsert /\ kind = "content" /\ own[c] = Untouched
           /\ UNCHANGED <<kind, job, todo, own, wrote, removed, unsure, raced>>
           /\ pc' = [pc EXCEPT ![c] = "done"]
           /\ \E r \in Row \ issued, row \in Content :
                 /\ row.source = job[c].source /\ row # None
                 /\ table' = [table EXCEPT ![r] = row] /\ issued' = issued \cup {r}
                 /\ made' = [made EXCEPT ![c] = {r}] /\ last' = [last EXCEPT ![r] = c]
<1>1. pc[c] = "insert" /\ job[c] \in Upsert /\ kind = "content" /\ own[c] = Untouched
  BY DEF UpsertInsert, Shape, JobState
<1> DEFINE row == [source |-> job[c].source, sequence |-> job[c].sequence]
<1>2. row \in Content /\ row.source = job[c].source /\ row # None
  BY <1>1, ConstantsAssumption DEF Upsert, Content
<1>3. \E r \in Row \ issued :
         /\ table' = [table EXCEPT ![r] = row] /\ issued' = issued \cup {r}
         /\ made' = [made EXCEPT ![c] = {r}] /\ last' = [last EXCEPT ![r] = c]
  BY DEF UpsertInsert
<1> HIDE DEF row
<1> QED BY <1>1, <1>2, <1>3 DEF UpsertInsert, Goto

(* upsert's create keeps the shape.                                        *)
LEMMA InsertShape ==
    ASSUME Shape, NEW c \in Call, UpsertInsert(c)
    PROVE  Shape'
<1> USE DEF Shape
<1>1. /\ pc[c] = "insert" /\ pc' = [pc EXCEPT ![c] = "done"]
      /\ UNCHANGED <<kind, job, todo, own, wrote, removed, unsure, raced>>
  BY InsertEffect
<1>2. PICK r \in Row \ issued, row \in Content :
         /\ row.source = job[c].source /\ row # None
         /\ table' = [table EXCEPT ![r] = row] /\ issued' = issued \cup {r}
         /\ made' = [made EXCEPT ![c] = {r}] /\ last' = [last EXCEPT ![r] = c]
  BY InsertEffect
<1>3. /\ pc'[c] = "done" /\ \A d \in Call : d # c => pc'[d] = pc[d] /\ made'[d] = made[d]
  BY <1>1, <1>2 DEF TypeOK
<1>4. TypeOK'
  BY <1>1, <1>2 DEF TypeOK
<1>5. JobState'
  BY <1>1, <1>3 DEF JobState
<1>6. QueueState'
  BY <1>1, <1>3 DEF QueueState, Head1, NamesItsRow
<1> QED BY <1>4, <1>5, <1>6

(* upsert's update changes the place of a row that is there and not locked. *)
LEMMA UpdateEffect ==
    ASSUME Shape, NEW c \in Call, UpsertUpdate(c)
    PROVE  /\ pc[c] = "update" /\ job[c] \in Upsert /\ kind = "content" /\ own[c] = Untouched
           /\ pc' = [pc EXCEPT ![c] = "done"]
           /\ todo[c] # <<>> /\ todo' = [todo EXCEPT ![c] = Tail(todo[c])]
           /\ UNCHANGED <<kind, issued, job, own, made, removed, unsure, raced>>
           /\ \/ UNCHANGED <<table, last, wrote>>
              \/ \E r \in Row, row \in Content :
                    /\ table[r] # None /\ row.source = table[r].source /\ row # None
                    /\ ~LockedFor(c, r) /\ table' = [table EXCEPT ![r] = row]
                    /\ last' = [last EXCEPT ![r] = c] /\ wrote' = [wrote EXCEPT ![c] = {r}]
<1>1. pc[c] = "update" /\ job[c] \in Upsert /\ kind = "content" /\ own[c] = Untouched
      /\ todo[c] # <<>> /\ Head1(c).do = "update"
  BY DEF UpsertUpdate, Shape, JobState, QueueState
<1>2. Head1(c).row \in Row /\ Head1(c).sequence \in Position
  BY <1>1, HeadEffect DEF NamesItsRow, Statement
<1> DEFINE r   == Head1(c).row
           row == [table[r] EXCEPT !.sequence = Head1(c).sequence]
<1>3. CASE table[r] # None
  <2>1. table[r] \in Content
    BY <1>2, <1>3 DEF Shape, TypeOK
  <2>2. row \in Content /\ row.source = table[r].source /\ row # None
    BY <1>2, <2>1, ConstantsAssumption DEF Content
  <2>3. table' = [table EXCEPT ![r] = row]
    BY <1>3 DEF UpsertUpdate
  <2>4. /\ ~LockedFor(c, r) /\ last' = [last EXCEPT ![r] = c]
        /\ wrote' = [wrote EXCEPT ![c] = {r}]
    BY <1>3 DEF UpsertUpdate
  <2> HIDE DEF row, r
  <2> QED BY <1>1, <1>2, <1>3, <2>2, <2>3, <2>4 DEF UpsertUpdate, Goto, Next1, r
<1>4. CASE table[r] = None
  BY <1>1, <1>4 DEF UpsertUpdate, Goto, Next1
<1> QED BY <1>3, <1>4

(* upsert's update keeps the shape.                                        *)
LEMMA UpdateShape ==
    ASSUME Shape, NEW c \in Call, UpsertUpdate(c)
    PROVE  Shape'
<1> USE DEF Shape
<1>1. /\ pc[c] = "update" /\ pc' = [pc EXCEPT ![c] = "done"]
      /\ todo[c] # <<>> /\ todo' = [todo EXCEPT ![c] = Tail(todo[c])]
      /\ UNCHANGED <<kind, issued, job, own, made, removed, unsure, raced>>
  BY UpdateEffect
<1>2. /\ table' \in [Row -> Content \cup {None}] /\ last' \in [Row -> Call \cup {None}]
      /\ wrote' \in [Call -> SUBSET Row]
      /\ \A d \in Call : d # c => wrote'[d] = wrote[d]
  <2>1. CASE UNCHANGED <<table, last, wrote>>
    BY <2>1 DEF TypeOK
  <2>2. ASSUME NEW r \in Row, NEW row \in Content, table' = [table EXCEPT ![r] = row],
               last' = [last EXCEPT ![r] = c], wrote' = [wrote EXCEPT ![c] = {r}]
        PROVE  <1>2
    BY <2>2 DEF TypeOK
  <2> QED BY <2>1, <2>2, UpdateEffect
<1>3. /\ todo' \in [Call -> Seq(Statement)]
      /\ \A d \in Call : d # c => todo'[d] = todo[d]
      /\ (\A d \in Call : \A i \in DOMAIN todo[d] : NamesItsRow(todo[d][i]))'
  BY <1>1, HeadEffect, QueueEffect
<1>4. /\ pc'[c] = "done" /\ \A d \in Call : d # c => pc'[d] = pc[d]
  BY <1>1 DEF TypeOK
<1>5. TypeOK'
  BY <1>1, <1>2, <1>3 DEF TypeOK
<1>6. JobState'
  BY <1>1, <1>2, <1>4 DEF JobState
<1>7. QueueState'
  BY <1>1, <1>3, <1>4 DEF QueueState, Head1
<1> QED BY <1>5, <1>6, <1>7

-----------------------------------------------------------------------------
(* The kinds of step there are; one that begins, checks, looks up or       *)
(* finishes writes nothing.                                                *)
Begins(c) == CallOrder(c) \/ CallProcess(c) \/ CallUpsert(c)

Passes(c) == Check(c) /\ CheckPasses(c)

Looks(c) == Begins(c) \/ Passes(c) \/ ClearSource(c) \/ Finish(c) \/ UpsertFind(c)

RollsBack(c) == pc[c] \in Active /\ Rollback(c)

Works(c) == Effect(c) /\ (UpdateRow(c) \/ DeleteRow(c) \/ InsertRow(c))

Acts(c) ==
    \/ Looks(c) \/ RollsBack(c) \/ Works(c) \/ Commit(c) \/ UpsertInsert(c) \/ UpsertUpdate(c)

Quiet(c) ==
    /\ pc[c] \notin {"commit", "done", "error"} /\ pc'[c] \notin {"done", "error"}
    /\ UNCHANGED <<kind, table, issued, own, wrote, made, last, removed, unsure>>
    /\ raced \subseteq raced'
    /\ \A d \in Call : d # c => pc'[d] = pc[d] /\ job'[d] = job[d] /\ todo'[d] = todo[d]

(* What a call does once it has begun, and every step is of these kinds.   *)
LEMMA OwnCases ==
    ASSUME Shape, NEW c \in Call, Step(c) \/ Fail(c)
    PROVE  \/ Passes(c) \/ ClearSource(c) \/ Finish(c) \/ UpsertFind(c) \/ RollsBack(c)
           \/ Works(c) \/ Commit(c) \/ UpsertInsert(c) \/ UpsertUpdate(c)
<1>1. CASE Check(c) /\ ~CheckPasses(c)
  BY <1>1 DEF Check, RollsBack, Active
<1>2. CASE BreakCircle(c)
  BY <1>2 DEF BreakCircle, InCircle, Waits, RollsBack, Active
<1>3. CASE Fail(c)
  BY <1>3 DEF Fail, RollsBack
<1>4. CASE UpdateRow(c) \/ DeleteRow(c) \/ InsertRow(c)
  BY <1>4, StatementEffect DEF RollsBack, Active, Works
<1> QED BY <1>1, <1>2, <1>3, <1>4 DEF Step, Passes

LEMMA StepCases ==
    ASSUME Shape, Next
    PROVE  \E c \in Call : Acts(c)
BY OwnCases DEF Next, Begins, Looks, Acts

(* The steps that look write nothing.                                      *)
LEMMA QuietSteps ==
    ASSUME Shape, NEW c \in Call, Looks(c)
    PROVE  Quiet(c)
<1> USE DEF Shape, TypeOK
<1>1. CASE Begins(c)
  <2>1. PICK j, label, q : label \in {"check", "work", "find"} /\ Begin(c, j, label, q)
    BY <1>1, BeginEffect DEF Begins
  <2> QED BY <2>1 DEF Begin, Goto, history, Quiet
<1>2. CASE Passes(c)
  BY <1>2 DEF Passes, Check, Goto, history, Quiet
<1>3. CASE ClearSource(c)
  <2>1. \A d \in Call : d # c => todo'[d] = todo[d]
    BY <1>3, ClearEffect
  <2> QED BY <1>3, <2>1 DEF ClearSource, history, Quiet
<1>4. CASE Finish(c)
  BY <1>4 DEF Finish, Goto, history, Quiet
<1>5. CASE UpsertFind(c)
  <2>1. /\ pc[c] = "find" /\ raced \subseteq raced'
        /\ UNCHANGED <<kind, table, issued, job, own, wrote, made, last, removed, unsure>>
        /\ (pc' = [pc EXCEPT ![c] = "insert"] /\ todo' = todo) \/ pc' = [pc EXCEPT ![c] = "update"]
    BY <1>5, FindEffect
  <2>2. \A d \in Call : d # c => todo'[d] = todo[d]
    <3>1. CASE todo' = todo
      BY <3>1
    <3>2. ASSUME NEW q, todo' = [todo EXCEPT ![c] = q] PROVE <2>2
      BY <3>2
    <3> QED BY <1>5, <3>1, <3>2, FindEffect
  <2> QED BY <2>1, <2>2 DEF Quiet
<1> QED BY <1>1, <1>2, <1>3, <1>4, <1>5 DEF Looks

(* Every step keeps the shape.                                             *)
THEOREM ShapeStep == Shape /\ [Next]_vars => Shape'
<1> SUFFICES ASSUME Shape, [Next]_vars PROVE Shape'
  OBVIOUS
<1>1. CASE Next
  <2>1. PICK c \in Call : Acts(c)
    BY <1>1, StepCases
  <2> QED BY <2>1, BeginShape, CheckShape, ClearShape, FinishShape, FindShape, RollbackShape,
             EffectShape, CommitShape, InsertShape, UpdateShape
             DEF Acts, Works, Looks, Begins, Passes, RollsBack
<1>2. CASE UNCHANGED vars
  BY <1>2 DEF vars, transaction, history, Shape, TypeOK, JobState, QueueState, Head1, NamesItsRow
<1> QED BY <1>1, <1>2

-----------------------------------------------------------------------------
(* What a rollback does, call by call.                                     *)
LEMMA RollbackEffect ==
    ASSUME Shape, NEW c \in Call, RollsBack(c)
    PROVE  /\ pc[c] \in Active /\ pc'[c] = "error" /\ todo'[c] = <<>> /\ own'[c] = Untouched
           /\ UNCHANGED <<kind, table, issued, job, wrote, made, last, removed, unsure, raced>>
           /\ \A d \in Call : d # c => pc'[d] = pc[d] /\ todo'[d] = todo[d] /\ own'[d] = own[d]
BY DEF Shape, TypeOK, RollsBack, Rollback, Goto, history

(* What a statement does to the rows its transaction has written.          *)
LEMMA RowEffect ==
    ASSUME Shape, LockState, NEW c \in Call, Effect(c)
    PROVE  /\ pc[c] = "work" /\ todo[c] # <<>> /\ todo'[c] = Tail(todo[c])
           /\ UNCHANGED <<kind, table, pc, job, wrote, made, last, removed, unsure, raced>>
           /\ issued \subseteq issued'
           /\ \A d \in Call : d # c => own'[d] = own[d] /\ todo'[d] = todo[d]
           /\ \A r \in Row : own[c][r] # Same => own'[c][r] # Same
           /\ \A r \in Row : own'[c][r] # own[c][r] =>
                 /\ own'[c][r] \in Content \cup {None}
                 /\ \A d \in Call : d # c => own[d][r] = Same
                 /\ kind = "content" => r \in issued'
                 /\ own'[c][r] # None =>
                       \/ Seen(c, r) # None /\ own'[c][r].source = Seen(c, r).source
                       \/ Seen(c, r) = None /\ own'[c][r].source = job[c].source
                          /\ (kind = "content" => r \notin issued)
<1> USE DEF Shape, TypeOK
<1>1. /\ pc[c] = "work" /\ todo[c] # <<>> /\ todo'[c] = Tail(todo[c])
      /\ UNCHANGED <<kind, table, pc, job, wrote, made, last, removed, unsure, raced>>
      /\ \A d \in Call : d # c => todo'[d] = todo[d]
  BY DEF Effect, Next1, history
<1>2. CASE UNCHANGED <<own, issued>>
  BY <1>1, <1>2
<1>3. ASSUME NEW q \in Row, NEW value \in Content \cup {None}, RowWritten(c, q, value)
      PROVE  /\ issued \subseteq issued'
             /\ \A d \in Call : d # c => own'[d] = own[d]
             /\ \A r \in Row : own[c][r] # Same => own'[c][r] # Same
             /\ \A r \in Row : own'[c][r] # own[c][r] =>
                   /\ own'[c][r] \in Content \cup {None}
                   /\ \A d \in Call : d # c => own[d][r] = Same
                   /\ kind = "content" => r \in issued'
                   /\ own'[c][r] # None =>
                         \/ Seen(c, r) # None /\ own'[c][r].source = Seen(c, r).source
                         \/ Seen(c, r) = None /\ own'[c][r].source = job[c].source
                            /\ (kind = "content" => r \notin issued)
  <2>1. /\ own'[c][q] = value /\ value # Same
        /\ \A d \in Call : d # c => own'[d] = own[d]
        /\ \A r \in Row : r # q => own'[c][r] = own[c][r]
    BY <1>3, WriteEffect, ConstantsAssumption DEF RowWritten
  <2>2. issued \subseteq issued'
    BY <1>3 DEF RowWritten
  <2>3. \A d \in Call : d # c => own[d][q] = Same
    BY <1>3 DEF RowWritten, LockedFor, LockState
  <2>4. kind = "content" => q \in issued'
    BY <1>3 DEF RowWritten, Seen, LockState
  <2>5. value # None =>
           \/ Seen(c, q) # None /\ value.source = Seen(c, q).source
           \/ Seen(c, q) = None /\ value.source = job[c].source
              /\ (kind = "content" => q \notin issued)
    <3>1. kind = "content" /\ q \notin issued => Seen(c, q) = None
      BY DEF Seen, LockState
    <3> QED BY <1>3, <3>1 DEF RowWritten
  <2> QED BY <2>1, <2>2, <2>3, <2>4, <2>5
<1> QED BY <1>1, <1>2, <1>3 DEF Effect

(* No step lets two transactions have written a row.                       *)
LEMMA LockStep == Shape /\ LockState /\ [Next]_vars => LockState'
<1> SUFFICES ASSUME Shape, LockState, [Next]_vars PROVE LockState'
  OBVIOUS
<1>1. CASE Next
  <2>1. PICK c \in Call : Acts(c)
    BY <1>1, StepCases
  <2>2. CASE Looks(c)
    BY <2>2, QuietSteps DEF Quiet, LockState
  <2>3. CASE RollsBack(c)
    BY <2>3, RollbackEffect DEF LockState, Untouched
  <2>4. CASE Works(c)
    <3>1. \A d, e \in Call : \A r \in Row : own'[d][r] # Same /\ own'[e][r] # Same => d = e
      BY <2>4, RowEffect DEF Works, LockState
    <3>2. kind' = "content" => \A r \in Row :
             /\ table'[r] # None => r \in issued'
             /\ \A d \in Call : own'[d][r] # Same \/ r \in made'[d] => r \in issued'
      BY <2>4, RowEffect DEF Works, LockState
    <3> QED BY <3>1, <3>2 DEF LockState
  <2>5. CASE Commit(c)
    <3>1. \A d, e \in Call : \A r \in Row : own'[d][r] # Same /\ own'[e][r] # Same => d = e
      BY <2>5, CommitEffect DEF LockState, Untouched
    <3>2. ASSUME kind = "content", NEW r \in Row
          PROVE  /\ table'[r] # None => r \in issued
                 /\ \A d \in Call : own'[d][r] # Same \/ r \in made'[d] => r \in issued
      <4>1. /\ table'[r] = IF own[c][r] # Same THEN own[c][r] ELSE table[r]
            /\ r \in made'[c] <=> own[c][r] # Same /\ table[r] = None
            /\ own'[c][r] = Same
            /\ \A d \in Call : d # c => own'[d] = own[d] /\ made'[d] = made[d]
        BY <2>5, CommitEffect DEF Untouched
      <4> QED BY <3>2, <4>1 DEF LockState
    <3>3. kind' = kind /\ issued' = issued
      BY <2>5, CommitEffect
    <3> QED BY <3>1, <3>2, <3>3 DEF LockState
  <2>6. CASE UpsertInsert(c)
    <3>1. UNCHANGED <<kind, own>> /\ issued \subseteq issued'
      BY <2>6, InsertEffect
    <3>2. PICK q \in Row, row \in Content :
             /\ table' = [table EXCEPT ![q] = row] /\ issued' = issued \cup {q}
             /\ made' = [made EXCEPT ![c] = {q}]
      BY <2>6, InsertEffect
    <3> QED BY <3>1, <3>2 DEF LockState, Shape, TypeOK
  <2>7. CASE UpsertUpdate(c)
    <3>1. UNCHANGED <<kind, issued, own, made>>
      BY <2>7, UpdateEffect
    <3>2. \A r \in Row : table'[r] # None => table[r] # None
      BY <2>7, UpdateEffect DEF Shape, TypeOK
    <3> QED BY <3>1, <3>2 DEF LockState
  <2> QED BY <2>1, <2>2, <2>3, <2>4, <2>5, <2>6, <2>7 DEF Acts, Looks
<1>2. CASE UNCHANGED vars
  BY <1>2 DEF vars, transaction, history, LockState
<1> QED BY <1>1, <1>2

(* An error's call is no row's last writer, unless its commit took effect. *)
LEMMA ErrorStep == Shape /\ LockState /\ ErrorState /\ [Next]_vars => ErrorState'
<1> SUFFICES ASSUME Shape, LockState, ErrorState, [Next]_vars PROVE ErrorState'
  OBVIOUS
<1>1. CASE Next
  <2>1. PICK c \in Call : Acts(c)
    BY <1>1, StepCases
  <2>0. /\ unsure \subseteq Call
        /\ pc[c] \notin {"done", "error"} => c \notin unsure /\ \A r \in Row : last[r] # c
    BY DEF ErrorState, Shape, TypeOK
  <2>2. CASE Looks(c)
    BY <2>2, QuietSteps DEF Quiet, ErrorState, Shape, TypeOK
  <2>3. CASE RollsBack(c)
    <3>1. /\ pc[c] \notin {"done", "error"} /\ pc'[c] = "error"
          /\ \A d \in Call : d # c => pc'[d] = pc[d]
          /\ UNCHANGED <<last, unsure>>
      BY <2>3, RollbackEffect DEF Active
    <3> QED BY <2>0, <3>1 DEF ErrorState
  <2>4. CASE Works(c)
    BY <2>4, RowEffect DEF Works, ErrorState
  <2>5. CASE Commit(c)
    <3>1. /\ pc[c] = "commit" /\ \A d \in Call : d # c => pc'[d] = pc[d]
          /\ \A r \in Row : last'[r] = c \/ last'[r] = last[r]
          /\ \/ pc'[c] = "done" /\ unsure' = unsure
             \/ pc'[c] = "error" /\ unsure' = unsure \cup {c}
      BY <2>5, CommitEffect
    <3> QED BY <2>0, <3>1 DEF ErrorState
  <2>6. CASE UpsertInsert(c)
    <3>1. /\ pc[c] = "insert" /\ pc'[c] = "done" /\ unsure' = unsure
          /\ \A d \in Call : d # c => pc'[d] = pc[d]
          /\ \A r \in Row : last'[r] = c \/ last'[r] = last[r]
      BY <2>6, InsertEffect DEF Shape, TypeOK
    <3> QED BY <2>0, <3>1 DEF ErrorState
  <2>7. CASE UpsertUpdate(c)
    <3>1. /\ pc[c] = "update" /\ pc'[c] = "done" /\ unsure' = unsure
          /\ \A d \in Call : d # c => pc'[d] = pc[d]
      BY <2>7, UpdateEffect DEF Shape, TypeOK
    <3>2. \A r \in Row : last'[r] = c \/ last'[r] = last[r]
      <4>1. last' = last \/ \E q \in Row : last' = [last EXCEPT ![q] = c]
        BY <2>7, UpdateEffect
      <4> QED BY <4>1 DEF Shape, TypeOK
    <3> QED BY <2>0, <3>1, <3>2 DEF ErrorState
  <2> QED BY <2>1, <2>2, <2>3, <2>4, <2>5, <2>6, <2>7 DEF Acts, Looks
<1>2. CASE UNCHANGED vars
  BY <1>2 DEF vars, transaction, history, ErrorState
<1> QED BY <1>1, <1>2

(* Two calls never each have the last word on a row of the other's.        *)
LEMMA MixStep == Shape /\ LockState /\ NoMixedOrders /\ [Next]_vars => NoMixedOrders'
<1> SUFFICES ASSUME Shape, LockState, NoMixedOrders, [Next]_vars PROVE NoMixedOrders'
  OBVIOUS
<1>1. CASE Next
  <2>1. PICK c \in Call : Acts(c)
    BY <1>1, StepCases
  <2>2. CASE Looks(c)
    BY <2>2, QuietSteps DEF Quiet, NoMixedOrders
  <2>3. CASE RollsBack(c)
    BY <2>3, RollbackEffect DEF NoMixedOrders
  <2>4. CASE Works(c)
    BY <2>4, RowEffect DEF Works, NoMixedOrders
  <2>5. CASE Commit(c)
    <3>1. /\ \A r \in Row : r \in wrote'[c] => last'[r] = c
          /\ \A r \in Row : last'[r] = c \/ last'[r] = last[r]
          /\ \A d \in Call : d # c => wrote'[d] = wrote[d]
          /\ \A d \in Call : wrote'[d] \subseteq Row
      BY <2>5, CommitEffect
    <3> QED BY <3>1 DEF NoMixedOrders
  <2>6. CASE UpsertInsert(c)
    <3>1. wrote' = wrote /\ wrote[c] = {}
      BY <2>6, InsertEffect DEF Shape, JobState
    <3>2. \A r \in Row : last'[r] = c \/ last'[r] = last[r]
      BY <2>6, InsertEffect DEF Shape, TypeOK
    <3>3. \A d \in Call : wrote[d] \subseteq Row
      BY DEF Shape, TypeOK
    <3> QED BY <3>1, <3>2, <3>3 DEF NoMixedOrders
  <2>7. CASE UpsertUpdate(c)
    <3>1. CASE UNCHANGED <<last, wrote>>
      BY <3>1 DEF NoMixedOrders
    <3>2. ASSUME NEW q \in Row, last' = [last EXCEPT ![q] = c], wrote' = [wrote EXCEPT ![c] = {q}]
          PROVE  NoMixedOrders'
      <4>1. /\ wrote'[c] = {q} /\ last'[q] = c
            /\ \A r \in Row : r # q => last'[r] = last[r]
            /\ \A d \in Call : d # c => wrote'[d] = wrote[d] /\ wrote[d] \subseteq Row
        BY <3>2 DEF Shape, TypeOK
      <4> QED BY <4>1 DEF NoMixedOrders
    <3> QED BY <2>7, <3>1, <3>2, UpdateEffect
  <2> QED BY <2>1, <2>2, <2>3, <2>4, <2>5, <2>6, <2>7 DEF Acts, Looks
<1>2. CASE UNCHANGED vars
  BY <1>2 DEF vars, transaction, history, NoMixedOrders
<1> QED BY <1>1, <1>2

(* A row that a transaction has written is changed by no other call, and a *)
(* step touches nothing of another call.                                   *)
LEMMA LocksHold ==
    ASSUME Shape, LockState, NEW c \in Call, Acts(c)
    PROVE  /\ kind' = kind /\ removed \subseteq removed' /\ raced \subseteq raced'
           /\ \A r \in Row : table[r] # None /\ table'[r] = None => r \in removed'
           /\ \A r \in Row : table'[r] # table[r] => last'[r] = c
           /\ \A r \in Row : last'[r] = c \/ last'[r] = last[r]
           /\ \A d \in Call : d # c =>
                 /\ pc'[d] = pc[d] /\ job'[d] = job[d] /\ todo'[d] = todo[d] /\ own'[d] = own[d]
                 /\ wrote'[d] = wrote[d] /\ made'[d] = made[d]
                 /\ \A r \in Row : own[d][r] # Same => table'[r] = table[r]
<1>1. CASE Looks(c)
  BY <1>1, QuietSteps DEF Quiet
<1>2. CASE RollsBack(c)
  BY <1>2, RollbackEffect
<1>3. CASE Works(c)
  BY <1>3, RowEffect DEF Works
<1>4. CASE Commit(c)
  <2>1. /\ UNCHANGED <<kind, job, todo, raced>> /\ removed \subseteq removed'
        /\ \A d \in Call : d # c => /\ pc'[d] = pc[d] /\ own'[d] = own[d]
                                    /\ wrote'[d] = wrote[d] /\ made'[d] = made[d]
    BY <1>4, CommitEffect DEF Shape, TypeOK
  <2>2. ASSUME NEW r \in Row
        PROVE  /\ table[r] # None /\ table'[r] = None => r \in removed'
               /\ table'[r] # table[r] => last'[r] = c
               /\ last'[r] = c \/ last'[r] = last[r]
    <3>1. /\ table'[r] = IF own[c][r] # Same THEN own[c][r] ELSE table[r]
          /\ last'[r] = IF own[c][r] # Same THEN c ELSE last[r]
          /\ r \in removed' <=> r \in removed \/ own[c][r] = None
      BY <1>4, CommitEffect
    <3> QED BY <3>1
  <2>3. ASSUME NEW d \in Call, d # c, NEW r \in Row, own[d][r] # Same
        PROVE  table'[r] = table[r]
    <3>1. own[c][r] = Same
      BY <2>3 DEF LockState
    <3> QED BY <1>4, <3>1, CommitEffect
  <2> QED BY <2>1, <2>2, <2>3
<1>5. CASE UpsertInsert(c)
  <2>1. /\ pc' = [pc EXCEPT ![c] = "done"] /\ kind = "content"
        /\ UNCHANGED <<kind, job, todo, own, wrote, removed, raced>>
    BY <1>5, InsertEffect
  <2>2. PICK q \in Row \ issued, row \in Content :
           /\ row # None
           /\ table' = [table EXCEPT ![q] = row]
           /\ made' = [made EXCEPT ![c] = {q}] /\ last' = [last EXCEPT ![q] = c]
    BY <1>5, InsertEffect
  <2>3. \A d \in Call : own[d][q] = Same
    BY <2>1, <2>2 DEF LockState
  <2> QED BY <2>1, <2>2, <2>3 DEF Shape, TypeOK
<1>6. CASE UpsertUpdate(c)
  <2>1. /\ pc' = [pc EXCEPT ![c] = "done"] /\ todo' = [todo EXCEPT ![c] = Tail(todo[c])]
        /\ UNCHANGED <<kind, job, own, made, removed, raced>>
    BY <1>6, UpdateEffect
  <2>2. CASE UNCHANGED <<table, last, wrote>>
    BY <2>1, <2>2 DEF Shape, TypeOK
  <2>3. ASSUME NEW q \in Row, NEW row \in Content, row # None, ~LockedFor(c, q),
               table' = [table EXCEPT ![q] = row], last' = [last EXCEPT ![q] = c],
               wrote' = [wrote EXCEPT ![c] = {q}]
        PROVE  /\ \A r \in Row : table[r] # None /\ table'[r] = None => r \in removed'
               /\ \A r \in Row : table'[r] # table[r] => last'[r] = c
               /\ \A r \in Row : last'[r] = c \/ last'[r] = last[r]
               /\ \A d \in Call : d # c =>
                     /\ wrote'[d] = wrote[d]
                     /\ \A r \in Row : own[d][r] # Same => table'[r] = table[r]
    <3>1. \A r \in Row : r # q => table'[r] = table[r] /\ last'[r] = last[r]
      BY <2>3 DEF Shape, TypeOK
    <3>2. table'[q] = row /\ last'[q] = c /\ \A d \in Call : d # c => own[d][q] = Same
      BY <2>3 DEF Shape, TypeOK, LockedFor
    <3>3. \A d \in Call : d # c => wrote'[d] = wrote[d]
      BY <2>3 DEF Shape, TypeOK
    <3> QED BY <2>3, <3>1, <3>2, <3>3
  <2>4. \A d \in Call : d # c => /\ pc'[d] = pc[d] /\ todo'[d] = todo[d] /\ job'[d] = job[d]
                                 /\ own'[d] = own[d] /\ made'[d] = made[d]
    BY <2>1 DEF Shape, TypeOK
  <2>5. CASE \E q \in Row, row \in Content :
                /\ row # None /\ ~LockedFor(c, q) /\ table' = [table EXCEPT ![q] = row]
                /\ last' = [last EXCEPT ![q] = c] /\ wrote' = [wrote EXCEPT ![c] = {q}]
    BY <2>1, <2>3, <2>4, <2>5
  <2> QED BY <1>6, <2>2, <2>5, UpdateEffect
<1> QED BY <1>1, <1>2, <1>3, <1>4, <1>5, <1>6 DEF Acts

-----------------------------------------------------------------------------
(* An order at work keeps what its check found.                            *)
LEMMA OrderOfOthers ==
    ASSUME Shape, LockState, NEW c \in Call, Acts(c), NEW d \in Call, d # c,
           pc[d] \in {"work", "commit"}, job[d].op = "order", OrderAtWork(d)
    PROVE  OrderAtWork(d)'
<1>1. /\ job'[d] = job[d] /\ todo'[d] = todo[d] /\ own'[d] = own[d]
      /\ removed \subseteq removed'
      /\ \A r \in Row : own[d][r] # Same => table'[r] = table[r]
      /\ \A r \in Row : table[r] # None /\ table'[r] = None => r \in removed'
  BY LocksHold
<1>2. \A i \in DOMAIN job[d].items : job[d].items[i] \in Row
  <2>1. job[d] \in Ordering
    BY DEF Shape, JobState, Process
  <2>2. job[d].items \in Lists
    BY <2>1 DEF Ordering
  <2> QED BY <2>2, UpdatesAreStatements, LenProperties
<1> QED BY <1>1, <1>2 DEF OrderAtWork

(* order's assertion starts an order whose rows are all there.             *)
LEMMA OrderPasses ==
    ASSUME Shape, NEW c \in Call, Passes(c), job[c].op = "order"
    PROVE  OrderAtWork(c)'
<1>1. /\ pc[c] = "check" /\ job[c] \in Ordering /\ job[c].items \in Lists /\ own[c] = Untouched
      /\ UNCHANGED <<table, job, own, removed>> /\ todo'[c] = Updates(job[c].items)
  BY DEF Passes, Check, history, Shape, TypeOK, JobState, Ordering
<1> DEFINE items == job[c].items
           met   == {r \in SeenOf(c, job[c].source) : \E i \in DOMAIN items : items[i] = r}
<1>2. \A i \in DOMAIN items : items[i] \in met
  <2>1. Cardinality(met) = Len(items)
    BY DEF Passes, CheckPasses
  <2>2. \A r \in met : \E i \in DOMAIN items : items[i] = r
    OBVIOUS
  <2> HIDE DEF met
  <2> QED BY <1>1, <2>1, <2>2, CountedItemsAreThere
<1>3. \A r \in Row : own[c][r] = Same
  BY <1>1 DEF Untouched
<1>4. \A i \in DOMAIN items : items[i] \in Row /\ table[items[i]] # None
  BY <1>2, <1>3 DEF SeenOf, Seen
<1>5. /\ DOMAIN Updates(items) = DOMAIN items
      /\ \A i \in DOMAIN items : Updates(items)[i].do = "update" /\ Updates(items)[i].row = items[i]
  BY <1>1, UpdatesAreStatements
<1> HIDE DEF met
<1> QED BY <1>1, <1>3, <1>4, <1>5 DEF OrderAtWork

(* An update of an order writes its row, or the row is gone.               *)
LEMMA OrderUpdates ==
    ASSUME Shape, LockState, NEW c \in Call, Works(c), UpdateRow(c),
           job[c].op = "order", OrderAtWork(c)
    PROVE  OrderAtWork(c)'
<1>1. /\ pc[c] = "work" /\ todo[c] # <<>> /\ todo'[c] = Tail(todo[c])
      /\ UNCHANGED <<table, job, removed>>
      /\ \A r \in Row : own[c][r] # Same => own'[c][r] # Same
      /\ todo[c] \in Seq(Statement)
  BY RowEffect DEF Shape, TypeOK, Works
<1> DEFINE r == Head1(c).row
           value == [Seen(c, r) EXCEPT !.sequence = Head1(c).sequence]
<1>2. r \in Row
  BY <1>1, HeadEffect DEF NamesItsRow, UpdateRow
<1>3. /\ \A i \in DOMAIN Tail(todo[c]) : \E k \in DOMAIN todo[c] : Tail(todo[c])[i] = todo[c][k]
      /\ \A k \in DOMAIN todo[c] : todo[c][k].row = r
            \/ \E i \in DOMAIN Tail(todo[c]) : Tail(todo[c])[i] = todo[c][k]
  BY <1>1, TailElements DEF Head1
<1>4. /\ \A q \in Row : q # r => own'[c][q] = own[c][q]
      /\ own'[c][r] # Same => own'[c][r] \in Content /\ table[r] # None
      /\ own'[c][r] = Same => table[r] = None
  <2>1. CASE Meets(c, r)
    <3>1. Seen(c, r) \in Content /\ Head1(c).sequence \in Position /\ table[r] # None
      <4>1. Seen(c, r) # None /\ Seen(c, r) \in Content \cup {None}
        BY <1>2, <2>1 DEF Meets, Seen, Shape, TypeOK
      <4>2. table[r] # None
        BY <1>2, <4>1 DEF Seen, OrderAtWork
      <4> QED BY <1>1, <4>1, <4>2, HeadEffect DEF Statement
    <3>2. value \in Content
      BY <3>1 DEF Content
    <3>3. Write(c, r, value)
      BY <2>1 DEF UpdateRow
    <3> HIDE DEF value, r
    <3>4. own'[c][r] = value /\ \A q \in Row : q # r => own'[c][q] = own[c][q]
      BY <1>2, <3>3, WriteEffect DEF Shape
    <3> QED BY <3>1, <3>2, <3>4, ConstantsAssumption
  <2>2. CASE ~Meets(c, r)
    <3>1. own' = own /\ Seen(c, r) = None
      BY <2>2 DEF UpdateRow, Meets
    <3>2. own[c][r] = Same /\ table[r] = None
      BY <1>2, <3>1, ConstantsAssumption DEF Seen, OrderAtWork
    <3> QED BY <3>1, <3>2
  <2> QED BY <2>1, <2>2
<1> HIDE DEF r, value
<1>5. \A i \in DOMAIN todo'[c] : todo'[c][i].do = "update"
  BY <1>1, <1>3 DEF OrderAtWork
<1>6. \A q \in Row : own'[c][q] # Same => own'[c][q] \in Content /\ table'[q] # None
  BY <1>1, <1>4 DEF OrderAtWork
<1>7. ASSUME NEW i \in DOMAIN job[c].items
      PROVE  LET q == job[c].items[i]
             IN \/ q \in removed
                \/ own'[c][q] # Same
                \/ table[q] # None /\ \E k \in DOMAIN todo'[c] : todo'[c][k].row = q
  <2> DEFINE q == job[c].items[i]
  <2>1. q \in Row
    <3>1. job[c] \in Ordering
      BY <1>1 DEF Shape, JobState, Process
    <3>2. job[c].items \in Lists
      BY <3>1 DEF Ordering
    <3> QED BY <3>2, UpdatesAreStatements, LenProperties
  <2>2. CASE q = r /\ q \notin removed /\ own[c][q] = Same
    BY <1>4, <2>1, <2>2 DEF OrderAtWork
  <2>3. CASE q # r /\ q \notin removed /\ own[c][q] = Same
    <3>1. PICK k \in DOMAIN todo[c] : table[q] # None /\ todo[c][k].row = q
      BY <2>3 DEF OrderAtWork
    <3>2. PICK m \in DOMAIN Tail(todo[c]) : Tail(todo[c])[m] = todo[c][k]
      BY <1>3, <2>3, <3>1
    <3> QED BY <1>1, <3>1, <3>2
  <2> QED BY <1>1, <2>1, <2>2, <2>3
<1> QED BY <1>1, <1>5, <1>6, <1>7 DEF OrderAtWork

(* Every step keeps the orders' part of the invariant.                     *)
LEMMA OrderStep == Shape /\ LockState /\ OrderState /\ [Next]_vars => OrderState'
<1> SUFFICES ASSUME Shape, LockState, OrderState, [Next]_vars PROVE OrderState'
  OBVIOUS
<1>1. CASE Next
  <2>1. PICK c \in Call : Acts(c)
    BY <1>1, StepCases
  <2>2. /\ removed \subseteq removed'
        /\ \A d \in Call : d # c => pc'[d] = pc[d] /\ job'[d] = job[d] /\ wrote'[d] = wrote[d]
    BY <2>1, LocksHold
  <2>3. ASSUME NEW d \in Call, d # c, pc'[d] \in {"work", "commit"}, job'[d].op = "order"
        PROVE  OrderAtWork(d)'
    <3>1. pc[d] \in {"work", "commit"} /\ job[d].op = "order" /\ OrderAtWork(d)
      BY <2>2, <2>3 DEF OrderState
    <3> QED BY <2>1, <2>3, <3>1, OrderOfOthers
  <2>4. ASSUME NEW d \in Call, d # c, pc'[d] = "done", job'[d].op = "order"
        PROVE  \A i \in DOMAIN job'[d].items : job'[d].items[i] \in wrote'[d] \cup removed'
    BY <2>2, <2>4 DEF OrderState, OrdersReachTheirRows
  <2>5. /\ pc'[c] \in {"work", "commit"} /\ job'[c].op = "order" => OrderAtWork(c)'
        /\ pc'[c] = "done" /\ job'[c].op = "order" =>
              \A i \in DOMAIN job'[c].items : job'[c].items[i] \in wrote'[c] \cup removed'
    <3>1. CASE Begins(c)
      <4>1. pc'[c] \notin {"commit", "done"} /\ (pc'[c] = "work" => job'[c].op = "process")
        BY <3>1, BeginEffect DEF Begins, Begin, Goto, Process, Shape, TypeOK
      <4> QED BY <4>1
    <3>2. CASE Passes(c)
      <4>1. pc'[c] = "work" /\ job' = job
        BY <3>2 DEF Passes, Check, Goto, Shape, TypeOK
      <4> QED BY <3>2, <4>1, OrderPasses
    <3>3. CASE ClearSource(c)
      <4>1. pc[c] = "work" /\ pc' = pc /\ job' = job /\ todo[c] # <<>> /\ Head1(c).do = "clear"
        BY <3>3 DEF ClearSource
      <4>2. 1 \in DOMAIN todo[c] /\ todo[c][1] = Head1(c)
        BY <4>1, TailElements DEF Shape, TypeOK, Head1
      <4>3. job[c].op # "order"
        BY <4>1, <4>2 DEF OrderState, OrderAtWork
      <4> QED BY <4>1, <4>3
    <3>4. CASE Finish(c)
      <4>1. /\ pc[c] = "work" /\ pc'[c] = "commit"
            /\ UNCHANGED <<table, job, todo, own, removed>>
        BY <3>4 DEF Finish, Goto, history, Shape, TypeOK
      <4> QED BY <4>1 DEF OrderState, OrderAtWork
    <3>5. CASE UpsertFind(c)
      <4>1. pc'[c] \in {"insert", "update"}
        BY <3>5, FindEffect DEF Shape, TypeOK
      <4> QED BY <4>1
    <3>6. CASE RollsBack(c)
      BY <3>6, RollbackEffect
    <3>7. CASE Works(c)
      <4>1. pc[c] = "work" /\ pc' = pc /\ job' = job /\ todo[c] # <<>>
        BY <3>7, RowEffect DEF Works
      <4>2. 1 \in DOMAIN todo[c] /\ todo[c][1] = Head1(c)
        BY <4>1, TailElements DEF Shape, TypeOK, Head1
      <4>3. ASSUME job[c].op = "order" PROVE OrderAtWork(c) /\ UpdateRow(c)
        <5>1. OrderAtWork(c) /\ Head1(c).do = "update"
          BY <4>1, <4>2, <4>3 DEF OrderState, OrderAtWork
        <5> QED BY <3>7, <5>1 DEF Works, DeleteRow, InsertRow
      <4> QED BY <3>7, <4>1, <4>3, OrderUpdates
    <3>8. CASE Commit(c)
      <4>1. /\ pc[c] = "commit" /\ pc'[c] \in {"done", "error"} /\ job' = job /\ todo[c] = <<>>
        BY <3>8, CommitEffect DEF Shape, QueueState
      <4>2. ASSUME job[c].op = "order", NEW i \in DOMAIN job[c].items
            PROVE  job[c].items[i] \in wrote'[c] \cup removed'
        <5> DEFINE q == job[c].items[i]
        <5>1. OrderAtWork(c)
          BY <4>1, <4>2 DEF OrderState
        <5>2. q \in removed \/ own[c][q] # Same
          BY <4>1, <5>1 DEF OrderAtWork
        <5>3. job[c] \in Ordering
          BY <4>1, <4>2 DEF Shape, JobState, Process
        <5>4. q \in Row
          <6>1. job[c].items \in Lists
            BY <5>3 DEF Ordering
          <6> QED BY <6>1, UpdatesAreStatements, LenProperties
        <5>5. own[c][q] # Same => own[c][q] # None /\ table[q] # None
          BY <5>1, <5>4, ConstantsAssumption DEF OrderAtWork
        <5> QED BY <2>2, <3>8, <5>2, <5>4, <5>5, CommitEffect
      <4> QED BY <4>1, <4>2
    <3>9. CASE UpsertInsert(c)
      <4>1. job'[c].op = "upsert"
        BY <3>9, InsertEffect DEF Upsert
      <4> QED BY <4>1
    <3>10. CASE UpsertUpdate(c)
      <4>1. job'[c].op = "upsert"
        BY <3>10, UpdateEffect DEF Upsert
      <4> QED BY <4>1
    <3> QED BY <2>1, <3>1, <3>2, <3>3, <3>4, <3>5, <3>6, <3>7, <3>8, <3>9, <3>10 DEF Acts, Looks
  <2> QED BY <2>3, <2>4, <2>5 DEF OrderState, OrdersReachTheirRows
<1>2. CASE UNCHANGED vars
  BY <1>2 DEF vars, transaction, history, OrderState, OrderAtWork, OrdersReachTheirRows
<1> QED BY <1>1, <1>2

-----------------------------------------------------------------------------
(* The removal of everything comes after what the call adds.               *)
AddedFor(c) == \A r \in Row : Added(c, r) => own[c][r].source = job[c].source

Based(c) == pc[c] \in {"work", "commit"} /\ job[c].op = "process" /\ job[c].base

(* No other call adds to the rows a call has made.                         *)
LEMMA AddedOfOthers ==
    ASSUME Shape, LockState, NEW c \in Call, Acts(c), NEW d \in Call, d # c,
           NEW r \in Row, Added(d, r)'
    PROVE  Added(d, r)
<1>1. own'[d] = own[d] /\ (own[d][r] # Same => table'[r] = table[r])
  BY LocksHold
<1> QED BY <1>1, ConstantsAssumption DEF Added

(* What a statement adds belongs to its call's source.                     *)
LEMMA WorkAdds ==
    ASSUME Shape, LockState, NEW c \in Call, Works(c), AddedFor(c)
    PROVE  AddedFor(c)'
<1> SUFFICES ASSUME NEW r \in Row, Added(c, r)'
             PROVE  own'[c][r].source = job'[c].source
  BY DEF AddedFor
<1>1. job' = job /\ table[r] = None /\ own'[c][r] \in Content
  BY RowEffect DEF Works, Added
<1>2. CASE own'[c][r] = own[c][r]
  BY <1>1, <1>2 DEF AddedFor, Added
<1>3. CASE own'[c][r] # own[c][r]
  <2>1. \/ Seen(c, r) # None /\ own'[c][r].source = Seen(c, r).source
        \/ own'[c][r].source = job[c].source
    BY <1>1, <1>3, RowEffect, ConstantsAssumption DEF Works
  <2>2. CASE Seen(c, r) # None /\ own'[c][r].source = Seen(c, r).source
    <3>1. Seen(c, r) = own[c][r] /\ own[c][r] \in Content
      BY <1>1, <2>2 DEF Seen, Shape, TypeOK
    <3> QED BY <1>1, <2>2, <3>1 DEF AddedFor, Added
  <2> QED BY <1>1, <2>1, <2>2
<1> QED BY <1>2, <1>3

(* The removal is ahead, or all that was added and is not gone is queued   *)
(* for it.                                                                 *)
LEMMA WorkKeepsRemoval ==
    ASSUME Shape, LockState, NEW c \in Call, Works(c), AddedFor(c), ClearAhead(c) \/ PastClear(c)
    PROVE  (ClearAhead(c) \/ PastClear(c))'
<1>1. /\ todo[c] \in Seq(Statement) /\ todo[c] # <<>> /\ todo'[c] = Tail(todo[c])
      /\ table' = table
  BY RowEffect DEF Works, Shape, TypeOK
<1>2. CASE ClearAhead(c)
  <2>1. todo[c][Len(todo[c])] # Head(todo[c])
    <3>1. Head1(c).do # "clear"
      BY DEF Works, UpdateRow, DeleteRow, InsertRow
    <3> QED BY <1>2, <3>1 DEF ClearAhead, Head1
  <2>2. Tail(todo[c]) # <<>> /\ Tail(todo[c])[Len(Tail(todo[c]))] = todo[c][Len(todo[c])]
    BY <1>1, <2>1, TailElements
  <2> QED BY <1>1, <1>2, <2>2 DEF ClearAhead
<1>3. CASE PastClear(c)
  <2>1. Head1(c).do = "delete"
    <3>1. 1 \in DOMAIN todo[c] /\ todo[c][1] = Head(todo[c])
      BY <1>1, TailElements
    <3> QED BY <1>3, <3>1 DEF PastClear, Head1
  <2>2. DeleteRow(c)
    BY <2>1 DEF Works, UpdateRow, InsertRow
  <2> DEFINE q == Head1(c).row
  <2>3. q \in Row
    BY <1>1, <2>1, HeadEffect DEF NamesItsRow
  <2>4. /\ \A i \in DOMAIN Tail(todo[c]) : \E k \in DOMAIN todo[c] : Tail(todo[c])[i] = todo[c][k]
        /\ \A k \in DOMAIN todo[c] : todo[c][k].row = q
              \/ \E i \in DOMAIN Tail(todo[c]) : Tail(todo[c])[i] = todo[c][k]
    BY <1>1, TailElements DEF Head1
  <2>5. own' = own \/ (own'[c][q] = None /\ \A r \in Row : r # q => own'[c][r] = own[c][r])
    <3>1. own' = own \/ Write(c, q, None)
      BY <2>2 DEF DeleteRow
    <3> HIDE DEF q
    <3> QED BY <2>3, <3>1, WriteEffect DEF Shape
  <2>6. own' = own => ~Added(c, q)
    <3> SUFFICES ASSUME own' = own, Added(c, q) PROVE FALSE
      OBVIOUS
    <3>1. Seen(c, q) = own[c][q] /\ own[c][q] # None /\ own[c][q].source = job[c].source
      BY <2>3, ConstantsAssumption DEF Seen, Added, AddedFor
    <3>2. Write(c, q, None)
      BY <2>2, <3>1 DEF DeleteRow
    <3> HIDE DEF q
    <3>3. own'[c][q] = None
      BY <2>3, <3>2, WriteEffect DEF Shape
    <3> QED BY <3>1, <3>3
  <2> HIDE DEF q
  <2>7. ASSUME NEW r \in Row, Added(c, r)'
        PROVE  r # q /\ Added(c, r)
    BY <1>1, <2>3, <2>5, <2>6, <2>7, ConstantsAssumption DEF Added
  <2>8. \A r \in Row : Added(c, r)' => \E i \in DOMAIN Tail(todo[c]) : Tail(todo[c])[i].row = r
    <3> SUFFICES ASSUME NEW r \in Row, Added(c, r)'
                 PROVE  \E i \in DOMAIN Tail(todo[c]) : Tail(todo[c])[i].row = r
      OBVIOUS
    <3>1. PICK k \in DOMAIN todo[c] : todo[c][k].row = r /\ r # q
      BY <1>3, <2>7 DEF PastClear
    <3>2. PICK i \in DOMAIN Tail(todo[c]) : Tail(todo[c])[i] = todo[c][k]
      BY <2>4, <3>1
    <3> QED BY <3>1, <3>2
  <2>9. \A i \in DOMAIN Tail(todo[c]) : Tail(todo[c])[i].do = "delete"
    BY <1>3, <2>4 DEF PastClear
  <2> QED BY <1>1, <2>8, <2>9 DEF PastClear
<1> QED BY <1>2, <1>3

(* The removal finds all that the call has added.                          *)
LEMMA ClearTakesTheAdded ==
    ASSUME Shape, LockState, NEW c \in Call, ClearSource(c), AddedFor(c),
           ClearAhead(c) \/ PastClear(c)
    PROVE  (ClearAhead(c) \/ PastClear(c))'
<1>1. /\ todo[c] \in Seq(Statement) /\ todo[c] # <<>> /\ Head1(c).do = "clear"
      /\ UNCHANGED <<table, own, job>>
  BY DEF ClearSource, Shape, TypeOK
<1>2. PICK deletes \in Seq(Statement) :
         /\ \A i \in DOMAIN deletes : deletes[i].do = "delete" /\ deletes[i].row \in Row
         /\ \A r \in SeenOf(c, job[c].source) : \E i \in DOMAIN deletes : deletes[i].row = r
         /\ todo' = [todo EXCEPT ![c] = deletes \o Tail(todo[c])]
  BY ClearEffect
<1>3. todo'[c] = deletes \o Tail(todo[c]) /\ Tail(todo[c]) \in Seq(Statement)
  BY <1>1, <1>2, TailElements DEF Shape, TypeOK
<1>4. ClearAhead(c)
  <2>1. 1 \in DOMAIN todo[c] /\ todo[c][1] = Head1(c)
    BY <1>1, TailElements DEF Head1
  <2> QED BY <1>1, <2>1 DEF PastClear
<1>5. CASE Tail(todo[c]) # <<>>
  <2>1. Tail(todo[c])[Len(Tail(todo[c]))] = todo[c][Len(todo[c])]
    BY <1>1, <1>5, TailElements
  <2>2. /\ todo'[c] # <<>>
        /\ todo'[c][Len(todo'[c])] = Tail(todo[c])[Len(Tail(todo[c]))]
    BY <1>3, <1>5, ConcatElements
  <2> QED BY <1>4, <2>1, <2>2 DEF ClearAhead
<1>6. CASE Tail(todo[c]) = <<>>
  <2>1. todo'[c] = deletes
    BY <1>3, <1>6, ConcatEmptySeq
  <2>2. \A r \in Row : Added(c, r) => r \in SeenOf(c, job[c].source)
    BY ConstantsAssumption DEF Added, AddedFor, SeenOf, Seen
  <2> QED BY <1>1, <1>2, <2>1, <2>2 DEF PastClear, Added
<1> QED BY <1>5, <1>6

(* Every step keeps the removals' part of the invariant.                   *)
LEMMA BaseStep == Shape /\ LockState /\ BaseState /\ [Next]_vars => BaseState'
<1> SUFFICES ASSUME Shape, LockState, BaseState, [Next]_vars PROVE BaseState'
  OBVIOUS
<1>1. CASE Next
  <2>1. PICK c \in Call : Acts(c)
    BY <1>1, StepCases
  <2>2. /\ \A d \in Call : d # c => /\ pc'[d] = pc[d] /\ job'[d] = job[d] /\ todo'[d] = todo[d]
                                    /\ own'[d] = own[d] /\ made'[d] = made[d]
        /\ \A r \in Row : table'[r] # table[r] => last'[r] = c
        /\ \A r \in Row : last'[r] = c \/ last'[r] = last[r]
    BY <2>1, LocksHold
  <2>3. ASSUME NEW d \in Call, d # c, pc'[d] \in {"work", "commit"}
        PROVE  AddedFor(d)' /\ (Based(d)' => (ClearAhead(d) \/ PastClear(d))')
    <3>1. \A r \in Row : Added(d, r)' => Added(d, r)
      BY <2>1, <2>3, AddedOfOthers
    <3>2. AddedFor(d) /\ (Based(d) => ClearAhead(d) \/ PastClear(d))
      BY <2>2, <2>3 DEF BaseState, AddedFor, Based
    <3>3. AddedFor(d)'
      BY <2>2, <2>3, <3>1, <3>2 DEF AddedFor
    <3>4. ASSUME Based(d)' PROVE (ClearAhead(d) \/ PastClear(d))'
      <4>1. Based(d) /\ todo'[d] = todo[d]
        BY <2>2, <2>3, <3>4 DEF Based
      <4> QED BY <3>1, <3>2, <4>1 DEF ClearAhead, PastClear
    <3> QED BY <3>3, <3>4
  <2>4. ASSUME NEW d \in Call, d # c, pc'[d] = "done", job'[d].op = "process", job'[d].base,
               NEW r \in made'[d], last'[r] = d
        PROVE  table'[r] = None
    <3>1. r \in Row /\ table[r] = None
      BY <2>2, <2>4 DEF BaseState, BaseRemovalTakesTheAdded, Shape, TypeOK
    <3> QED BY <2>2, <2>4, <3>1
  <2>5. /\ pc'[c] \in {"work", "commit"} =>
              AddedFor(c)' /\ (Based(c)' => (ClearAhead(c) \/ PastClear(c))')
        /\ pc'[c] = "done" /\ job'[c].op = "process" /\ job'[c].base =>
              \A r \in made'[c] : last'[r] = c => table'[r] = None
    <3>1. CASE Begins(c)
      <4>1. PICK j, label, q :
               /\ Begin(c, j, label, q) /\ label \in {"check", "work", "find"}
               /\ label = "work" /\ j.base => q # <<>> /\ q[Len(q)].do = "clear"
        BY <3>1, BeginEffect DEF Begins
      <4>2. /\ pc[c] = "idle" /\ pc'[c] = label /\ job'[c] = j /\ todo'[c] = q /\ own' = own
        BY <4>1 DEF Begin, Goto, Shape, TypeOK
      <4>3. \A r \in Row : own[c][r] = Same
        BY <4>2 DEF Shape, JobState, Untouched
      <4>4. AddedFor(c)'
        BY <4>2, <4>3, ConstantsAssumption DEF AddedFor, Added
      <4>5. Based(c)' => ClearAhead(c)'
        BY <4>1, <4>2 DEF Based, ClearAhead
      <4> QED BY <4>1, <4>2, <4>4, <4>5
    <3>2. CASE Passes(c)
      <4>1. pc[c] = "check" /\ pc'[c] = "work" /\ job' = job /\ own' = own
        BY <3>2 DEF Passes, Check, Goto, Shape, TypeOK
      <4>2. (\A r \in Row : own[c][r] = Same) /\ job[c].op # "process"
        BY <4>1 DEF Shape, JobState, Untouched, Ordering
      <4> QED BY <4>1, <4>2, ConstantsAssumption DEF AddedFor, Added, Based
    <3>3. CASE ClearSource(c)
      <4>1. /\ pc[c] = "work" /\ UNCHANGED <<pc, job, own, table>>
        BY <3>3 DEF ClearSource
      <4>2. AddedFor(c) /\ (Based(c) => ClearAhead(c) \/ PastClear(c))
        BY <4>1 DEF BaseState, AddedFor, Based
      <4>3. AddedFor(c)' /\ (Based(c)' => Based(c))
        BY <4>1, <4>2 DEF AddedFor, Added, Based
      <4> QED BY <3>3, <4>1, <4>2, <4>3, ClearTakesTheAdded
    <3>4. CASE Finish(c)
      <4>1. pc[c] = "work" /\ pc'[c] = "commit" /\ UNCHANGED <<job, todo, own, table>>
        BY <3>4 DEF Finish, Goto, Shape, TypeOK
      <4>2. AddedFor(c) /\ (Based(c) => ClearAhead(c) \/ PastClear(c))
        BY <4>1 DEF BaseState, AddedFor, Based
      <4> QED BY <4>1, <4>2 DEF AddedFor, Added, Based, ClearAhead, PastClear
    <3>5. CASE UpsertFind(c)
      <4>1. pc'[c] \in {"insert", "update"}
        BY <3>5, FindEffect DEF Shape, TypeOK
      <4> QED BY <4>1
    <3>6. CASE RollsBack(c)
      BY <3>6, RollbackEffect
    <3>7. CASE Works(c)
      <4>1. pc[c] = "work" /\ UNCHANGED <<pc, job>>
        BY <3>7, RowEffect DEF Works
      <4>2. AddedFor(c) /\ (Based(c) => ClearAhead(c) \/ PastClear(c))
        BY <4>1 DEF BaseState, AddedFor, Based
      <4>3. Based(c)' => Based(c)
        BY <4>1 DEF Based
      <4> QED BY <3>7, <4>1, <4>2, <4>3, WorkAdds, WorkKeepsRemoval
    <3>8. CASE Commit(c)
      <4>1. pc[c] = "commit" /\ pc'[c] \in {"done", "error"} /\ job' = job /\ todo[c] = <<>>
        BY <3>8, CommitEffect DEF Shape, QueueState
      <4>2. ASSUME job[c].op = "process", job[c].base, NEW r \in made'[c]
            PROVE  table'[r] = None
        <5>1. r \in Row
          BY <3>8, CommitEffect
        <5>2. ~Added(c, r)
          <6>1. ClearAhead(c) \/ PastClear(c)
            BY <4>1, <4>2 DEF BaseState
          <6> QED BY <4>1, <5>1, <6>1 DEF ClearAhead, PastClear
        <5>3. own[c][r] # Same /\ table[r] = None /\ table'[r] = own[c][r]
          BY <3>8, <4>2, <5>1, CommitEffect
        <5> QED BY <5>1, <5>2, <5>3 DEF Added, Shape, TypeOK
      <4> QED BY <4>1, <4>2
    <3>9. CASE UpsertInsert(c)
      <4>1. pc'[c] = "done" /\ job'[c].op = "upsert"
        BY <3>9, InsertEffect DEF Upsert, Shape, TypeOK
      <4> QED BY <4>1
    <3>10. CASE UpsertUpdate(c)
      <4>1. pc'[c] = "done" /\ job'[c].op = "upsert"
        BY <3>10, UpdateEffect DEF Upsert, Shape, TypeOK
      <4> QED BY <4>1
    <3> QED BY <2>1, <3>1, <3>2, <3>3, <3>4, <3>5, <3>6, <3>7, <3>8, <3>9, <3>10 DEF Acts, Looks
  <2>6. ASSUME NEW d \in Call, pc'[d] \in {"work", "commit"}
        PROVE  AddedFor(d)' /\ (Based(d)' => (ClearAhead(d) \/ PastClear(d))')
    BY <2>3, <2>5, <2>6
  <2>7. BaseRemovalTakesTheAdded'
    BY <2>4, <2>5 DEF BaseRemovalTakesTheAdded
  <2> QED BY <2>6, <2>7 DEF BaseState, AddedFor, Based
<1>2. CASE UNCHANGED vars
  BY <1>2 DEF vars, transaction, history, BaseState, Added, ClearAhead, PastClear,
              BaseRemovalTakesTheAdded
<1> QED BY <1>1, <1>2

-----------------------------------------------------------------------------
(* No step gives out a row that is some call's already.                    *)
LEMMA FreshStep == Shape /\ LockState /\ FreshState /\ [Next]_vars => FreshState'
<1> SUFFICES ASSUME Shape, LockState, FreshState, [Next]_vars PROVE FreshState'
  OBVIOUS
<1>1. CASE Next
  <2>1. PICK c \in Call : Acts(c)
    BY <1>1, StepCases
  <2>2. /\ kind' = kind
        /\ \A d \in Call : d # c => /\ own'[d] = own[d] /\ made'[d] = made[d]
                                    /\ \A r \in Row : own[d][r] # Same => table'[r] = table[r]
    BY <2>1, LocksHold
  <2> SUFFICES ASSUME kind = "content", NEW r \in Row
               PROVE  \A d \in Call :
                         /\ Added(d, r)' => \A e \in Call : r \notin made'[e]
                         /\ own'[d][r] \in Content /\ table'[r] \in Content =>
                               own'[d][r].source = table'[r].source
    BY <2>2 DEF FreshState
  <2>3. /\ (\E d \in Call : own[d][r] # Same) \/ (\E d \in Call : r \in made[d]) => r \in issued
        /\ table[r] # None => r \in issued
        /\ table[r] \in Content \cup {None}
    BY DEF LockState, Shape, TypeOK
  <2>4. ASSUME NEW d \in Call, d # c
        PROVE  /\ Added(d, r)' => \A e \in Call : r \notin made'[e]
               /\ own'[d][r] \in Content /\ table'[r] \in Content =>
                     own'[d][r].source = table'[r].source
    <3>1. Added(d, r)' => own[d][r] # Same /\ \A e \in Call : r \notin made[e]
      BY <2>1, <2>2, <2>4, AddedOfOthers, ConstantsAssumption DEF FreshState, Added
    <3>2. Added(d, r)' => r \notin made'[c]
      <4>1. CASE Looks(c)
        BY <3>1, <4>1, QuietSteps DEF Quiet
      <4>2. CASE RollsBack(c)
        BY <3>1, <4>2, RollbackEffect
      <4>3. CASE Works(c)
        BY <3>1, <4>3, RowEffect DEF Works
      <4>4. CASE Commit(c)
        <5>1. r \in made'[c] => own[c][r] # Same
          BY <4>4, CommitEffect
        <5> QED BY <2>4, <3>1, <5>1 DEF LockState
      <4>5. CASE UpsertInsert(c)
        <5>1. \E q \in Row \ issued : made' = [made EXCEPT ![c] = {q}]
          BY <4>5, InsertEffect
        <5> QED BY <2>3, <3>1, <5>1 DEF Shape, TypeOK
      <4>6. CASE UpsertUpdate(c)
        BY <3>1, <4>6, UpdateEffect
      <4> QED BY <2>1, <4>1, <4>2, <4>3, <4>4, <4>5, <4>6 DEF Acts
    <3>3. own'[d][r] \in Content => own'[d] = own[d] /\ table'[r] = table[r]
      BY <2>2, <2>4, ConstantsAssumption
    <3> QED BY <2>2, <3>1, <3>2, <3>3 DEF FreshState
  <2>5. /\ Added(c, r)' => \A e \in Call : r \notin made'[e]
        /\ own'[c][r] \in Content /\ table'[r] \in Content => own'[c][r].source = table'[r].source
    <3>1. CASE Looks(c)
      BY <3>1, QuietSteps DEF Quiet, FreshState, Added
    <3>2. CASE RollsBack(c)
      BY <3>2, RollbackEffect, ConstantsAssumption DEF Added, Untouched
    <3>3. CASE Works(c)
      <4>1. /\ table' = table /\ made' = made
            /\ own'[c][r] # own[c][r] /\ own'[c][r] # None =>
                  \/ Seen(c, r) # None /\ own'[c][r].source = Seen(c, r).source
                  \/ r \notin issued
        BY <3>3, RowEffect DEF Works
      <4>2. CASE own'[c][r] = own[c][r]
        BY <4>1, <4>2 DEF FreshState, Added
      <4>3. CASE own'[c][r] # own[c][r] /\ own'[c][r] \in Content
        <5>1. CASE r \notin issued
          BY <2>3, <4>1, <5>1, ConstantsAssumption
        <5>2. CASE Seen(c, r) # None /\ own'[c][r].source = Seen(c, r).source
          BY <4>1, <4>3, <5>2 DEF FreshState, Added, Seen, Shape, TypeOK
        <5> QED BY <4>1, <4>3, <5>1, <5>2, ConstantsAssumption
      <4>4. CASE own'[c][r] \notin Content
        BY <4>4 DEF Added
      <4> QED BY <4>2, <4>3, <4>4
    <3>4. CASE Commit(c)
      BY <3>4, CommitEffect, ConstantsAssumption DEF Added, Untouched
    <3>5. CASE UpsertInsert(c)
      <4>1. own'[c] = Untouched
        BY <3>5, InsertEffect
      <4> QED BY <4>1, ConstantsAssumption DEF Added, Untouched
    <3>6. CASE UpsertUpdate(c)
      <4>1. own'[c] = Untouched
        BY <3>6, UpdateEffect
      <4> QED BY <4>1, ConstantsAssumption DEF Added, Untouched
    <3> QED BY <2>1, <3>1, <3>2, <3>3, <3>4, <3>5, <3>6 DEF Acts
  <2> QED BY <2>4, <2>5
<1>2. CASE UNCHANGED vars
  BY <1>2 DEF vars, transaction, history, FreshState, Added
<1> QED BY <1>1, <1>2

(* A row an upsert made was one before the step, or the step is its insert.*)
LEMMA MadeForStep ==
    ASSUME Shape, LockState, FreshState, NEW c \in Call, Acts(c),
           NEW s, NEW r \in Row, MadeFor(s, r)'
    PROVE  MadeFor(s, r) \/ (UpsertInsert(c) /\ job[c].source = s /\ made'[c] = {r})
<1>1. PICK d \in Call : r \in made'[d] /\ job'[d].op = "upsert"
  BY DEF MadeFor
<1>2. table'[r] # None /\ table'[r].source = s
  BY DEF MadeFor
<1>3. d # c => job'[d] = job[d] /\ made'[d] = made[d]
  BY LocksHold
<1>4. CASE Begins(c)
  <2>1. made' = made /\ table' = table /\ made[c] = {}
    <3>1. pc[c] = "idle" /\ made' = made /\ table' = table
      BY <1>4, BeginEffect DEF Begins, Begin, history
    <3> QED BY <3>1 DEF Shape, JobState
  <2> QED BY <1>1, <1>2, <1>3, <2>1 DEF MadeFor
<1>5. CASE Looks(c) /\ ~Begins(c)
  <2>1. made' = made /\ table' = table
    BY <1>5, QuietSteps DEF Quiet
  <2>2. job' = job
    BY <1>5, FindEffect DEF Looks, Passes, Check, ClearSource, Finish
  <2> QED BY <1>1, <1>2, <2>1, <2>2 DEF MadeFor
<1>6. CASE RollsBack(c)
  BY <1>1, <1>2, <1>6, RollbackEffect DEF MadeFor
<1>7. CASE Works(c)
  BY <1>1, <1>2, <1>7, RowEffect DEF Works, MadeFor
<1>8. CASE Commit(c)
  <2>1. job[c].op # "upsert" /\ job' = job
    <3>1. pc[c] = "commit" /\ job' = job
      BY <1>8, CommitEffect
    <3> QED BY <3>1 DEF Shape, JobState, Ordering, Process
  <2>2. d # c /\ r \in made[d] /\ job[d].op = "upsert"
    BY <1>1, <1>3, <2>1
  <2>3. kind = "content"
    <3>1. job[d] \in Upsert /\ pc[d] # "idle"
      BY <2>2 DEF Shape, JobState, Ordering, Process
    <3> QED BY <3>1 DEF Shape, JobState
  <2>4. table[r] # None /\ table[r].source = s
    <3>1. CASE own[c][r] = Same
      BY <1>2, <1>8, <3>1, CommitEffect
    <3>2. CASE own[c][r] # Same
      <4>1. table'[r] = own[c][r] /\ own[c][r] \in Content
        BY <1>2, <1>8, <3>2, CommitEffect DEF Shape, TypeOK
      <4>2. table[r] \in Content
        BY <2>2, <2>3, <4>1 DEF FreshState, Added, Shape, TypeOK
      <4> QED BY <1>2, <2>3, <4>1, <4>2, ConstantsAssumption DEF FreshState
    <3> QED BY <3>1, <3>2
  <2> QED BY <2>2, <2>4 DEF MadeFor
<1>9. CASE UpsertInsert(c)
  <2>1. job' = job /\ kind = "content"
    BY <1>9, InsertEffect
  <2>2. PICK q \in Row \ issued, row \in Content :
           /\ row.source = job[c].source /\ table' = [table EXCEPT ![q] = row]
           /\ made' = [made EXCEPT ![c] = {q}]
    BY <1>9, InsertEffect
  <2>3. CASE d = c
    BY <1>1, <1>2, <1>9, <2>2, <2>3 DEF Shape, TypeOK
  <2>4. CASE d # c
    <3>1. r \in made[d] /\ job[d].op = "upsert"
      BY <1>1, <1>3, <2>4
    <3>2. r # q
      BY <2>1, <2>2, <3>1 DEF LockState
    <3>3. table'[r] = table[r]
      BY <2>2, <3>2 DEF Shape, TypeOK
    <3> QED BY <1>2, <3>1, <3>3 DEF MadeFor
  <2> QED BY <2>3, <2>4
<1>10. CASE UpsertUpdate(c)
  <2>1. job' = job /\ made' = made
    BY <1>10, UpdateEffect
  <2>2. table[r] # None /\ table[r].source = s
    <3>1. CASE table' = table
      BY <1>2, <3>1
    <3>2. ASSUME NEW q \in Row, NEW row \in Content, table[q] # None,
                 row.source = table[q].source, table' = [table EXCEPT ![q] = row]
          PROVE  <2>2
      BY <1>2, <3>2 DEF Shape, TypeOK
    <3> QED BY <1>10, <3>1, <3>2, UpdateEffect
  <2> QED BY <1>1, <2>1, <2>2 DEF MadeFor
<1> QED BY <1>4, <1>5, <1>6, <1>7, <1>8, <1>9, <1>10 DEF Acts

(* What UpsertsMeet says, row by row.                                      *)
LEMMA MeetByRows ==
    ASSUME Shape
    PROVE  UpsertsMeet <=> \A s \in Source : s \notin raced =>
               \A r, q \in Row : MadeFor(s, r) /\ MadeFor(s, q) => r = q
<1>1. \A c \in Call : made[c] \subseteq Row
  BY DEF Shape, TypeOK
<1>2. ASSUME UpsertsMeet, NEW s \in Source, s \notin raced, NEW r \in Row, NEW q \in Row,
             MadeFor(s, r), MadeFor(s, q)
      PROVE  r = q
  BY <1>2 DEF UpsertsMeet, MadeFor
<1>3. ASSUME \A s \in Source : s \notin raced =>
                \A r, q \in Row : MadeFor(s, r) /\ MadeFor(s, q) => r = q
      PROVE  UpsertsMeet
  BY <1>1, <1>3 DEF UpsertsMeet, MadeFor
<1> QED BY <1>2, <1>3

(* Every step keeps the upserts' part of the invariant.                    *)
LEMMA UpsertStep ==
    Shape /\ LockState /\ FreshState /\ UpsertState /\ [Next]_vars => UpsertState'
<1> SUFFICES ASSUME Shape, LockState, FreshState, UpsertState, [Next]_vars PROVE UpsertState'
  OBVIOUS
<1>1. CASE Next
  <2>1. PICK c \in Call : Acts(c)
    BY <1>1, StepCases
  <2>2. /\ raced \subseteq raced'
        /\ \A d \in Call : d # c => pc'[d] = pc[d] /\ job'[d] = job[d]
    BY <2>1, LocksHold
  <2>3. pc'[c] = "insert" => UpsertFind(c)
    <3>1. CASE Begins(c)
      BY <3>1, BeginEffect DEF Begins, Begin, Goto, Shape, TypeOK
    <3>2. CASE Passes(c)
      BY <3>2 DEF Passes, Check, Goto, Shape, TypeOK
    <3>3. CASE ClearSource(c)
      BY <3>3 DEF ClearSource
    <3>4. CASE Finish(c)
      BY <3>4 DEF Finish, Goto, Shape, TypeOK
    <3>5. CASE RollsBack(c)
      BY <3>5, RollbackEffect
    <3>6. CASE Works(c)
      BY <3>6, RowEffect DEF Works
    <3>7. CASE Commit(c)
      BY <3>7, CommitEffect
    <3>8. CASE UpsertInsert(c)
      BY <3>8, InsertEffect DEF Shape, TypeOK
    <3>9. CASE UpsertUpdate(c)
      BY <3>9, UpdateEffect DEF Shape, TypeOK
    <3> QED BY <2>1, <3>1, <3>2, <3>3, <3>4, <3>5, <3>6, <3>7, <3>8, <3>9 DEF Acts, Looks
  <2>4. UpsertFind(c) /\ pc'[c] = "insert" =>
           /\ UNCHANGED <<job, table, made>>
           /\ \A r \in Row : ~MadeFor(job[c].source, r)
           /\ \A d \in Call : pc[d] = "insert" /\ job[d].source = job[c].source =>
                 job[c].source \in raced'
    <3> SUFFICES ASSUME UpsertFind(c), pc'[c] = "insert"
                 PROVE  /\ UNCHANGED <<job, table, made>>
                        /\ \A r \in Row : ~MadeFor(job[c].source, r)
                        /\ \A d \in Call : pc[d] = "insert" /\ job[d].source = job[c].source =>
                              job[c].source \in raced'
      OBVIOUS
    <3>1. /\ job[c] \in Upsert /\ own[c] = Untouched /\ UNCHANGED <<job, table, made>>
          /\ SeenOf(c, job[c].source) = {}
          /\ raced' = raced \cup {s \in Source : \E d \in Call :
                         pc[d] = "insert" /\ job[d].source = s /\ s = job[c].source}
      BY FindEffect DEF Shape, TypeOK
    <3>2. job[c].source \in Source
      BY <3>1 DEF Upsert
    <3>3. \A r \in Row : ~MadeFor(job[c].source, r)
      BY <3>1 DEF MadeFor, SeenOf, Seen, Untouched
    <3> QED BY <3>1, <3>2, <3>3
  <2>5. ASSUME NEW d \in Call, NEW e \in Call, pc'[d] = "insert", pc'[e] = "insert",
               job'[d].source = job'[e].source, job'[d].source \notin raced'
        PROVE  d = e
    BY <2>2, <2>3, <2>4, <2>5 DEF UpsertState
  <2>6. ASSUME NEW d \in Call, pc'[d] = "insert", NEW s, s = job'[d].source, s \notin raced',
               NEW r \in Row, MadeFor(s, r)'
        PROVE  FALSE
    <3>1. CASE d = c
      <4>1. UpsertFind(c) /\ s = job[c].source /\ ~MadeFor(s, r)
        BY <2>3, <2>4, <2>6, <3>1
      <4>2. ~UpsertInsert(c)
        BY <2>6, <3>1, InsertEffect DEF Shape, TypeOK
      <4> QED BY <2>1, <2>6, <4>1, <4>2, MadeForStep
    <3>2. CASE d # c
      <4>1. pc[d] = "insert" /\ job[d].source = s /\ s \notin raced
        BY <2>2, <2>6, <3>2
      <4>2. MadeFor(s, r) \/ (UpsertInsert(c) /\ job[c].source = s)
        BY <2>1, <2>6, MadeForStep
      <4>3. CASE MadeFor(s, r)
        BY <4>1, <4>3 DEF UpsertState
      <4>4. CASE UpsertInsert(c) /\ job[c].source = s
        <5>1. pc[c] = "insert"
          BY <4>4, InsertEffect
        <5> QED BY <3>2, <4>1, <4>4, <5>1 DEF UpsertState
      <4> QED BY <4>2, <4>3, <4>4
    <3> QED BY <3>1, <3>2
  <2>7. UpsertsMeet'
    <3> SUFFICES ASSUME NEW s \in Source, s \notin raced', NEW r \in Row, NEW q \in Row,
                        MadeFor(s, r)', MadeFor(s, q)'
                 PROVE  r = q
      <4>1. Shape'
        BY ShapeStep
      <4> QED BY <4>1 DEF UpsertsMeet, MadeFor, Shape, TypeOK
    <3>1. MadeFor(s, r) \/ (UpsertInsert(c) /\ job[c].source = s /\ made'[c] = {r})
      BY <2>1, MadeForStep
    <3>2. MadeFor(s, q) \/ (UpsertInsert(c) /\ job[c].source = s /\ made'[c] = {q})
      BY <2>1, MadeForStep
    <3>3. MadeFor(s, r) /\ MadeFor(s, q) => r = q
      BY <2>2, MeetByRows DEF UpsertState
    <3>4. UpsertInsert(c) /\ job[c].source = s => ~MadeFor(s, r) /\ ~MadeFor(s, q)
      BY <2>2, InsertEffect DEF UpsertState
    <3> QED BY <3>1, <3>2, <3>3, <3>4
  <2>8. \A d \in Call : pc'[d] = "insert" /\ job'[d].source \notin raced' =>
           \A r \in Row : ~(/\ \E e \in Call : r \in made'[e] /\ job'[e].op = "upsert"
                           /\ table'[r] # None /\ table'[r].source = job'[d].source)
    BY <2>6 DEF MadeFor
  <2> QED BY <2>5, <2>7, <2>8 DEF UpsertState, MadeFor
<1>2. CASE UNCHANGED vars
  BY <1>2 DEF vars, transaction, history, UpsertState, MadeFor, UpsertsMeet
<1> QED BY <1>1, <1>2

-----------------------------------------------------------------------------
(* The initial states satisfy the invariant.                               *)
LEMMA InitInv == Init => IInv
<1> SUFFICES ASSUME Init PROVE IInv
  OBVIOUS
<1>1. Shape
  BY InitShape
<1>2. /\ \A c \in Call : /\ pc[c] = "idle" /\ made[c] = {} /\ wrote[c] = {}
                         /\ \A r \in Row : own[c][r] = Same
      /\ \A r \in Row : last[r] = None /\ (table[r] # None => r \in issued)
      /\ unsure = {}
  BY DEF Init, Untouched
<1>3. LockState
  BY <1>2 DEF LockState
<1>4. ErrorState
  BY <1>2, ConstantsAssumption DEF ErrorState
<1>5. OrderState
  BY <1>2 DEF OrderState, OrdersReachTheirRows
<1>6. BaseState
  BY <1>2 DEF BaseState, BaseRemovalTakesTheAdded
<1>7. FreshState
  BY <1>2, ConstantsAssumption DEF FreshState, Added
<1>8. UpsertState
  BY <1>2 DEF UpsertState, UpsertsMeet
<1>9. NoMixedOrders
  BY <1>2 DEF NoMixedOrders
<1> QED BY <1>1, <1>3, <1>4, <1>5, <1>6, <1>7, <1>8, <1>9 DEF IInv

(* Every step keeps the invariant.                                         *)
LEMMA StepInv == IInv /\ [Next]_vars => IInv'
BY ShapeStep, LockStep, ErrorStep, OrderStep, BaseStep, FreshStep, UpsertStep, MixStep DEF IInv

(* The inductive invariant holds in every reachable state.                 *)
THEOREM SequencedInvariant == Spec => []IInv
BY InitInv, StepInv, PTL DEF Spec

(* Every variable keeps its type.                                          *)
THEOREM SequencedType == Spec => []TypeOK
<1>1. IInv => TypeOK
  BY DEF IInv, Shape
<1> QED BY <1>1, SequencedInvariant, PTL

(* Two orders of the same rows do not end mixed, whatever number of calls  *)
(* there is and however long their lists.                                  *)
THEOREM OrdersDoNotMix == Spec => []NoMixedOrders
<1>1. IInv => NoMixedOrders
  BY DEF IInv
<1> QED BY <1>1, SequencedInvariant, PTL

(* What a call is told is what happened: an error left nothing unless the  *)
(* commit's answer was lost, an acknowledged order reached its rows, and   *)
(* removeBaseRel took what the same call added.                            *)
THEOREM CallsAreTold == Spec => []CallsAreToldTheTruth
<1>1. IInv => CallsAreToldTheTruth
  <2> SUFFICES ASSUME IInv PROVE CallsAreToldTheTruth
    OBVIOUS
  <2>1. ErrorsLeaveNothing
    BY DEF IInv, ErrorState, ErrorsLeaveNothing
  <2> QED BY <2>1 DEF IInv, Shape, OrderState, BaseState, CallsAreToldTheTruth
<1> QED BY <1>1, SequencedInvariant, PTL

(* Upserts that did not look before either inserted agree on one row.      *)
THEOREM UpsertsAgree == Spec => []UpsertsMeet
<1>1. IInv => UpsertsMeet
  BY DEF IInv, UpsertState
<1> QED BY <1>1, SequencedInvariant, PTL

(* A row that an open transaction has written changes in the table only by *)
(* that transaction's commit, and to the value it wrote.                   *)
HeldRowsStay ==
    \A c \in Call : \A r \in Row :
        own[c][r] # Same /\ table'[r] # table[r] => table'[r] = own[c][r] /\ own'[c][r] = Same

(* sequelize.decorator.ts with common.service.ts:123-230: nobody writes    *)
(* over a row between another call's statement and its commit.             *)
THEOREM WrittenRowsAreHeld == Spec => [][HeldRowsStay]_vars
<1>1. IInv /\ [Next]_vars => [HeldRowsStay]_vars
  <2> SUFFICES ASSUME Shape, LockState, Next,
                      NEW c \in Call, NEW r \in Row, own[c][r] # Same, table'[r] # table[r]
               PROVE  table'[r] = own[c][r] /\ own'[c][r] = Same
    BY DEF IInv, HeldRowsStay
  <2>1. PICK d \in Call : Acts(d)
    BY StepCases
  <2>2. d = c
    BY <2>1, LocksHold
  <2>3. CASE Looks(c)
    BY <2>3, QuietSteps DEF Quiet
  <2>4. CASE RollsBack(c)
    BY <2>4, RollbackEffect
  <2>5. CASE Works(c)
    BY <2>5, RowEffect DEF Works
  <2>6. CASE Commit(c)
    BY <2>6, CommitEffect DEF Untouched
  <2>7. CASE UpsertInsert(c)
    BY <2>7, InsertEffect DEF Untouched
  <2>8. CASE UpsertUpdate(c)
    BY <2>8, UpdateEffect DEF Untouched
  <2> QED BY <2>1, <2>2, <2>3, <2>4, <2>5, <2>6, <2>7, <2>8 DEF Acts
<1> QED BY <1>1, SequencedInvariant, PTL DEF Spec

-----------------------------------------------------------------------------
(* How far a call is from its end.                                         *)
Stage(label) ==
    CASE label = "idle" -> 4
      [] label \in {"check", "find"} -> 3
      [] label = "work" -> 2
      [] label \in {"commit", "insert", "update"} -> 1
      [] label \in {"done", "error"} -> 0

ClearLeft(c) == \E i \in DOMAIN todo[c] : todo[c][i].do = "clear"

(* It comes nearer, or it has sent a statement: removeBaseRel, which is    *)
(* the only one that queues others, or one of the rest.                    *)
Forward(c) ==
    \/ Stage(pc'[c]) < Stage(pc[c])
    \/ /\ pc[c] = "work" /\ pc'[c] = "work"
       /\ \/ ClearLeft(c) /\ ~ClearLeft(c)'
          \/ (ClearLeft(c)' => ClearLeft(c)) /\ Len(todo'[c]) < Len(todo[c])

(* Every statement of a call brings its own end nearer and sets no other   *)
(* call back.                                                              *)
CallsGoForward ==
    \A c \in Call : Step(c) \/ Fail(c) =>
        /\ Forward(c)
        /\ \A d \in Call \ {c} : pc'[d] = pc[d] /\ todo'[d] = todo[d]

(* Removing everything comes last, so it happens once.                     *)
ClearIsLast ==
    \A c \in Call : \A i \in DOMAIN todo[c] : todo[c][i].do = "clear" => i = Len(todo[c])

LEMMA StepGoesForward ==
    ASSUME Shape, ClearIsLast, NEW c \in Call, Step(c) \/ Fail(c)
    PROVE  /\ Forward(c) /\ OnlyLastClears(todo'[c])
           /\ \A d \in Call \ {c} : pc'[d] = pc[d] /\ todo'[d] = todo[d]
<1>1. /\ pc \in [Call -> {"idle", "done", "error"} \cup Active]
      /\ todo \in [Call -> Seq(Statement)] /\ OnlyLastClears(todo[c])
  BY DEF Shape, TypeOK, ClearIsLast, OnlyLastClears
<1>2. CASE Passes(c)
  <2>1. /\ pc[c] = "check" /\ pc' = [pc EXCEPT ![c] = "work"]
        /\ todo' = [todo EXCEPT ![c] = Updates(job[c].items)] /\ job[c].items \in Lists
    BY <1>2 DEF Passes, Check, Goto, Shape, JobState, Ordering
  <2>2. pc'[c] = "work" /\ todo'[c] = Updates(job[c].items)
    BY <1>1, <2>1
  <2>3. OnlyLastClears(todo'[c])
    BY <2>1, <2>2, UpdatesAreStatements DEF OnlyLastClears
  <2> QED BY <1>1, <2>1, <2>2, <2>3 DEF Forward, Stage
<1>3. CASE ClearSource(c)
  <2>1. pc[c] = "work" /\ pc' = pc /\ todo[c] # <<>> /\ Head1(c).do = "clear"
    BY <1>3 DEF ClearSource
  <2>2. PICK deletes \in Seq(Statement) :
           /\ \A i \in DOMAIN deletes : deletes[i].do = "delete"
           /\ todo' = [todo EXCEPT ![c] = deletes \o Tail(todo[c])]
    BY <1>3, ClearEffect
  <2>3. Tail(todo[c]) = <<>> /\ ClearLeft(c)
    BY <1>1, <2>1, ShorterQueue, TailElements DEF Head1, ClearLeft
  <2>4. todo'[c] = deletes \o <<>> /\ <<>> \in Seq(Statement)
    <3>1. todo'[c] = deletes \o Tail(todo[c])
      BY <1>1, <2>2
    <3> QED BY <2>3, <3>1
  <2>5. \A i \in DOMAIN todo'[c] : todo'[c][i].do = "delete"
    BY <2>2, <2>4, ConcatElements
  <2> QED BY <1>1, <2>1, <2>2, <2>3, <2>5 DEF Forward, ClearLeft, OnlyLastClears
<1>4. CASE Finish(c)
  BY <1>1, <1>4 DEF Finish, Goto, Forward, Stage
<1>5. CASE UpsertFind(c)
  <2>1. /\ pc[c] = "find" /\ pc'[c] \in {"insert", "update"}
        /\ \A d \in Call \ {c} : pc'[d] = pc[d]
    BY <1>1, <1>5, FindEffect
  <2>2. /\ \A d \in Call \ {c} : todo'[d] = todo[d]
        /\ OnlyLastClears(todo'[c])
    <3>1. CASE todo' = todo
      BY <1>1, <3>1
    <3>2. ASSUME NEW r \in Row, todo' = [todo EXCEPT ![c] = <<Do("update", r, job[c].sequence)>>]
          PROVE  <2>2
      BY <1>1, <3>2 DEF OnlyLastClears, Do
    <3> QED BY <1>5, <3>1, <3>2, FindEffect
  <2> QED BY <2>1, <2>2 DEF Forward, Stage
<1>6. CASE RollsBack(c)
  <2>1. /\ pc[c] \in Active /\ pc'[c] = "error" /\ todo'[c] = <<>>
        /\ \A d \in Call \ {c} : pc'[d] = pc[d] /\ todo'[d] = todo[d]
    BY <1>1, <1>6 DEF RollsBack, Rollback, Goto
  <2> QED BY <2>1 DEF Forward, Stage, Active, OnlyLastClears
<1>7. CASE Works(c)
  <2>1. /\ pc[c] = "work" /\ pc' = pc /\ todo[c] # <<>>
        /\ todo' = [todo EXCEPT ![c] = Tail(todo[c])]
    BY <1>7 DEF Works, Effect, Next1
  <2>2. todo'[c] = Tail(todo[c])
    BY <1>1, <2>1
  <2>3. ClearLeft(c)' => ClearLeft(c)
    BY <1>1, <2>1, <2>2, TailElements DEF ClearLeft
  <2>4. Len(todo'[c]) < Len(todo[c]) /\ OnlyLastClears(todo'[c])
    BY <1>1, <2>1, <2>2, ShorterQueue
  <2> QED BY <1>1, <2>1, <2>3, <2>4 DEF Forward
<1>8. CASE Commit(c)
  BY <1>1, <1>8 DEF Commit, Goto, Forward, Stage
<1>9. CASE UpsertInsert(c)
  BY <1>1, <1>9 DEF UpsertInsert, Goto, Forward, Stage
<1>10. CASE UpsertUpdate(c)
  <2>1. /\ pc[c] = "update" /\ pc' = [pc EXCEPT ![c] = "done"]
        /\ todo[c] # <<>> /\ todo' = [todo EXCEPT ![c] = Tail(todo[c])]
    BY <1>10, UpdateEffect
  <2>2. OnlyLastClears(todo'[c])
    BY <1>1, <2>1, ShorterQueue
  <2> QED BY <1>1, <2>1, <2>2 DEF Forward, Stage
<1> QED BY <1>2, <1>3, <1>4, <1>5, <1>6, <1>7, <1>8, <1>9, <1>10, OwnCases

LEMMA ClearStep == Shape /\ ClearIsLast /\ [Next]_vars => ClearIsLast'
<1> SUFFICES ASSUME Shape, ClearIsLast, [Next]_vars PROVE ClearIsLast'
  OBVIOUS
<1>1. ASSUME NEW c \in Call, Step(c) \/ Fail(c) PROVE ClearIsLast'
  BY <1>1, StepGoesForward DEF ClearIsLast, OnlyLastClears
<1>2. ASSUME NEW c \in Call, Begins(c) PROVE ClearIsLast'
  <2>1. PICK j, label, q : Begin(c, j, label, q) /\ OnlyLastClears(q)
    BY <1>2, BeginEffect DEF Begins
  <2>2. todo'[c] = q /\ \A d \in Call \ {c} : todo'[d] = todo[d]
    BY <2>1 DEF Begin, Shape, TypeOK
  <2> QED BY <2>1, <2>2 DEF ClearIsLast, OnlyLastClears
<1>3. CASE UNCHANGED vars
  BY <1>3 DEF vars, transaction, ClearIsLast
<1> QED BY <1>1, <1>2, <1>3 DEF Next, Begins

(* A call cannot go on for ever (common.service.ts:123-230): the safety    *)
(* half of CallsEnd, which leaves only that a call which waits is woken.   *)
THEOREM CallsDoNotLoop == Spec => [][CallsGoForward]_vars
<1>1. Init => ClearIsLast
  BY DEF Init, ClearIsLast
<1>2. IInv => Shape
  BY DEF IInv
<1>3. Spec => []ClearIsLast
  BY <1>1, <1>2, ClearStep, SequencedInvariant, PTL DEF Spec
<1>4. Shape /\ ClearIsLast /\ [Next]_vars => [CallsGoForward]_vars
  BY StepGoesForward DEF CallsGoForward
<1> QED BY <1>2, <1>3, <1>4, SequencedInvariant, PTL DEF Spec

=============================================================================
