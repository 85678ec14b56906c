------------------------------ MODULE ListPages ------------------------------
(***************************************************************************)
(* ListPages: findAll of CommonService with calcPage and makeMeta of       *)
(* FilterService (backend/libs/shared/src/sequelize), as a reader of       *)
(* GET /user meets it who asks for page after page while rows come and go. *)
(*                                                                         *)
(* A row is its place in the order the reader may ask for.  Without one    *)
(* the database may list the rows in any order, and another each time.     *)
(***************************************************************************)
EXTENDS Integers, FiniteSets

CONSTANTS
    MaxRows,    \* rows are 1 .. MaxRows
    MaxLimit,   \* 50, the limit of a page
    Limits,     \* limits asked for; 0 stands for none
    MaxChanges  \* how often the table changes; a bound

ASSUME ListPagesAssumption ==
    MaxRows \in Nat /\ MaxLimit \in Nat \ {0} /\ Limits \subseteq Int /\ MaxChanges \in Nat

VARIABLES
    rows,       \* the table
    asked,      \* queryMeta.limit
    ordered,    \* queryMeta.order is given
    page,       \* queryMeta.page of the query under way or next
    waits,      \* its queries that have not answered: "count", "rows"
    reading,    \* "ask", "answer", "done" or "refused"
    total,      \* meta.count of the last answer
    listed      \* row -> how often it was listed

(* History variable: no action reads it.                                   *)
VARIABLE
    changes     \* how often the table has changed

listVars == <<rows, asked, ordered, page, waits, reading, total, listed, changes>>

ListTypeOK ==
    /\ rows \subseteq 1 .. MaxRows
    /\ asked \in Limits /\ ordered \in BOOLEAN
    /\ page \in 1 .. MaxRows + 2
    /\ waits \subseteq {"count", "rows"}
    /\ reading \in {"ask", "answer", "done", "refused"}
    /\ total \in 0 .. MaxRows
    /\ listed \in [1 .. MaxRows -> Nat]
    /\ changes \in 0 .. MaxChanges

ListInit ==
    /\ rows \in SUBSET (1 .. MaxRows)
    /\ asked \in Limits /\ ordered \in BOOLEAN
    /\ page = 1 /\ waits = {} /\ reading = "ask" /\ total = 0
    /\ listed = [r \in 1 .. MaxRows |-> 0]
    /\ changes = 0

(* A definition whose name ends in _Bug is a plausible mistake in the      *)
(* definition after it; no specification uses it.                          *)

(* makeMeta: a limit below 50 stands, a negative one too; none is 50.      *)
Limit == IF asked < MaxLimit /\ asked # 0 THEN asked ELSE MaxLimit

Offset_Bug == Limit * page

Offset == Limit * (page - 1)

(* LIMIT and OFFSET over the rows in some order.                           *)
Windows ==
    LET Smaller(r) == Cardinality({q \in rows : q < r})
        size == LET left == Cardinality(rows) - Offset
                IN IF left < 0 THEN 0 ELSE IF left < Limit THEN left ELSE Limit
    IN IF ordered THEN {{r \in rows : Smaller(r) >= Offset /\ Smaller(r) < Offset + Limit}}
       ELSE {S \in SUBSET rows : Cardinality(S) = size}

(* The two queries of the Promise.all are sent.                            *)
AskPage ==
    /\ reading = "ask"
    /\ reading' = "answer" /\ waits' = {"count", "rows"}
    /\ UNCHANGED <<rows, asked, ordered, page, total, listed, changes>>

CountRows ==
    /\ "count" \in waits
    /\ total' = Cardinality(rows) /\ waits' = waits \ {"count"}
    /\ UNCHANGED <<rows, asked, ordered, page, reading, listed, changes>>

(* PostgreSQL refuses a negative LIMIT or OFFSET.                          *)
ListRows ==
    /\ "rows" \in waits
    /\ IF Limit < 0
       THEN reading' = "refused" /\ waits' = {} /\ UNCHANGED listed
       ELSE /\ \E S \in Windows :
                 listed' = [r \in 1 .. MaxRows |-> listed[r] + (IF r \in S THEN 1 ELSE 0)]
            /\ waits' = waits \ {"rows"}
            /\ UNCHANGED reading
    /\ UNCHANGED <<rows, asked, ordered, page, total, changes>>

(* The reader goes on while meta says there is more.                       *)
TurnPage ==
    /\ reading = "answer" /\ waits = {}
    /\ IF page * Limit < total
       THEN page' = page + 1 /\ reading' = "ask"
       ELSE reading' = "done" /\ UNCHANGED page
    /\ UNCHANGED <<rows, asked, ordered, waits, total, listed, changes>>

(* A user registers or is removed.                                         *)
ChangeRows ==
    /\ changes < MaxChanges /\ reading \in {"ask", "answer"}
    /\ changes' = changes + 1
    /\ \E r \in 1 .. MaxRows : rows' = IF r \in rows THEN rows \ {r} ELSE rows \cup {r}
    /\ UNCHANGED <<asked, ordered, page, waits, reading, total, listed>>

ListNext == AskPage \/ CountRows \/ ListRows \/ TurnPage \/ ChangeRows

(* Who pages to the end has met every row once, if an order was given and  *)
(* the table stood still; or if all of it fitted on a page, whatever the   *)
(* order.                                                                  *)
PagesMeetEveryRowOnce ==
    reading = "done" /\ changes = 0 /\ (ordered \/ page = 1) =>
        \A r \in 1 .. MaxRows : listed[r] = IF r \in rows THEN 1 ELSE 0

=============================================================================
