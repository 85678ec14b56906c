--------------------------- MODULE OperationChecks ---------------------------
(***************************************************************************)
(* OperationChecks: the Operation decorator (backend/libs/shared/src/      *)
(* decorator/sequelize.decorator.ts) and ValidationService                 *)
(* (sequelize/validation.service.ts), around a create and an update of     *)
(* rows with a unique prop and a parent that has an owner.  The checks of  *)
(* a call are queries beside each other, outside any transaction, and the  *)
(* method runs once all have passed.  Nothing in the repository is         *)
(* decorated with it.                                                      *)
(***************************************************************************)
EXTENDS Naturals, FiniteSets

CONSTANTS
    Op,         \* calls; a create makes the row with its name
    Prop,       \* values of the unique prop
    Parent,     \* rows of the other table
    Owner,      \* values of the parent's other key
    Absent      \* absent from a payload; no row

Payload == [prop : Prop \cup {Absent}, parent : Parent \cup {Absent}, owner : Owner \cup {Absent}]

Item == [prop : Prop \cup {Absent}, parent : Parent \cup {Absent}]

Checks == {"unique", "exist", "compere"}

VARIABLES
    options,    \* the checks the decorator is given
    items,      \* Op -> the row the create of that name made, or Absent
    parents,    \* Parent -> its owner, or Absent
    method,     \* Op -> "create", "update" or "remove"
    payload,    \* Op -> its payload
    target,     \* Op -> the row an update or a removal is of
    due,        \* Op -> checks that have not answered
    phase       \* Op -> "idle", "check", "done" or "error"

(* History variables: no action reads them.                                *)
VARIABLES
    kept,       \* updates that carried the prop their row had at the check
    overlapped, \* calls checked for a prop that another call had passed with
    orphaned    \* parents that were removed

checkVars == <<options, items, parents, method, payload, target, due, phase, kept, overlapped, orphaned>>

CheckTypeOK ==
    /\ options \subseteq Checks
    /\ items \in [Op -> Item \cup {Absent}]
    /\ parents \in [Parent -> Owner \cup {Absent}]
    /\ method \in [Op -> {"create", "update", "remove"}]
    /\ payload \in [Op -> Payload]
    /\ target \in [Op -> Op]
    /\ due \in [Op -> SUBSET Checks]
    /\ phase \in [Op -> {"idle", "check", "done", "error"}]
    /\ kept \in SUBSET Op /\ overlapped \in SUBSET Op /\ orphaned \in SUBSET Parent

CheckInit ==
    /\ options \in SUBSET Checks
    /\ items = [o \in Op |-> Absent]
    /\ parents \in [Parent -> Owner \cup {Absent}]
    /\ method = [o \in Op |-> "create"]
    /\ payload = [o \in Op |-> [prop |-> Absent, parent |-> Absent, owner |-> Absent]]
    /\ target = [o \in Op |-> o]
    /\ due = [o \in Op |-> {}]
    /\ phase = [o \in Op |-> "idle"]
    /\ kept = {} /\ overlapped = {} /\ orphaned = {}

(* A definition whose name ends in _Bug is a plausible mistake in the      *)
(* definition after it; no specification uses it.                          *)

(* Only a method that creates has its payload checked.                     *)
Invoke_Bug(o) ==
    /\ phase[o] = "idle"
    /\ \E m \in {"create", "update"}, p \in Payload, t \in Op :
         /\ m = "create" => t = o
         /\ m # "create" => items[t] # Absent
         /\ method' = [method EXCEPT ![o] = m]
         /\ payload' = [payload EXCEPT ![o] = p]
         /\ target' = [target EXCEPT ![o] = t]
         /\ due' = [due EXCEPT ![o] = IF m = "create" THEN options ELSE {}]
    /\ phase' = [phase EXCEPT ![o] = "check"]
    /\ UNCHANGED <<options, items, parents, kept, overlapped, orphaned>>

(* The decorator picks the payload by the name of the method: one that     *)
(* creates or updates has a payload, a removal has none and no checks.     *)
Invoke(o) ==
    /\ phase[o] = "idle"
    /\ \E m \in {"create", "update", "remove"}, p \in Payload, t \in Op :
         /\ m = "create" => t = o
         /\ m # "create" => items[t] # Absent
         /\ m = "remove" => p = [prop |-> Absent, parent |-> Absent, owner |-> Absent]
         /\ method' = [method EXCEPT ![o] = m]
         /\ payload' = [payload EXCEPT ![o] = p]
         /\ target' = [target EXCEPT ![o] = t]
         /\ due' = [due EXCEPT ![o] = IF m = "remove" THEN {} ELSE options]
    /\ phase' = [phase EXCEPT ![o] = "check"]
    /\ UNCHANGED <<options, items, parents, kept, overlapped, orphaned>>

Holding(v) == {t \in Op : items[t] # Absent /\ items[t].prop = v}

(* The row the update is of is not counted.                                *)
UniquePasses_Bug(o) == payload[o].prop = Absent \/ Holding(payload[o].prop) \subseteq {target[o]}

(* unique: no row has the prop; the row that is updated counts too.        *)
UniquePasses(o) == payload[o].prop = Absent \/ Holding(payload[o].prop) = {}

(* The count is compared the wrong way round.                              *)
ExistPasses_Bug(o) == payload[o].parent = Absent \/ parents[payload[o].parent] = Absent

(* exist: the parent of the payload is there.                              *)
ExistPasses(o) == payload[o].parent = Absent \/ parents[payload[o].parent] # Absent

(* compere: some parent matches every key the payload has.                 *)
ComperePasses(o) ==
    LET p == payload[o]
    IN \/ p.parent = Absent /\ p.owner = Absent
       \/ \E q \in Parent :
             /\ parents[q] # Absent
             /\ p.parent # Absent => q = p.parent
             /\ p.owner # Absent => parents[q] = p.owner

Pass(o, check, passes) ==
    /\ check \in due[o]
    /\ IF passes
       THEN due' = [due EXCEPT ![o] = @ \ {check}] /\ UNCHANGED phase
       ELSE due' = [due EXCEPT ![o] = {}] /\ phase' = [phase EXCEPT ![o] = "error"]
    /\ UNCHANGED <<options, items, parents, method, payload, target, orphaned>>

CheckUnique(o) ==
    /\ Pass(o, "unique", UniquePasses(o))
    /\ kept' = IF method[o] = "update" /\ items[target[o]] # Absent /\ payload[o].prop # Absent
                      /\ items[target[o]].prop = payload[o].prop
               THEN kept \cup {o} ELSE kept
    /\ overlapped' = IF /\ payload[o].prop # Absent
                        /\ \E d \in Op \ {o} : phase[d] = "check" /\ payload[d].prop = payload[o].prop
                     THEN overlapped \cup {d \in Op : payload[d].prop = payload[o].prop}
                     ELSE overlapped

CheckExist(o) == Pass(o, "exist", ExistPasses(o)) /\ UNCHANGED <<kept, overlapped>>

CheckCompere(o) == Pass(o, "compere", ComperePasses(o)) /\ UNCHANGED <<kept, overlapped>>

(* The method.  An update writes the fields its payload has.               *)
RunMethod(o) ==
    /\ phase[o] = "check" /\ due[o] = {}
    /\ LET p == payload[o]
           Given(new, old) == IF new # Absent THEN new ELSE old
           row == items[target[o]]
       IN items' = [items EXCEPT ![target[o]] =
             CASE method[o] = "create" -> [prop |-> p.prop, parent |-> p.parent]
               [] method[o] = "update" /\ row # Absent ->
                     [prop |-> Given(p.prop, row.prop), parent |-> Given(p.parent, row.parent)]
               [] OTHER -> Absent]
    /\ phase' = [phase EXCEPT ![o] = "done"]
    /\ UNCHANGED <<options, parents, method, payload, target, due, kept, overlapped, orphaned>>

RemoveParent(q) ==
    /\ parents[q] # Absent
    /\ parents' = [parents EXCEPT ![q] = Absent]
    /\ orphaned' = orphaned \cup {q}
    /\ UNCHANGED <<options, items, method, payload, target, due, phase, kept, overlapped>>

CheckNext ==
    \/ \E o \in Op : Invoke(o) \/ CheckUnique(o) \/ CheckExist(o) \/ CheckCompere(o) \/ RunMethod(o)
    \/ \E q \in Parent : RemoveParent(q)

(* A checked prop is in one row, unless two calls with it were under way   *)
(* together: nothing holds the answer of the check until the write.        *)
PropsUniqueUnlessOverlapped ==
    "unique" \in options => \A o, d \in Op : o # d /\ items[o] # Absent /\ items[d] # Absent
            /\ items[o].prop = items[d].prop /\ items[o].prop # Absent =>
        \E c \in overlapped : payload[c].prop = items[o].prop

(* An update that carries the value its row already has is refused.        *)
KeptPropsAreRefused == \A o \in kept : phase[o] # "done"

(* A row's parent is there or was removed after the row was checked.       *)
ParentsExistedOnce ==
    options \cap {"exist", "compere"} # {} => \A o \in Op : items[o] # Absent /\ items[o].parent # Absent =>
        parents[items[o].parent] # Absent \/ items[o].parent \in orphaned

(* What the checks of an operation are worth, in one.                      *)
ChecksHold == PropsUniqueUnlessOverlapped /\ KeptPropsAreRefused /\ ParentsExistedOnce

=============================================================================
