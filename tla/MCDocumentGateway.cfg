SPECIFICATION Spec
CONSTANTS
    User = {u1, u2}
    DocId = {d1}
    Request = {r1, r2}
    Socket = {s1, s2}
    DocRoom = {x1}
    None = None
SYMMETRY Symmetry
INVARIANT TypeOK
INVARIANT RoomsAgree
INVARIANT GhostsClosedEarly
 
INVARIANT AnswersAreTrue
