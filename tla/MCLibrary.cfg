SPECIFICATION LibrarySpec
CONSTANTS
    Reader = {r1, r2, r3}
    Writer = {w1, w2}
    Ttl = {0, 1000, 1500}
    Nil = Nil
    Request = {q1, q2, q3}
    Attempts <- MCAttempts
    Selectors = 16
    Lengths = {0, 1, 3}
    Counts = {1, 3, 5, 16}
    MaxRows = 4
    MaxLimit = 3
    Limits <- MCLimits
    MaxChanges = 2
    Op = {o1, o2, o3}
    Prop = {p1}
    Parent = {a1}
    Owner = {b1}
    Absent = Absent
SYMMETRY Symmetry
CHECK_DEADLOCK FALSE
INVARIANT CacheIsSound
INVARIANT ChecksHold
 
