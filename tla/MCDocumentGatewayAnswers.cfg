SPECIFICATION FairSpec
CONSTANTS
    User = {u1}
    DocId = {d1}
    Request = {r1, r2}
    Socket = {s1, s2}
    DocRoom = {}
    None = None
PROPERTY SendersAnswered
