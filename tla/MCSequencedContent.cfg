SPECIFICATION FairSpec
CONSTANTS
    Call = {c1, c2}
    Source = {s1, s2}
    Asked = {s1}
    Row = {r1, r2}
    MaxItems = 2
    None = None
    Same = Same
CHECK_DEADLOCK FALSE
INVARIANT NoMixedOrders
 
INVARIANT UpsertsMeet
PROPERTY CallsEnd
