SPECIFICATION FairSpec
CONSTANTS
    Tab = {t1}
    Stroke = {x1, x2}
    DocId = {d1, d2}
    MaxMounts = 2
    None = None
CHECK_DEADLOCK FALSE
INVARIANT EditsHandedOver
PROPERTY EditsLeaveTheTab
