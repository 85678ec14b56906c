SPECIFICATION FairSpec
CONSTANTS
    Tab = {t1, t2}
    Stroke = {x1}
    DocId = {d1, d2}
    MaxMounts = 1
    None = None
CHECK_DEADLOCK FALSE
PROPERTY SavesReachOtherTabs
