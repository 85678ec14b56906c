SPECIFICATION FairSpec
CONSTANTS
    User = {u1, u2}
    Save = {s1, s2, s3}
    None = None
CHECK_DEADLOCK FALSE
INVARIANT TempHoldsUnsaved
INVARIANT QuietShowsLatest
PROPERTY SavesSettle
