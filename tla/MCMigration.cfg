SPECIFICATION FairSpec
CONSTANTS
    Instance = {a, b}
    Extra = {x}
    Argument <- MCArgument
    MaxRuns = 2
    None = None
CHECK_DEADLOCK FALSE
INVARIANT CompleteMeansApplied
INVARIANT WedgedForAReason
PROPERTY WedgedStaysDown
PROPERTY AloneItServes
