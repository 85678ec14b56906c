SPECIFICATION Spec
CONSTANTS
    Tab = {t1, t2}
    Stroke = {x1}
    DocId = {d1, d2}
    MaxMounts = 1
    None = None
SYMMETRY Symmetry
CHECK_DEADLOCK FALSE
INVARIANT TypeOK
INVARIANT OneSaver
INVARIANT NothingMergedIsStored
