CONSTANTS
    Issues = {k1, k2}
    Syncs = {s1, s2}
    Delay = 1
    Minute = 2
    MaxChanges = 2
    MaxTime = 4
SPECIFICATION Spec
SYMMETRY Symmetric
INVARIANTS
    RagTypeOK
    NothingMissed
PROPERTIES
    CatchesUp
CHECK_DEADLOCK FALSE
