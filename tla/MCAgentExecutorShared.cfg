CONSTANTS
    Requests = {r1, r2}
    None = None
    MaxLines = 0
    MaxReports = 0
    BufferSize = 1
SPECIFICATION Spec
SYMMETRY Symmetric
INVARIANTS
    OnlyOwnData
CHECK_DEADLOCK FALSE
