CONSTANTS
    Requests = {r1}
    None = None
    MaxLines = 3
    MaxReports = 2
    BufferSize = 2
SPECIFICATION FairSpec
INVARIANTS
    ExecTypeOK
    LogsFramed
    LinesInOrder
    LinesAccounted
    TerminalStatusLast
    RecordComplete
PROPERTIES
    ExecutionEnds
CHECK_DEADLOCK FALSE
