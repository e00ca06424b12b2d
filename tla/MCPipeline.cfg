CONSTANTS
    Items = {i1, i2}
    DedupWindow = 1
    Minute = 1
    MaxPerMinute = 2
    MaxConcurrent = 2
    MaxJobs = 3
    MaxStories = 2
    MaxTime = 2
    MinLines = 2
    MaxLines = 2
    Threshold = 2
    Docs <- MCDocs
    NoDoc = NoDoc
    AgentSlots = 1
    BatchSize = 2
    MaxCases = 2
SPECIFICATION FairSpec
INVARIANTS
    PipelineTypeOK
    GuardPrecise
    TextKept
    OwnWorkItems
    PairedUpToFirstSkip
PROPERTIES
    JobsEnd
CHECK_DEADLOCK FALSE
