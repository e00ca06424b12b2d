CONSTANTS
    Clients = {c1, c2}
    Tasks = {t1, t2}
    Capacity = 2
    MaxActivities = 3
    WireCap = 1
    MaxConnects = 2
SPECIFICATION Spec
SYMMETRY Symmetric
CONSTRAINT Scope
INVARIANTS
    FeedTypeOK
    IndexMatchesBuffer
    BufferedIsNewest
    StreamOrdered
    InStep
PROPERTIES
    LiveNeverOlder
CHECK_DEADLOCK FALSE
