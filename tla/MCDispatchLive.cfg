CONSTANTS
    Agents = {a1, a2}
    Tasks = {t1, t2}
    MaxSlots = 2
    MaxTries = 1
    MaxOutages = 1
    NoAgent = NoAgent
    NoTask = NoTask
SPECIFICATION FairSpec
PROPERTIES
    BrokenRecovers
    RequestsEnd
