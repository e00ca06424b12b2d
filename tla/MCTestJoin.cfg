CONSTANTS
    Agents = {a1}
    Tasks = {t1, t2}
    MaxSlots = 1
    MaxTries = 1
    MaxOutages = 0
    Tests = {x1, x2}
    Stop = Stop
    NoAgent = NoAgent
    NoTask = NoTask
SPECIFICATION TestFairSpec
PROPERTY GroupEnds
