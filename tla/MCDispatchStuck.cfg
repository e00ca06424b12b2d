CONSTANTS
    Agents = {a1}
    Tasks = {t1, t2}
    MaxSlots = 2
    MaxTries = 1
    MaxOutages = 0
    NoAgent = NoAgent
    NoTask = NoTask
SPECIFICATION Spec
PROPERTY StuckTaskCancelledFirst
