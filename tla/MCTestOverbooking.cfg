CONSTANTS
    Agents = {a1}
    Tasks = {t1, t2, t3}
    MaxSlots = 1
    MaxTries = 1
    MaxOutages = 0
    Tests = {x1}
    Stop = Stop
    NoAgent = NoAgent
    NoTask = NoTask
SPECIFICATION TestSpec
INVARIANT NoOverbooking
