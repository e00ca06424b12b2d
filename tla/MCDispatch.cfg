CONSTANTS
    Agents = {a1, a2}
    Tasks = {t1, t2, t3}
    MaxSlots = 2
    MaxTries = 2
    MaxOutages = 1
    NoAgent = NoAgent
    NoTask = NoTask
SPECIFICATION Spec
SYMMETRY Symmetric
INVARIANTS
    TypeOK
    SlotAccounting
    NoOverbooking
    StatusMatchesSlots
    BrokenIsTracked
    PendingIsBroken
PROPERTIES
    BrokenNotReserved
    QuarantineUntilDrained
    ImplementsSlotPool
