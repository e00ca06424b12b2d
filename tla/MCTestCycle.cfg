CONSTANTS
    Agents = {a1, a2}
    Tasks = {t1, t2, t3}
    MaxSlots = 1
    MaxTries = 1
    MaxOutages = 0
    Tests = {x1, x2}
    Stop = Stop
    NoAgent = NoAgent
    NoTask = NoTask
    TestCases = {c1, c2}
    Labels = {l1, l2}
    MAX_RETRIES = 2
SPECIFICATION BothSpec
INVARIANTS
    TestTypeOK
    NoTestLost
    JoinCounter
    AnswerHolds
    BugsNoted
PROPERTY ImplementsTestGroup
