SPECIFICATION FairSpec
CONSTANTS
    Messages = {m1, m2}
    m1 = m1
    m2 = m2
    NoMessage = NoMessage
    MaxReplays = 2
    MinInterval = 3
    Window = 6
    Second = 2
    MaxRestarts = 1
    StoreFaults = TRUE
CHECK_DEADLOCK FALSE
INVARIANTS IInv
PROPERTIES KeepsBudget RepeatedIsAnswered
