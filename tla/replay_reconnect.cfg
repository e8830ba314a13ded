SPECIFICATION FairSpec
CONSTANTS
    Messages = {m1}
    m1 = m1
    NoMessage = NoMessage
    MaxReplays = 1
    MinInterval = 1
    Window = 2
    Second = 1
    MaxRestarts = 0
    StoreFaults = FALSE
CHECK_DEADLOCK FALSE
PROPERTIES Reconnects
