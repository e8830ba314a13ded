CONSTANTS
    printjob = printjob
    Keys <- MCKeys
    EmptyKey = EmptyKey
    NoKey = NoKey
    MaxRequests = 3
    Ttl = 1
    Retention = 1
    MaxFaults = 1
    MaxTime = 2
SPECIFICATION Spec
CHECK_DEADLOCK FALSE
INVARIANTS
    IInv
    PublishedOncePerKey
    AnswersAreTrue
    PendingOnlyAfterFault
PROPERTIES
    KeepsCommandPromise
