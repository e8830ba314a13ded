CONSTANTS
    c1 = c1
    c2 = c2
    c3 = c3
    table1 = table1
    table2 = table2
    NoContent = NoContent
    MaxRows = 3
    Contents <- MCContents
    Keys <- MCKeys
    KeyOf <- MCKeyOf
    Retention = 1
    CleanupBatch = 2
    ReconcileBatch = 1
    MaxTime = 4
SPECIFICATION Spec
INVARIANTS
    IInv
    CountedOnce
    SummaryIsExact
    DeletedWasCounted
    ResendRecognised
PROPERTIES
    KeepsLedger
