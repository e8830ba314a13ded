SPECIFICATION FairSpec
CONSTANTS
    DisconnectDelay = 3
    RecoveryDelay = 5
    Revalidate = 4
    MaxRestarts = 1
    PublishFaults = TRUE
    Refreshes = TRUE
INVARIANTS IInv DisagreesOnlyByRace
PROPERTIES Debounced RecoveryIsReported LossIsReported
