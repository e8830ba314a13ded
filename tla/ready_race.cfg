SPECIFICATION FairSpec
CONSTANTS
    DisconnectDelay = 1
    RecoveryDelay = 1
    Revalidate = 1
    MaxRestarts = 0
    PublishFaults = FALSE
    Refreshes = TRUE
PROPERTIES NotReadyIsHeard
