SPECIFICATION FairSpec
CONSTANTS
    Threshold = 6
    Timeout = 9
    Interval = 1
    Slack = 1
    Second = 2
    BatchSize = 2
INVARIANTS IInv AlarmsAreTrue StuckIsReported
PROPERTIES AlarmsEnd
