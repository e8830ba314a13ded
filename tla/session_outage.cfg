SPECIFICATION FairSpec
CONSTANTS
    Rows = 3
    BatchSize = 2
    MaxRetries = 2
    Answers = {"up", "suspect", "denied", "down", "faulty"}
    MaxOutages = 2
    MaxRestarts = 1
INVARIANTS IInv OutageCostsOneRetry
PROPERTIES SubmissionAdvances SubmissionsEnd QueueDrains
