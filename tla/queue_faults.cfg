SPECIFICATION Spec
CONSTANTS
    MaxMessages = 2
    MaxRetries = 2
    BatchSize = 2
    StaleAfter = 2
    SubmitTimeout = 1
    Unsubmittable = {2}
    MaxRestarts = 2
    StoreFaults = TRUE
INVARIANTS IInv RetryBudget SubmissionBudget AckedIsCompleted
PROPERTIES CompletedIsFinal TimeoutIsFinal KeepsPromise EverySettles
