SPECIFICATION PromptSpec
CONSTANTS
    MaxMessages = 2
    MaxRetries = 2
    BatchSize = 1
    StaleAfter = 2
    SubmitTimeout = 1
    Unsubmittable = {}
    MaxRestarts = 0
    StoreFaults = FALSE
PROPERTIES SuccessIsNotResubmitted
