SPECIFICATION PromptSpec
CONSTANTS
    MaxMessages = 1
    MaxRetries = 2
    BatchSize = 1
    StaleAfter = 2
    SubmitTimeout = 1
    Unsubmittable = {}
    MaxRestarts = 1
    StoreFaults = FALSE
PROPERTIES TimedOutIsNotRetried
