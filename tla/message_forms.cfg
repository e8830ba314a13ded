SPECIFICATION Spec
CONSTANTS
    MaxTokens = 6
CHECK_DEADLOCK FALSE
INVARIANTS TypeOK StoredIsLabel TrimmedIsSubmitted
