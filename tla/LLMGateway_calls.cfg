SPECIFICATION Spec
CONSTANTS
    Route = 3
    MaxRetries = 2
    Deadline = 3
    Total = 7
    MaxDelay = 4
    MaxRetryAfter = 3
    Late = 1
    MaxEvents = 3
    Replies <- MCReplies
INVARIANTS WithinBudget RowsTell NoSilentSwitch
PROPERTIES RefusedOnce CallEnds
CHECK_DEADLOCK FALSE
