SPECIFICATION FairSpec
CONSTANTS
    k1 = k1
    k2 = k2
    b1 = b1
    b2 = b2
    s1 = s1
    Attempts = {1, 2, 3}
    Limit = 2
    Window = 2
    MaxTime = 4
    Logins = {s1}
    Sockets = {k1, k2}
    Buses = {b1, b2}
    Open <- MCOpen
    Serves <- MCServes
    MaxEvents = 2
    QueueSize = 1
    Processes = {1, 2}
    NoHolder = nobody
    Ttl = 2
    MaxTroubles = 2
    Jobs = {1, 2}
    Capacity = 1
    MaxCancels = 2
    Calls = {1, 2}
    ClaudeSlots = 1
    RagSlots = 1
    MaxLines = 1
INVARIANTS AttemptsBounded EndedIsSilent EventsOnce ContainersOwned OneOutcome
PROPERTIES SomebodyLeads CallsEnd
CHECK_DEADLOCK FALSE
