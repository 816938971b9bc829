SPECIFICATION FairSpec
CONSTANTS
    Apps = {a1}
    NoApp = NoApp
    Outlive = FALSE
    RestartLimit = 1
    MaxPids = 4
    MaxAsked = 1
    MaxFaults = 2
INVARIANTS OneOwner LookedAfter
PROPERTIES Recovers
