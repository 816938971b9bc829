SPECIFICATION FairSpec
CONSTANTS
    Agents = {a1}
    Nodes = {n1, n2}
    Sweepers = {s1}
    NoAgent = NoAgent
    NoNode = NoNode
    Timeout = 1
    MaxTries = 2
    MaxCalls = 2
    MaxFaults = 2
INVARIANTS IdentitySound
PROPERTIES StatusConverges
