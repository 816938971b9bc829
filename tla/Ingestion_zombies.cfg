SPECIFICATION Spec
CONSTANTS
    Docs = {d1}
    Workers = {w1}
    NoWorker = NoWorker
    StaleAfter = 1
    MaxGap = 1
    MaxFaults = 0
INVARIANTS NoZombieVectors
