SPECIFICATION FairSpec
CONSTANTS
    Tasks = {t1}
    Nodes = {n1, n2}
    Workers = {w1, w2}
    NoWorker = NoWorker
    NoNode = NoNode
    MaxAttempts = 2
    StaleAfter = 1
    MaxGap = 1
    MaxFaults = 3
INVARIANTS LeaseHeld AttemptsSerial TraceClosed
PROPERTIES ImplementsContract EveryTaskEnds
