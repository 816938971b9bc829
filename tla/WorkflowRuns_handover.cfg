SPECIFICATION Spec
CONSTANTS
    Runs = {r1}
    Operators = {o1}
    Workers = {w1}
    NoRun = NoRun
    NoWorker = NoWorker
    definition <- GateThenWork
    StaleAfter = 2
    MaxGap = 1
    MaxServing = 2
    MaxFaults = 0
INVARIANTS NeverPicked
