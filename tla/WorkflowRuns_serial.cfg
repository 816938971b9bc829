SPECIFICATION FairSpec
CONSTANTS
    Runs = {r1}
    Operators = {o1}
    Workers = {w1, w2}
    NoRun = NoRun
    NoWorker = NoWorker
    definition <- GatedWork
    StaleAfter = 2
    MaxGap = 1
    MaxServing = 1
    MaxFaults = 2
INVARIANTS LeaseHeld StepsInOrder RecordsSound
PROPERTIES FinalIsFinal RunsComeToRest
