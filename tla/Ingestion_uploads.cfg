SPECIFICATION FairSpec
CONSTANTS
    Docs = {d1, d2}
    Workers = {w1}
    NoWorker = NoWorker
    StaleAfter = 1
    MaxGap = 1
    MaxFaults = 1
INVARIANTS LeaseHeld RecordsSound
PROPERTIES ImplementsContract UploadsSettle
