CONSTANTS
    Demands = {d1, d2}
    Selectable = {d1, d2}
    Workers = {w1, w2}
    NoDemand = NoDemand
    NoWorker = NoWorker
    MaxConcurrent = 2
    MaxCandidates = 100
    WithPdfConfig = {d1}
    Simulated = FALSE
    Operator = {}
    Faults = {}
    d1 = d1
    d2 = d2
    w1 = w1
    w2 = w2
SPECIFICATION FairSpec
PROPERTIES
    PendingIsTaken
    DrainsAfterStop
