CONSTANTS
    Demands = {d1}
    Selectable = {d1}
    Workers = {w1, w2}
    NoDemand = NoDemand
    NoWorker = NoWorker
    MaxConcurrent = 2
    MaxCandidates = 100
    WithPdfConfig = {d1}
    Simulated = FALSE
    Operator = {"post", "put", "delete"}
    Faults = {"crash", "extfail", "dbfail"}
    d1 = d1
    w1 = w1
    w2 = w2
SPECIFICATION Spec
SYMMETRY WorkerSymmetry
CONSTRAINT NotOverridden
INVARIANTS
    MutualExclusion
    FiledOncePerOpening
PROPERTY ImplementsLease
