CONSTANTS
    Demands = {d1}
    Selectable = {d1}
    Workers = {w1}
    NoDemand = NoDemand
    NoWorker = NoWorker
    MaxConcurrent = 1
    MaxCandidates = 100
    WithPdfConfig = {d1}
    Simulated = FALSE
    Operator = {}
    Faults = {"extfail"}
    d1 = d1
    w1 = w1
SPECIFICATION Spec
PROPERTY RegistradaIsFinal
