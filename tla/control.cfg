SPECIFICATION Spec
CONSTANTS
    a1 = a1
    a2 = a2
    b1 = b1
    pa = pa
    pb = pb
    Configs = {a1, a2, b1}
    NoConfig = NoConfig
    Portfolios = {pa, pb}
    PortfolioOf <- TwoOfOne
    Callers = {c1, c2}
    Faults = {"crash", "persist", "read"}
SYMMETRY Alike
INVARIANTS
    TypeOK
    CurrentIsRunning
    OneBotPerPortfolio
    TableMatchesAnswers
    MemoryIsInTable
PROPERTY RehydratesWhatWasTold
