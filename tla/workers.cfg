SPECIFICATION FairSpec
CONSTANTS
    a = a
    b = b
    pa = pa
    pb = pb
    Configs = {a, b}
    NoConfig = NoConfig
    Portfolios = {pa, pb}
    PortfolioOf <- OneEach
    Callers = {c1}
    Faults = {"crash", "persist", "read"}
    Workers = {w1}
INVARIANTS
    WorkersTypeOK
    WorksWithinConditions
PROPERTIES
    AtMostOneMore
    ComesToRest
