SPECIFICATION FairSpec
CONSTANTS
    a1 = a1
    a2 = a2
    b1 = b1
    Assignments = {a1, a2}
    Bases = {b1, b2}
    BaseOf <- TwoInOne
    InCity = {a1, a2}
    WithAmount = {a1}
    DownBases = {b2}
    Ticks = {t1, t2}
    Faults = {"crash", "basefail", "delete"}
INVARIANTS
    DuplicatesBounded
PROPERTY PendingGetsRow
