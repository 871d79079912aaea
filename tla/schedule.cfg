SPECIFICATION Spec
CONSTANTS
    Portfolios = {p1}
    Days = {d1, d2}
    d1 = d1
    d2 = d2
    DaySets <- OneOrBoth
    LastMinute = 4
    Messages <- PortalSays
    Ids = {1, 2}
    Callers = {c1, c2}
    NoRow = NoRow
INVARIANTS
    WorksExactlyInHours
    StandbyReasonIsTrue
    RestrictedRowGetsItsTurn
SYMMETRY CallerSymmetry
CHECK_DEADLOCK FALSE
