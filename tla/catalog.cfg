SPECIFICATION Spec
CONSTANTS
    Kinds = {"plain", "keyed", "amount_type", "company_type", "holiday", "portfolio_city_config"}
    Keys = {k1, k2}
    Parents = {p1, p2}
    Ids = {1, 2}
    Callers = {c1, c2}
    None = None
SYMMETRY Symmetry

    
PROPERTY ReturnsOnlyByRace
CHECK_DEADLOCK FALSE
