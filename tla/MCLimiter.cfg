SPECIFICATION Spec
CONSTANTS
    Clients = {c1, c2}
    Slots = {s1, s2}
    Routes <- MCRoutes
    Global <- MCGlobal
    MaxReqs = 5
    MaxTime = 3
SYMMETRY Symmetry
INVARIANTS TypeOK RateBound
PROPERTIES RefusedForCause
CHECK_DEADLOCK FALSE
