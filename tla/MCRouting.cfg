SPECIFICATION BoundedSpec
CONSTANTS
    h1 = h1
    default = default
    a1 = a1
    a2 = a2
    a3 = a3
    x = x
    y = y
    Hosts = {h1, default}
    DEFAULT = default
    Paths <- MCPaths
    Servers <- MCServers
    Tables <- MCTables
    Clients = {c1, c2}
    MaxReqs = 3
    MaxWrites = 1
SYMMETRY Symmetry
CHECK_DEADLOCK FALSE
INVARIANTS
    TypeOK
    BestMatch
    Balanced
    CalmService
PROPERTIES
    StickyKept
    AddressOfRoute
    KeepsDispatch
