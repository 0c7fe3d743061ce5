SPECIFICATION BudgetSpec
CONSTANTS
    h1 = h1
    h2 = h2
    b1 = b1
    b2 = b2
    p1 = p1
    p2 = p2
    Paths = {p1, p2}
    Hosts = {h1, h2}
    Backends = {b1, b2}
    Configs <- MCConfigs
    Loaders = {file, api}
    Workers = 1
    MaxLoads = 2
    MaxFlips = 2
INVARIANTS
    TypeOK
    FullFromOneConfig
    IdMapAgrees
    ServesOneConfig
    FreshRound
PROPERTIES
    Delivered
    Converges
    StatusTruthful
    OneWriter
