SPECIFICATION StartSpec
CONSTANTS
    d1 = d1
    d2 = d2
    Domains = {d1, d2}
    NoDomain = none
    Handlers = {h1}
    Refresher = refresher
    Hashes <- MCShared
    Shards = 2
    OneDir = TRUE
    MaxOrders = 1
    MaxFaults = 1
INVARIANTS
    TypeOK
    DomainsRemembered
    OneAccount
    InvalidForClear
PROPERTIES
    Renewed
CHECK_DEADLOCK FALSE
