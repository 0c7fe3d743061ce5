SPECIFICATION FairSpec
CONSTANTS
    d1 = d1
    d2 = d2
    Domains = {d1, d2}
    NoDomain = none
    Handlers = {h1}
    Refresher = refresher
    Hashes <- MCApart
    Shards = 2
    OneDir = TRUE
    MaxOrders = 1
    MaxFaults = 0
PROPERTIES
    ReloadDone
CHECK_DEADLOCK FALSE
