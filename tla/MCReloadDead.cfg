SPECIFICATION FairSpec
CONSTANTS
    h1 = h1
    h2 = h2
    b1 = b1
    b2 = b2
    p1 = p1
    p2 = p2
    Paths = {p1, p2}
    Hosts = {h1}
    Backends = {b1, b2}
    Configs <- TwoConfigs
    Loaders = {file}
    Workers = 1
    MaxLoads = 1
    MaxFlips = 1
PROPERTY
    LiveServersServe
