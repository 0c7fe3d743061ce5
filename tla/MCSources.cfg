SPECIFICATION StartSpec
CONSTANTS
    Handlers = {p1, p2}
    MaxVersion = 3
    MaxNoise = 1
    a = a
    b = b
    Mappings <- MCMappings
    Endpoints <- MCEndpoints
    Bodies <- MCBodies
    ApiServers = 2
    MaxChanges = 2
    MaxPosts = 1
CHECK_DEADLOCK FALSE
INVARIANTS
    SourcesTypeOK
    InStep
    EveryMappingKept
PROPERTIES
    CalmEditApplied
    Discovered
