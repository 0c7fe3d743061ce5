SPECIFICATION Spec
CONSTANTS
    Slots = {r1, r2}
    NoKey = noKey
    FileKey = fileKey
    EnvKey = envKey
    otherKey = otherKey
    Foreign <- MCForeign
    NoToken = noToken
    Validities = {0, 1}
    Minute = 2
    MaxTime = 3
    MaxIssued = 1
INVARIANTS
    TypeOK
    CacheHonest
PROPERTIES
    KeepsContract
    
SYMMETRY SlotSymmetry
