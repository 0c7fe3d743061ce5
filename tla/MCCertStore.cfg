SPECIFICATION FairSpec
CONSTANTS
    a = a
    b = b
    Names = {a, b}
    Present = {a}
    Order <- MCOrder
    CommonNames <- MCCommon
    AltNames <- MCAlt
    ServerNames <- MCServerNames
    MaxChanges = 2
    MaxNoise = 1
INVARIANTS
    TypeOK
    HandshakeCovered
PROPERTIES
    KeepsServing
    NeverOlder
    CalmLoaded
CHECK_DEADLOCK FALSE
