SPECIFICATION FairSpec
CONSTANTS
    a = a
    b = b
    Names = {a, b}
    Present = {a}
    Order <- MCOrder
    CommonNames <- MCCommon
    AltNames <- MCAlt
    ServerNames <- MCServerNames
    MaxChanges = 1
    MaxNoise = 0
PROPERTIES
    FolderServed
CHECK_DEADLOCK FALSE
