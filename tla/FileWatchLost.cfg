SPECIFICATION FairSpec
CONSTANTS
    Handlers = {}
    MaxVersion = 2
    MaxNoise = 0
CHECK_DEADLOCK FALSE
PROPERTY
    EditApplied
