CONSTANTS
    NTERMS = 3
    MAX_PID = 4
SPECIFICATION Spec
VIEW Live
PROPERTIES
    ImplementsStacks
    OverwriteNeedsWindow
    RoundRobin
INVARIANTS
    TypeOK
    ProcessForest
    OwnAddressSpace
    FramesOnOwnStack
