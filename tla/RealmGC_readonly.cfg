SPECIFICATION Spec
CONSTANTS
    MaxSlots = 3
    COMPACT_GEN_BASE = 2
    GenMod = 4
    SCAN_MAX = 1
    TopUp = 1
    MaxElems = 1
    MaxRoots = 2
    Reserve = 0
    History = {"obj"}
    Ops = {"readonly","compact"}
PROPERTY ImplementsObjectGraph
CHECK_DEADLOCK FALSE
