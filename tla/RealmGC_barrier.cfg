SPECIFICATION Spec
CONSTANTS
    MaxSlots = 2
    COMPACT_GEN_BASE = 1
    GenMod = 2
    SCAN_MAX = 1
    TopUp = 1
    MaxElems = 2
    MaxRoots = 2
    Reserve = 0
    History = {"obj"}
    Ops = {"readonly","store","tail","push","interior","swap","minor","major"}
INVARIANT RememberedSet
PROPERTY ImplementsObjectGraph
CHECK_DEADLOCK FALSE
