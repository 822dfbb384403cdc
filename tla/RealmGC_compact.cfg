SPECIFICATION Spec
CONSTANTS
    MaxSlots = 3
    COMPACT_GEN_BASE = 1
    GenMod = 2
    SCAN_MAX = 1
    TopUp = 1
    MaxElems = 1
    MaxRoots = 2
    Reserve = 0
    History = {"obj"}
    Ops = {"named","freeze","swap","minor","compact"}
INVARIANT SideTablesExact
INVARIANT RememberedSet
PROPERTY ImplementsObjectGraph
CHECK_DEADLOCK FALSE
