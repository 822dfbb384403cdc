SPECIFICATION Spec
CONSTANTS
    MaxSlots = 3
    COMPACT_GEN_BASE = 3
    GenMod = 4
    SCAN_MAX = 1
    TopUp = 1
    MaxElems = 0
    MaxRoots = 2
    Reserve = 2
    History = {"dead"}
    Ops = {"minor","major","collect_incremental"}
INVARIANT FreeListExact
INVARIANT StaleStaysStale
CHECK_DEADLOCK FALSE
