SPECIFICATION Spec
CONSTANTS
    MaxSlots = 3
    COMPACT_GEN_BASE = 1
    GenMod = 2
    SCAN_MAX = 1
    TopUp = 1
    MaxElems = 1
    MaxRoots = 2
    Reserve = 0
    History = {}
    Ops = {"store","tail","minor","major","incremental"}
PROPERTY IncrementalKeepsReachable
CHECK_DEADLOCK FALSE
