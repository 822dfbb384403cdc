CONSTANTS
    l1 = l1
    l2 = l2
    NWorkers = 2
    Loc <- OneLoc
    MaxWaiters = 1
    MaxInbox = 1
    MaxReports = 1
    SpawnMayFail = TRUE
    AsyncKinds <- SyncAndAsync
SPECIFICATION Spec
INVARIANTS TypeOK Exclusive ComparedValueIsCurrent TicketsExact
