CONSTANTS
    l1 = l1
    l2 = l2
    NWorkers = 1
    Loc <- OneLoc
    MaxWaiters = 2
    MaxInbox = 1
    MaxReports = 0
    SpawnMayFail = FALSE
    AsyncKinds <- SyncAndAsync
SPECIFICATION FairSpec
INVARIANTS StatusIsTruth EveryWaitAccounted
PROPERTIES ImplementsWaiterLists QueuedAgentRuns CountedWaitReturns TeardownCompletes BreakerReleases
