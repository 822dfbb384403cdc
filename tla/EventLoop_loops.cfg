SPECIFICATION FairSpec
CONSTANTS
    HeapSlack = 1
    MaxDelay = 2
    SAFETY_CAP = 3
    Delay = {0, 2, 3}
    Loc = {"l1", "l2"}
    WaitFrom = {"script", "engine"}
    Programs <- TimersAndWaits
    MaxRequests = 3
    MaxClock = 3
INVARIANTS TypeOK HandlesExact EachOnce CleanDrain
PROPERTIES JobsBeforeTimers HostTimersInOrder MacrotasksInOrder ImplementsWaiterList TimersFire
CHECK_DEADLOCK FALSE
