SPECIFICATION SemFairSpec
CONSTANTS
    OS_TASK_MAX = 4
    MutexSlots = {}
    AutoStart <- MCAutoStart
    AlarmTask = {}
    Delays = {1, 2}
    TICK_MOD = 3
    RestartDeleted = FALSE
    NULL = NULL
    Sem <- MCSem
    Counting <- MCCounting
    InitialCount <- MCInitialCount
    Timeouts <- MCTimeouts
    CountBound = 2
    StopsWaiters = FALSE
    sCount = sCount
    sBinary = sBinary
INVARIANTS
    SemTypeOK
    TokensConserved
    NoWaitWithTokens
    BlockedAreWaiting
    NoWaiterSuspended
PROPERTIES
    WaitFailsOnlyOnTimeout
    IsCountingSemaphore
    WaitEnds
