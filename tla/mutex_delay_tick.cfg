SPECIFICATION MutexSpec
CONSTANTS
    OS_TASK_MAX = 6
    MutexSlots <- MCSlots
    AutoStart <- MCAutoStart
    AlarmTask = {}
    Delays <- MCDelays
    TICK_MOD = 3
    RestartDeleted = FALSE
    NULL = NULL
    ClientMay = {"delay_holding"}
INVARIANT
    TickLoopEnds
