SPECIFICATION MutexSpec
CONSTANTS
    OS_TASK_MAX = 6
    MutexSlots <- MCSlotsAbove
    AutoStart <- MCAutoStart
    AlarmTask <- MCAlarmTask
    Delays = {1}
    TICK_MOD = 2
    RestartDeleted = FALSE
    NULL = NULL
    ClientMay = {}
INVARIANT
    BlockedAtMostOnce
PROPERTY
    IsCeilingScheduler
