SPECIFICATION AlarmSpec
CONSTANTS
    OS_TASK_MAX = 3
    MutexSlots = {}
    AutoStart <- MCAutoStart
    AlarmTask <- MCAlarmTask
    Delays = {1}
    TICK_MOD = 2
    RestartDeleted = FALSE
    NULL = NULL
    ALARM_ID_MAX = 2
    Periods <- MCPeriods
    ExpiryBound = 2
PROPERTY
    CancelledStaysOff
