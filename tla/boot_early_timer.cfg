SPECIFICATION EarlyTimerSpec
CONSTANTS
    OS_TASK_MAX = 5
    MutexSlots <- MCSlots
    AutoStart <- MCAutoStart
    AlarmTask <- MCAlarmTask
    Delays <- MCDelays
    TICK_MOD = 4
    RestartDeleted = FALSE
    NULL = NULL
    PriorityList <- MCPriorityList
INVARIANT
    TasksRunAfterInit
