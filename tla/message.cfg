SPECIFICATION MessageFairSpec
CONSTANTS
    OS_TASK_MAX = 4
    MutexSlots = {}
    AutoStart <- MCAutoStart
    AlarmTask = {}
    Delays = {1, 2}
    TICK_MOD = 3
    RestartDeleted = FALSE
    NULL = NULL
    Queue <- MCQueue
    Size <- MCSize
    ItemSize <- MCItemSize
    Item <- MCItem
    Items = 3
    Timeouts <- MCTimeouts
    mail = mail
INVARIANTS
    MessageTypeOK
    DeliveredInOrder
    WaitersAreInside
    ReleasedNotInVain
PROPERTIES
    SleepLastsTimeout
    IsBlockingChannel
    MessageWaitEnds
