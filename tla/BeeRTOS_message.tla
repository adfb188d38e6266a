--------------------------- MODULE BeeRTOS_message ---------------------------
(***************************************************************************)
(* The messages (BeeRTOS_message.c): queues that callers can wait for,     *)
(* over the scheduler and the rings.  A wait that blocks is two critical   *)
(* sections with a context switch between them; after it the caller tries  *)
(* the queue once more.                                                    *)
(*                                                                         *)
(* What a message carries is its number, counted modulo the cardinality of *)
(* Item as the ring stores it: enough to see one lost, repeated, torn or   *)
(* out of order.                                                           *)
(***************************************************************************)
EXTENDS BeeRTOS_task, BeeRTOS_queue

CONSTANTS
    Items,       \* Item is 0 .. Items - 1
    Timeouts     \* arguments tasks pass to os_message_send and _receive

Message == Queue
Side    == {"send", "receive"}
Opposite(side) == IF side = "send" THEN "receive" ELSE "send"

ASSUME MessageAssumption ==
    /\ NULL \notin Side \X Message
    /\ Items \in Nat \ {0}
    /\ Item = 0 .. Items - 1
    /\ \A m \in Message : Size[m] < Items * ItemSize[m]
    /\ Timeouts \subseteq Delays \cup {0}   \* a wait blocks in os_delay(timeout)

VARIABLES
    waiting_tasks,    \* send_waiting_tasks and receive_waiting_tasks of os_messages[m]
    inside,           \* task -> the wait it is inside of, <<side, m>>, or NULL
    sent, received,   \* history: messages that entered and left the ring, modulo Items
    overtaken         \* history: waiters another task of their side got in before

message_vars == <<ring_vars, waiting_tasks, inside, sent, received, overtaken>>
all_vars     == <<vars, message_vars, answer>>

Calling == Executing /\ inside[os_task_current] = NULL

-----------------------------------------------------------------------------
CanDo(side, m) == IF side = "send" THEN os_queue_can_push(m, ItemSize[m])
                                   ELSE os_queue_can_pop(m, ItemSize[m])

\* os_queue_push or os_queue_pop that succeeds.
QueueOp(side, m) ==
    \/ /\ side = "send"
       /\ Push(m, sent[m], ItemSize[m])
       /\ sent' = [sent EXCEPT ![m] = (@ + 1) % Items]
       /\ UNCHANGED received
    \/ /\ side = "receive"
       /\ Pop(m, ItemSize[m])
       /\ received' = [received EXCEPT ![m] = (@ + 1) % Items]
       /\ UNCHANGED sent

OthersInside(side, m) == {t \in Task \ {os_task_current} : inside[t] = <<side, m>>}

\* A waiter that takes what it was released for gets in before nobody.
Bypassed(side, m) ==
    IF os_task_current \in waiting_tasks[side][m] \cup overtaken THEN OthersInside(side, m) ELSE {}

Mut_os_message_release_waiting_task_KeepsBit(side, m) ==
    LET task == os_tasks[OS_GET_HIGHEST_PRIO_TASK_FROM_MASK(waiting_tasks[side][m])]
    IN /\ os_task_release(OS_GET_TASK_ID_FROM_PRIORITY(priority[task]))
       /\ overtaken' = (overtaken \cup OthersInside(Opposite(side), m)) \ {task}
       /\ UNCHANGED waiting_tasks

os_message_release_waiting_task(side, m) ==
    LET task == os_tasks[OS_GET_HIGHEST_PRIO_TASK_FROM_MASK(waiting_tasks[side][m])]
    IN /\ waiting_tasks' = [waiting_tasks EXCEPT ![side][m] = @ \ {priority[task]}]
       /\ os_task_release(OS_GET_TASK_ID_FROM_PRIORITY(priority[task]))
       /\ overtaken' = (overtaken \cup OthersInside(Opposite(side), m)) \ {task}

(***************************************************************************)
(* The first critical section of os_message_send and os_message_receive.   *)
(***************************************************************************)
Mut_Served_WrongSide(side, m) ==
    /\ QueueOp(side, m)
    /\ \/ /\ waiting_tasks[side][m] # {}
          /\ os_message_release_waiting_task(side, m)
       \/ /\ waiting_tasks[side][m] = {}
          /\ overtaken' = overtaken \cup OthersInside(side, m)
          /\ UNCHANGED <<vars, waiting_tasks>>
    /\ UNCHANGED inside

Served(side, m) ==
    /\ QueueOp(side, m)
    /\ LET other == Opposite(side) IN
       \/ /\ waiting_tasks[other][m] # {}
          /\ os_message_release_waiting_task(other, m)
       \/ /\ waiting_tasks[other][m] = {}
          /\ overtaken' = overtaken \cup OthersInside(side, m)
          /\ UNCHANGED <<vars, waiting_tasks>>
    /\ UNCHANGED inside

Mut_Block_StopsForGood(side, m, timeout) ==
    /\ ~CanDo(side, m)
    /\ timeout # 0
    /\ waiting_tasks' = [waiting_tasks EXCEPT ![side][m] = @ \cup {priority[os_task_current]}]
    /\ inside' = [inside EXCEPT ![os_task_current] = <<side, m>>]
    /\ os_task_stop(OS_GET_TASK_ID_FROM_PRIORITY(priority[os_task_current]))
    /\ UNCHANGED <<ring_vars, sent, received, overtaken>>

\* os_message_handle_timeout up to its os_leave_critical_section.
Block(side, m, timeout) ==
    /\ ~CanDo(side, m)
    /\ timeout # 0
    /\ waiting_tasks' = [waiting_tasks EXCEPT ![side][m] = @ \cup {priority[os_task_current]}]
    /\ inside' = [inside EXCEPT ![os_task_current] = <<side, m>>]
    /\ os_delay(timeout)
    /\ UNCHANGED <<ring_vars, sent, received, overtaken>>

DoNotWait(side, m, timeout) ==
    /\ ~CanDo(side, m)
    /\ timeout = 0
    /\ UNCHANGED <<vars, message_vars>>

os_message_call(side, m, timeout) ==
    /\ Calling
    /\ Served(side, m) \/ Block(side, m, timeout) \/ DoNotWait(side, m, timeout)
    /\ UNCHANGED answer

os_message_send(m, timeout)    == os_message_call("send", m, timeout)
os_message_receive(m, timeout) == os_message_call("receive", m, timeout)

(***************************************************************************)
(* The rest of os_message_handle_timeout: try again, and release nobody.   *)
(***************************************************************************)
Mut_os_message_handle_timeout_return_KeepsBit(side, m) ==
    /\ Executing
    /\ inside[os_task_current] = <<side, m>>
    /\ \/ /\ QueueOp(side, m)
          /\ overtaken' = (overtaken \cup Bypassed(side, m)) \ {os_task_current}
       \/ /\ ~CanDo(side, m)
          /\ overtaken' = overtaken \ {os_task_current}
          /\ UNCHANGED <<ring_vars, sent, received>>
    /\ inside' = [inside EXCEPT ![os_task_current] = NULL]
    /\ UNCHANGED <<vars, answer, waiting_tasks>>

Mut_os_message_handle_timeout_return_GivesUp(side, m) ==
    /\ Executing
    /\ inside[os_task_current] = <<side, m>>
    /\ overtaken' = overtaken \ {os_task_current}
    /\ waiting_tasks' =
          [waiting_tasks EXCEPT ![side][m] = @ \ {priority[os_task_current]}]
    /\ inside' = [inside EXCEPT ![os_task_current] = NULL]
    /\ UNCHANGED <<vars, answer, ring_vars, sent, received>>

os_message_handle_timeout_return(side, m) ==
    /\ Executing
    /\ inside[os_task_current] = <<side, m>>
    /\ \/ /\ QueueOp(side, m)
          /\ overtaken' = (overtaken \cup Bypassed(side, m)) \ {os_task_current}
       \/ /\ ~CanDo(side, m)
          /\ overtaken' = overtaken \ {os_task_current}
          /\ UNCHANGED <<ring_vars, sent, received>>
    /\ waiting_tasks' =
          [waiting_tasks EXCEPT ![side][m] = @ \ {priority[os_task_current]}]
    /\ inside' = [inside EXCEPT ![os_task_current] = NULL]
    /\ UNCHANGED <<vars, answer>>

-----------------------------------------------------------------------------
\* Tasks leave those that wait for a message alone.  os_task_start, a release
\* that does not schedule, is left to the runs of the scheduler.
KernelCall ==
    /\ Calling
    /\ \/ \E t \in Task \ {OS_TASK_IDLE} :
             /\ inside[t] = NULL
             /\ LET id == OS_GET_TASK_ID_FROM_PRIORITY(t)
                IN os_task_stop(id) \/ os_task_release(id)
       \/ os_task_delete
       \/ \E n \in Delays : os_delay(n)
    /\ UNCHANGED <<message_vars, answer>>

MessageInit ==
    /\ Init
    /\ QueueInit
    /\ waiting_tasks = [side \in Side |-> [m \in Message |-> {}]]
    /\ inside = [t \in Task |-> NULL]
    /\ sent = [m \in Message |-> 0]
    /\ received = [m \in Message |-> 0]
    /\ overtaken = {}

WaitReturns(t) ==
    /\ os_task_current = t
    /\ \E side \in Side, m \in Message : os_message_handle_timeout_return(side, m)

MessageNext ==
    \/ (PendSV_Handler \/ SysTick) /\ UNCHANGED <<message_vars, answer>>
    \/ KernelCall
    \/ \E m \in Message, timeout \in Timeouts :
          os_message_send(m, timeout) \/ os_message_receive(m, timeout)
    \/ \E t \in Task : WaitReturns(t)

MessageSpec == MessageInit /\ [][MessageNext]_all_vars

\* A task that has the processor inside a wait goes on to return from it.
MessageFairness ==
    /\ WF_all_vars(SysTick /\ UNCHANGED <<message_vars, answer>>)
    /\ WF_all_vars(PendSV_Handler /\ UNCHANGED <<message_vars, answer>>)
    /\ \A t \in Task : WF_all_vars(WaitReturns(t))
MessageFairSpec == MessageSpec /\ MessageFairness

-----------------------------------------------------------------------------
(***************************************************************************)
(* Properties.                                                             *)
(***************************************************************************)
MessageTypeOK ==
    /\ TypeOK
    /\ QueueTypeOK
    /\ waiting_tasks \in [Side -> [Message -> SUBSET (Priority \ {OS_TASK_IDLE})]]
    /\ inside \in [Task -> (Side \X Message) \cup {NULL}]
    /\ sent \in [Message -> Item]
    /\ received \in [Message -> Item]
    /\ overtaken \subseteq Task

\* Every message that a send reported as sent is received once, whole and in
\* order, whether it went in and out at once or after a wait, and whoever else
\* sends and receives meanwhile (message.c:89, :142, :192).
DeliveredInOrder ==
    \A m \in Message :
        Contents(m) = [n \in 1 .. (Items + sent[m] - received[m]) % Items |->
                          Bytes((received[m] + n - 1) % Items, ItemSize[m])]

\* A bit of a waiting mask stands for a task inside that wait, and no task is
\* counted on both sides: a stale bit would swallow a release and cut short
\* whatever the task sleeps for by then (message.c:60-62, :92).
WaitersAreInside ==
    \A side \in Side, m \in Message : \A p \in waiting_tasks[side][m] :
        os_tasks[p] = p /\ inside[p] = <<side, m>>

\* A released waiter finds what it was released for, unless another task got in
\* first: only then, or when its timeout has passed, does a wait return false.
ReleasedTo(side, m) == {t \in Task : inside[t] = <<side, m>> /\ t \notin waiting_tasks[side][m]}
ReleasedNotInVain ==
    \A side \in Side, m \in Message :
        ReleasedTo(side, m) \subseteq overtaken \/ CanDo(side, m)

\* A release goes to the most urgent waiter of the other side.
MostUrgentReleased ==
    [][\A side \in Side, m \in Message : \A p, q \in waiting_tasks[side][m] :
          p \in ReleasedTo(side, m)' /\ q \in waiting_tasks'[side][m] => q < p]_all_vars

\* "task will be delayed until there is space in message, or timeout occurs"
\* (cfg.h:114): a sleeping waiter nobody releases is woken by no other tick, call
\* or release than the tick its timeout is due, however often it waited before.
SleepLastsTimeout ==
    [][\A side \in Side, m \in Message : \A p \in waiting_tasks[side][m] \cap waiting_tasks'[side][m] :
          p \in os_delay_mask \cap os_ready_mask'
             => os_tick_counter' # os_tick_counter /\ wake[p] = os_tick_counter']_all_vars

\* For the tasks, the messages and the scheduler together are bounded channels
\* that callers can wait at: what is sent is received whole and in order, who
\* waits is called in order of urgency or gets up when its time is over, and
\* tries once more (message.c:54-95, :128-215).  Rings, masks, control blocks
\* and the numbers of the messages are machinery.
Payload  == {Bytes(item, ItemSize[m]) : item \in Item, m \in Message}
Carried  == [m \in Message |-> Contents(m)]
Visits   == [t \in Task \ {OS_TASK_IDLE} |-> inside[t]]
Uncalled == UNION {waiting_tasks[side][m] : side \in Side, m \in Message}

Channels == INSTANCE BlockingChannel WITH
    Max       <- OS_TASK_MAX,
    Clock     <- TICK_MOD,
    Naps      <- Delays,
    Wakeable  <- AlarmTask,
    Nobody    <- NULL,
    Client    <- Task \ {OS_TASK_IDLE},
    Channel   <- Message,
    Element   <- Payload,
    Capacity  <- [m \in Message |-> Accepted(m)],
    Patience  <- Timeouts,
    running   <- os_task_current,
    ready     <- os_ready_mask,
    due       <- [p \in os_delay_mask |-> wake[p]],
    now       <- os_tick_counter,
    alive     <- {p \in Priority : os_tasks[p] # NULL},
    late      <- unsched,
    switching <- pendsv,
    contents  <- Carried,
    visit     <- Visits,
    uncalled  <- Uncalled
IsBlockingChannel == Channels!ChannelSpec

\* A wait ends, served or not: the most urgent task never stays inside
\* os_message_send or os_message_receive.
MostUrgentTask == OS_GET_HIGHEST_PRIO_TASK_FROM_MASK(Task)
MessageWaitEnds == inside[MostUrgentTask] # NULL ~> inside[MostUrgentTask] = NULL

\* cfg.h:114: the "task will be delayed until there is space in message, or
\* timeout occurs".  A task sleeps on in a wait that could be served only while
\* another waiter of its side is awake and about to take what is there.
NobodySleepsThroughService ==
    \A side \in Side, m \in Message :
        (CanDo(side, m) /\ waiting_tasks[side][m] \cap os_delay_mask # {})
            => \E t \in os_ready_mask : inside[t] = <<side, m>>

=============================================================================
