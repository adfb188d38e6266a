---------------------------- MODULE BeeRTOS_task ----------------------------
(***************************************************************************)
(* The scheduler of BeeRTOS (BeeRTOS_task.c), the tick (BeeRTOS.c) and the *)
(* two exception handlers of the Cortex-M4 port that drive it              *)
(* (port_CM4.c).                                                           *)
(*                                                                         *)
(* A task control block is named by the priority the configuration gives   *)
(* its task; the idle task is 0.  A mask is the set of priorities whose    *)
(* bit is set.  A critical section is one step: interrupts are off in it.  *)
(* Outside critical sections a pended PendSV is taken before the next      *)
(* instruction of the task, and SysTick before PendSV.                     *)
(*                                                                         *)
(* An operator Mut_f_X is f with one plausible slip; no specification uses *)
(* it.  Put in the place of f, it breaks the property PROJECT.json pairs   *)
(* it with.                                                                *)
(***************************************************************************)
EXTENDS Integers

CONSTANTS
    OS_TASK_MAX,     \* number of task ids, the idle task and the mutexes included
    MutexSlots,      \* priorities BEERTOS_PRIORITY_LIST() gives to mutexes
    AutoStart,       \* priorities of the tasks with autostart
    AlarmTask,       \* {priority of the alarm task}, or {} if there is none
    Delays,          \* arguments tasks pass to os_delay
    TICK_MOD,        \* 2^32 in the code: ticks and the tick counter wrap here
    RestartDeleted,  \* may os_task_start name a task without a control block?
    NULL

Priority == 0 .. OS_TASK_MAX - 1
TaskId   == 0 .. OS_TASK_MAX - 1
Task     == Priority \ MutexSlots
OS_TASK_IDLE == 0

ASSUME TaskMaxAssumption == OS_TASK_MAX \in Nat \ {0}
ASSUME SlotsAssumption ==
    /\ MutexSlots \subseteq Priority \ {OS_TASK_IDLE}
    /\ AutoStart \subseteq Task \ {OS_TASK_IDLE}
    /\ AlarmTask \subseteq Task \ {OS_TASK_IDLE}
ASSUME TickAssumption ==
    /\ TICK_MOD \in Nat
    /\ TICK_MOD > 1
    /\ Delays \subseteq 1 .. TICK_MOD - 1   \* "must be > 0", task.c:363
ASSUME FlagAssumption == RestartDeleted \in BOOLEAN
ASSUME NullAssumption == NULL \notin Priority

VARIABLES
    os_task_current, os_task_next,
    os_tasks,                    \* priority -> control block or NULL
    os_ready_mask, os_delay_mask,
    priority, ticks,             \* fields of the control blocks
    os_tick_counter,
    pendsv,                      \* PendSV is pended
    wake,                        \* history: tick at which a delay bit is due
    unsched                      \* history: bits made ready since the last os_sched

masks == <<os_ready_mask, os_delay_mask, wake>>
vars == <<os_task_current, os_task_next, os_tasks, os_ready_mask, os_delay_mask,
          priority, ticks, os_tick_counter, pendsv, wake, unsched>>

-----------------------------------------------------------------------------
OS_GET_TASK_ID_FROM_PRIORITY(prio) == OS_TASK_MAX - prio
PriorityOf(id) == OS_TASK_MAX - id

OS_GET_HIGHEST_PRIO_TASK_FROM_MASK(mask) ==
    CHOOSE p \in mask : \A q \in mask : q <= p

(***************************************************************************)
(* What the operations do to the masks.                                    *)
(***************************************************************************)
Mut_MakeReady_KeepsDelay(ps) ==
    /\ os_ready_mask' = os_ready_mask \cup ps
    /\ UNCHANGED <<os_delay_mask, wake>>

MakeReady(ps) ==
    /\ os_ready_mask' = os_ready_mask \cup ps
    /\ os_delay_mask' = os_delay_mask \ ps
    /\ wake' = [p \in Priority |-> IF p \in ps THEN 0 ELSE wake[p]]

Suspend(p) ==
    /\ os_ready_mask' = os_ready_mask \ {p}
    /\ os_delay_mask' = os_delay_mask \ {p}
    /\ wake' = [q \in Priority |-> IF q = p THEN 0 ELSE wake[q]]

Sleep(p, n) ==
    /\ os_ready_mask' = os_ready_mask \ {p}
    /\ os_delay_mask' = os_delay_mask \cup {p}
    /\ wake' = [wake EXCEPT ![p] = (os_tick_counter + n) % TICK_MOD]

(***************************************************************************)
(* os_sched reads the masks and the table its caller has just written.     *)
(* The stack monitor it runs has no effect in this build (its branch holds *)
(* only a TODO).                                                           *)
(***************************************************************************)
os_sched ==
    /\ os_task_next' = IF os_ready_mask' = {}
                       THEN os_tasks'[OS_TASK_IDLE]
                       ELSE os_tasks'[OS_GET_HIGHEST_PRIO_TASK_FROM_MASK(os_ready_mask')]
    /\ pendsv' = (pendsv \/ os_task_current # os_task_next')
    /\ unsched' = {}

-----------------------------------------------------------------------------
(***************************************************************************)
(* The calls of a task.  The idle task makes none: its callbacks are empty *)
(* in the configuration.                                                   *)
(***************************************************************************)
Executing == os_task_current \notin {NULL, OS_TASK_IDLE} /\ ~pendsv

\* The ids a well-behaved client starts: those that have a control block.
StartTarget(p) == RestartDeleted \/ os_tasks[p] # NULL

Mut_os_task_start_AcceptsIdle(id) ==
    /\ Executing
    /\ MakeReady({PriorityOf(id)})
    /\ unsched' = unsched \cup {PriorityOf(id)}
    /\ UNCHANGED <<os_task_current, os_task_next, os_tasks, priority, ticks,
                   os_tick_counter, pendsv>>

os_task_start(id) ==
    /\ Executing
    /\ id > OS_TASK_IDLE            \* otherwise the assertion at task.c:280 fails
    /\ StartTarget(PriorityOf(id))
    /\ MakeReady({PriorityOf(id)})
    /\ unsched' = unsched \cup {PriorityOf(id)}
    /\ UNCHANGED <<os_task_current, os_task_next, os_tasks, priority, ticks,
                   os_tick_counter, pendsv>>

\* The id of the idle task is accepted: its "priority" is OS_TASK_MAX, which
\* is no task's bit.
os_task_stop(id) ==
    /\ Executing
    /\ Suspend(PriorityOf(id))
    /\ UNCHANGED <<os_tasks, os_task_current, priority, ticks, os_tick_counter>>
    /\ os_sched

Mut_os_task_release_NoSched(id) ==
    /\ Executing
    /\ id > OS_TASK_IDLE
    /\ StartTarget(PriorityOf(id))
    /\ MakeReady({PriorityOf(id)})
    /\ UNCHANGED <<os_task_current, os_task_next, os_tasks, priority, ticks,
                   os_tick_counter, pendsv, unsched>>

os_task_release(id) ==
    /\ Executing
    /\ id > OS_TASK_IDLE
    /\ StartTarget(PriorityOf(id))
    /\ MakeReady({PriorityOf(id)})
    /\ UNCHANGED <<os_tasks, os_task_current, priority, ticks, os_tick_counter>>
    /\ os_sched

Mut_os_task_delete_NoStop ==
    /\ Executing
    /\ os_tasks' = [os_tasks EXCEPT ![priority[os_task_current]] = NULL]
    /\ UNCHANGED <<os_task_current, masks, priority, ticks, os_tick_counter>>
    /\ os_sched

\* The os_sched inside os_task_stop and the one after the table is written
\* select the same task: the bit of the deleted task is clear in both.
os_task_delete ==
    /\ Executing
    /\ Suspend(priority[os_task_current])
    /\ os_tasks' = [os_tasks EXCEPT ![priority[os_task_current]] = NULL]
    /\ UNCHANGED <<os_task_current, priority, ticks, os_tick_counter>>
    /\ os_sched

Mut_os_delay_OldTicks(n) ==
    /\ Executing
    /\ Sleep(priority[os_task_current], n)
    /\ UNCHANGED <<os_tasks, os_task_current, priority, ticks, os_tick_counter>>
    /\ os_sched

os_delay(n) ==
    /\ Executing
    /\ ticks' = [ticks EXCEPT ![os_task_current] = n]
    /\ Sleep(priority[os_task_current], n)
    /\ UNCHANGED <<os_tasks, os_task_current, priority, os_tick_counter>>
    /\ os_sched

-----------------------------------------------------------------------------
(***************************************************************************)
(* The exception handlers.                                                 *)
(***************************************************************************)

\* The loop of os_task_tick clears the bit it works on only if the control
\* block in that slot carries the slot's priority; it dereferences the slot.
TickLoopEnds == \A p \in os_delay_mask : os_tasks[p] # NULL /\ priority[os_tasks[p]] = p

Mut_os_task_tick_TestsFirst(woken) ==
    LET delayed == {os_tasks[p] : p \in os_delay_mask}
        expired == {p \in os_delay_mask : ticks[os_tasks[p]] = 0}
    IN /\ ticks' = [t \in Task |-> IF t \in delayed THEN (ticks[t] - 1) % TICK_MOD
                                                    ELSE ticks[t]]
       /\ MakeReady(expired \cup woken)

Mut_os_task_tick_FirstOnly(woken) ==
    LET first   == {p \in os_delay_mask : \A q \in os_delay_mask : q <= p}
        delayed == {os_tasks[p] : p \in first}
        expired == {p \in first : ticks[os_tasks[p]] = 1}
    IN /\ ticks' = [t \in Task |-> IF t \in delayed THEN (ticks[t] - 1) % TICK_MOD
                                                    ELSE ticks[t]]
       /\ MakeReady(expired \cup woken)

\* woken: the alarm task's bit, when os_alarm_tick releases it.
os_task_tick(woken) ==
    LET delayed == {os_tasks[p] : p \in os_delay_mask}
        expired == {p \in os_delay_mask : ticks[os_tasks[p]] = 1}
    IN /\ ticks' = [t \in Task |-> IF t \in delayed THEN (ticks[t] - 1) % TICK_MOD
                                                    ELSE ticks[t]]
       /\ MakeReady(expired \cup woken)

os_tick(woken) ==
    /\ os_task_tick(woken)
    /\ os_tick_counter' = (os_tick_counter + 1) % TICK_MOD

Mut_SysTick_Handler_NoSched(woken) ==
    /\ TickLoopEnds
    /\ \A p \in woken : StartTarget(p)
    /\ os_tick(woken)
    /\ UNCHANGED <<os_tasks, os_task_current, os_task_next, priority, pendsv, unsched>>

SysTick_Handler(woken) ==
    /\ TickLoopEnds
    /\ \A p \in woken : StartTarget(p)
    /\ os_tick(woken)
    /\ UNCHANGED <<os_tasks, os_task_current, priority>>
    /\ os_sched

\* The handler loads its stack pointer from os_task_next.  A SysTick between
\* the exception entry and CPSID has the effect of one just before the entry,
\* but for one more PendSV that saves and restores the same task.
PendSV_Handler ==
    /\ pendsv
    /\ os_task_next # NULL
    /\ pendsv' = FALSE
    /\ os_task_current' = os_task_next
    /\ UNCHANGED <<os_task_next, os_tasks, masks, priority, ticks,
                   os_tick_counter, unsched>>

-----------------------------------------------------------------------------
(***************************************************************************)
(* The state os_init leaves: every task has its control block, the         *)
(* autostart tasks are ready, and nothing has been scheduled yet.          *)
(***************************************************************************)
Init ==
    /\ os_task_current = NULL
    /\ os_task_next = NULL
    /\ os_tasks = [p \in Priority |-> IF p \in MutexSlots THEN NULL ELSE p]
    /\ os_ready_mask = AutoStart
    /\ os_delay_mask = {}
    /\ priority = [t \in Task |-> t]
    /\ ticks = [t \in Task |-> 0]
    /\ os_tick_counter = 0
    /\ pendsv = FALSE
    /\ wake = [p \in Priority |-> 0]
    /\ unsched = AutoStart

SysTick == \E woken \in SUBSET AlarmTask : SysTick_Handler(woken)

Next ==
    \/ PendSV_Handler
    \/ SysTick
    \/ \E id \in TaskId : os_task_start(id) \/ os_task_stop(id) \/ os_task_release(id)
    \/ os_task_delete
    \/ \E n \in Delays : os_delay(n)

Spec == Init /\ [][Next]_vars

\* The timer keeps firing and outranks every task, and PendSV outranks every
\* task too; what tasks do is up to them.
Fairness == WF_vars(SysTick) /\ WF_vars(PendSV_Handler)
FairSpec == Spec /\ Fairness

-----------------------------------------------------------------------------
(***************************************************************************)
(* Properties.                                                             *)
(***************************************************************************)
TypeOK ==
    /\ os_task_current \in Task \cup {NULL}
    /\ os_task_next \in Task \cup {NULL}
    /\ os_tasks \in [Priority -> Task \cup {NULL}]
    /\ os_ready_mask \subseteq Priority \ {OS_TASK_IDLE}
    /\ os_delay_mask \subseteq Priority \ {OS_TASK_IDLE}
    /\ priority \in [Task -> Priority]
    /\ ticks \in [Task -> 0 .. TICK_MOD - 1]
    /\ os_tick_counter \in 0 .. TICK_MOD - 1
    /\ pendsv \in BOOLEAN
    /\ wake \in [Priority -> 0 .. TICK_MOD - 1]
    /\ unsched \subseteq Priority

\* A task that executes is in the ready mask, under its own priority: one that
\* delayed, stopped or deleted itself is switched away before its next step,
\* whatever ticks and calls come in between (os_delay, os_task_stop,
\* os_task_delete, PendSV_Handler).
RunningIsReady ==
    Executing => /\ priority[os_task_current] \in os_ready_mask
                 /\ os_tasks[priority[os_task_current]] = os_task_current

\* No ready task waits for a task of lower priority, the idle task included,
\* except one os_task_start made ready, which the code leaves unscheduled until
\* the next os_sched (task.c:278-295 makes no call to it).
NoPriorityInversion ==
    os_task_current # NULL /\ ~pendsv =>
        \A p \in os_ready_mask \ unsched : p <= priority[os_task_current]

\* The handlers only touch control blocks that exist: the tick loop ends
\* (task.c:391-405) and PendSV has a stack to load (port_CM4.c:81-84).
HandlersSafe ==
    /\ TickLoopEnds
    /\ pendsv => os_task_next # NULL

\* Both: the processor does the most urgent of what can be done.
RightTaskRuns == RunningIsReady /\ NoPriorityInversion

\* A task is in at most one of the masks.  If it were in both, os_delay would
\* return at once and the tick would start the task a second time.
ReadyOrDelayed == os_ready_mask \cap os_delay_mask = {}

\* The inductive invariant behind the four above, on its own the scheduler's
\* bookkeeping: every bit leads to a live task in its own slot, and os_task_next
\* is the highest ready task as of the last os_sched, or on its way there.
OwnSlots ==
    /\ priority = [t \in Task |-> t]
    /\ os_tasks[OS_TASK_IDLE] = OS_TASK_IDLE
    /\ \A p \in Priority : os_tasks[p] \in {p, NULL}

LiveBits == \A p \in os_ready_mask \cup os_delay_mask : os_tasks[p] # NULL

Selected ==
    /\ os_task_next = NULL => os_task_current = NULL /\ ~pendsv
    /\ os_task_next # NULL =>
          /\ os_task_next \in os_ready_mask \cup {OS_TASK_IDLE}
          /\ \A p \in os_ready_mask \ unsched : p <= os_task_next
    /\ os_task_current # NULL /\ ~pendsv => os_task_current = os_task_next

SchedInv == OwnSlots /\ LiveBits /\ ReadyOrDelayed /\ Selected

\* os_delay(n) ends on exactly the n-th tick after the call, whatever the other
\* tasks do and even when the tick counter wraps in between: on each tick the
\* delays that end are those that are due (task.c:386-406).
DelayEndsOnTime ==
    [][os_tick_counter' # os_tick_counter =>
         \A p \in os_delay_mask \ AlarmTask :
            (wake[p] = os_tick_counter') <=> (p \in os_ready_mask' \ os_delay_mask')]_vars

\* What DelayEndsOnTime rests on: the ticks left of a delayed task are the
\* distance to its due tick, and a delay never shows 0 (the decrement would
\* wrap and add 2^32 ticks).
DelayCounts ==
    \A p \in os_delay_mask :
        LET left == ticks[os_tasks[p]] IN
        /\ left > 0
        /\ (os_tick_counter + left) % TICK_MOD = wake[p]

\* A delay ends: no sequence of calls by other tasks keeps a task asleep
\* (by its timeout, or earlier because another task starts or stops it).
DelayEnds == \A p \in Task : (p \in os_delay_mask) ~> (p \notin os_delay_mask)

\* The most urgent ready task gets the processor, or stops being that: a task
\* that never blocks cannot keep it out, nor can the ready task that
\* os_task_start did not schedule be forgotten.
MostUrgent(t) == t \in os_ready_mask /\ \A q \in os_ready_mask : q <= t
MostUrgentRuns ==
    \A t \in Task \ {OS_TASK_IDLE} :
        MostUrgent(t) ~> (os_task_current = t \/ ~MostUrgent(t))

\* The scheduler is a preemptive fixed-priority one, at every step: only the
\* most urgent ready task makes calls, a switch goes to the most urgent ready
\* task of that moment, a delay ends on its tick and on no other, and a task is
\* made ready by nothing but a call, a tick or its deadline; os_task_next, the
\* slots of os_tasks and the counters of ticks are its machinery.
Scheduler == INSTANCE PriorityScheduler WITH
    Max       <- OS_TASK_MAX,
    Clock     <- TICK_MOD,
    Naps      <- Delays,
    Wakeable  <- AlarmTask,
    Nobody    <- NULL,
    running   <- os_task_current,
    ready     <- os_ready_mask,
    due       <- [p \in os_delay_mask |-> wake[p]],
    now       <- os_tick_counter,
    alive     <- {p \in Priority : os_tasks[p] # NULL},
    late      <- unsched,
    switching <- pendsv

IsPriorityScheduler == Scheduler!SchedulerSpec

=============================================================================
