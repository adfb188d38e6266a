---------------------------- MODULE BeeRTOS_boot ----------------------------
(***************************************************************************)
(* os_init (BeeRTOS.c), step by step, and the system it starts.  It walks  *)
(* BEERTOS_PRIORITY_LIST() twice: os_tasks_init down the priorities, then  *)
(* os_tasks_start up the task ids.  The main program runs it, on no task's *)
(* stack, with interrupts on between its critical sections.                *)
(***************************************************************************)
EXTENDS BeeRTOS_task, Sequences

CONSTANT PriorityList   \* the entries, the most urgent first

Kind == {"task", "alarm_task", "mutex"}

Entry(n) == PriorityList[n]
Autostarts(n) == Entry(n).kind = "task" /\ Entry(n).autostart

\* OS_TASK_MAX and the constants of the scheduler are read off the list: the
\* enum of task.h:60-66 numbers the entries from 1.
ASSUME ListAssumption ==
    LET entries == 1 .. Len(PriorityList) IN
    /\ PriorityList \in Seq([kind : Kind, autostart : BOOLEAN])
    /\ OS_TASK_MAX = Len(PriorityList) + 1
    /\ MutexSlots = {PriorityOf(n) : n \in {m \in entries : Entry(m).kind = "mutex"}}
    /\ AlarmTask = {PriorityOf(n) : n \in {m \in entries : Entry(m).kind = "alarm_task"}}
    /\ AutoStart = {PriorityOf(n) : n \in {m \in entries : Autostarts(m)}}

VARIABLE boot   \* the stage os_init is in, and the entry it works on

boot_vars == <<vars, boot>>

Done    == <<"done", 0>>
booted  == boot = Done
InMain  == os_task_current = NULL /\ ~pendsv

\* After entry n of a walk: the next entry, or the next stage.
After(stage, n, next) == IF n = Len(PriorityList) THEN next ELSE <<stage, n + 1>>

-----------------------------------------------------------------------------
\* os_task_create, with the assertions it makes.
os_task_create(p) ==
    /\ os_tasks[p] = NULL
    /\ p < OS_TASK_MAX
    /\ os_tasks' = [os_tasks EXCEPT ![p] = p]
    /\ priority' = [priority EXCEPT ![p] = p]
    /\ ticks' = [ticks EXCEPT ![p] = 0]

\* One entry of the list in os_tasks_init; priority is OS_TASK_MAX - 1 less the
\* entries before.
os_tasks_init(n) ==
    /\ InMain
    /\ boot = <<"create", n>>
    /\ LET p == OS_TASK_MAX - n IN
       \/ /\ Entry(n).kind # "mutex"
          /\ os_task_create(p)
       \/ /\ Entry(n).kind = "mutex"
          /\ os_tasks' = [os_tasks EXCEPT ![p] = NULL]
          /\ UNCHANGED <<priority, ticks>>
    /\ boot' = After("create", n, <<"idle", 0>>)
    /\ UNCHANGED <<os_task_current, os_task_next, masks, os_tick_counter, pendsv, unsched>>

create_idle_task ==
    /\ InMain
    /\ boot = <<"idle", 0>>
    /\ os_task_create(OS_TASK_IDLE)
    /\ boot' = After("start", 0, <<"modules", 0>>)
    /\ UNCHANGED <<os_task_current, os_task_next, masks, os_tick_counter, pendsv, unsched>>

Mut_os_tasks_start_FromIdle(n) ==
    /\ InMain
    /\ boot = <<"start", n>>
    /\ \/ /\ Autostarts(n)
          /\ MakeReady({PriorityOf(n - 1)})
          /\ unsched' = unsched \cup {PriorityOf(n - 1)}
       \/ /\ ~Autostarts(n)
          /\ UNCHANGED <<masks, unsched>>
    /\ boot' = After("start", n, <<"modules", 0>>)
    /\ UNCHANGED <<os_task_current, os_task_next, os_tasks, priority, ticks,
                   os_tick_counter, pendsv>>

\* One entry of the list in os_tasks_start, task_id = n: its os_task_start is a
\* critical section and ends with interrupts on.
os_tasks_start(n) ==
    /\ InMain
    /\ boot = <<"start", n>>
    /\ \/ /\ Autostarts(n)
          /\ MakeReady({PriorityOf(n)})
          /\ unsched' = unsched \cup {PriorityOf(n)}
       \/ /\ ~Autostarts(n)
          /\ UNCHANGED <<masks, unsched>>
    /\ boot' = After("start", n, <<"modules", 0>>)
    /\ UNCHANGED <<os_task_current, os_task_next, os_tasks, priority, ticks,
                   os_tick_counter, pendsv>>

\* The alarms, semaphores, mutexes, queues and messages get the initial states
\* of their own modules; os_cpu_init sets the priorities of the exceptions.
init_modules ==
    /\ InMain
    /\ boot = <<"modules", 0>>
    /\ boot' = Done
    /\ UNCHANGED vars

\* The state of the static variables, and os_init up to its first loop.
BootInit ==
    /\ os_task_current = NULL
    /\ os_task_next = NULL
    /\ os_tasks = [p \in Priority |-> NULL]
    /\ os_ready_mask = {}
    /\ os_delay_mask = {}
    /\ priority = [t \in Task |-> 0]
    /\ ticks = [t \in Task |-> 0]
    /\ os_tick_counter = 0
    /\ pendsv = FALSE
    /\ wake = [p \in Priority |-> 0]
    /\ unsched = {}
    /\ boot = After("create", 0, <<"idle", 0>>)

os_init ==
    \/ \E n \in 1 .. Len(PriorityList) : os_tasks_init(n)
    \/ create_idle_task
    \/ \E n \in 1 .. Len(PriorityList) : os_tasks_start(n)
    \/ init_modules

\* The application starts the timer after os_init.
Run == booted /\ Next /\ UNCHANGED boot

BootNext == os_init \/ Run
BootSpec == BootInit /\ [][BootNext]_boot_vars

BootFairSpec ==
    /\ BootSpec
    /\ WF_boot_vars(os_init)
    /\ WF_boot_vars(booted /\ SysTick /\ UNCHANGED boot)
    /\ WF_boot_vars(booted /\ PendSV_Handler /\ UNCHANGED boot)

\* The application started the timer before: no alarm can be active yet, so no
\* tick wakes the alarm task.  A task that gets the processor never gives it
\* back to the main program, whose context is not saved (port_CM4.c:62-68).
EarlyInterrupt ==
    /\ ~booted
    /\ SysTick_Handler({}) \/ PendSV_Handler
    /\ UNCHANGED boot

EarlyTimerSpec == BootInit /\ [][BootNext \/ EarlyInterrupt]_boot_vars

-----------------------------------------------------------------------------
(***************************************************************************)
(* Properties.                                                             *)
(***************************************************************************)

\* os_init ends in the state the scheduler's specification starts from: the two
\* walks of the list, one counting priorities down and one counting ids up,
\* agree on which task is which, and no mutex slot holds or starts a task
\* (task.c:190-256).
BootReachesInit == [][booted' /\ ~booted => Init']_boot_vars

\* BeeRTOS.c:73: os_init "should be called once by the application, before any
\* other OS function".  No task whose code calls the OS, which the idle task's
\* does not, gets the processor before os_init is through with the modules.
TasksRunAfterInit == os_task_current \in Task \ {OS_TASK_IDLE} => booted

=============================================================================
