------------------------- MODULE BeeRTOS_boot_proofs -------------------------
(***************************************************************************)
(* Proofs about os_init, for every BEERTOS_PRIORITY_LIST(), and about the  *)
(* scheduler from reset on.                                                *)
(***************************************************************************)
EXTENDS BeeRTOS_boot, BeeRTOS_scheduler_proofs, SequenceTheorems

Entries == 1 .. Len(PriorityList)

(***************************************************************************)
(* Which entry is which priority.                                          *)
(***************************************************************************)
LEMMA ListFacts ==
    /\ Len(PriorityList) \in Nat
    /\ OS_TASK_MAX = Len(PriorityList) + 1
    /\ \A n \in Entries : PriorityOf(n) = OS_TASK_MAX - n
    /\ \A n \in Entries : PriorityOf(n) \in Priority \ {OS_TASK_IDLE}
BY ListAssumption, LenProperties
   DEF Entries, PriorityOf, Priority, OS_TASK_IDLE

LEMMA EntryOfPriority ==
    ASSUME NEW n \in Entries
    PROVE  /\ PriorityOf(n) \in MutexSlots <=> Entry(n).kind = "mutex"
           /\ PriorityOf(n) \in AutoStart <=> Autostarts(n)
<1>1. \A m \in Entries : PriorityOf(m) = PriorityOf(n) => m = n
  BY ListFacts DEF Entries
<1>2. /\ MutexSlots = {PriorityOf(m) : m \in {k \in Entries : Entry(k).kind = "mutex"}}
      /\ AutoStart = {PriorityOf(m) : m \in {k \in Entries : Autostarts(k)}}
  BY ListAssumption DEF Entries
<1> HIDE DEF Entries
<1>3. PriorityOf(n) \in MutexSlots <=> Entry(n).kind = "mutex"
  BY <1>1, <1>2
<1>4. PriorityOf(n) \in AutoStart <=> Autostarts(n)
  BY <1>1, <1>2
<1> QED BY <1>3, <1>4

-----------------------------------------------------------------------------
(***************************************************************************)
(* The invariant of os_init: at entry n of the first walk the table is     *)
(* filled down to the priority above the entry's, at entry n of the second *)
(* the ready mask is, and nothing else has changed since reset.            *)
(***************************************************************************)
CreatedFrom(k) ==
    /\ os_tasks = [p \in Priority |-> IF p >= k /\ p \notin MutexSlots THEN p ELSE NULL]
    /\ priority = [t \in Task |-> IF t >= k THEN t ELSE 0]

StartedFrom(k) ==
    /\ os_ready_mask = {p \in AutoStart : p >= k}
    /\ unsched = os_ready_mask

Quiet ==
    /\ os_task_current = NULL
    /\ os_task_next = NULL
    /\ os_delay_mask = {}
    /\ ticks = [t \in Task |-> 0]
    /\ os_tick_counter = 0
    /\ pendsv = FALSE
    /\ wake = [p \in Priority |-> 0]

Creating(n) ==
    /\ boot = <<"create", n>>
    /\ CreatedFrom(OS_TASK_MAX - n + 1)
    /\ StartedFrom(OS_TASK_MAX)

CreatingIdle ==
    /\ boot = <<"idle", 0>>
    /\ CreatedFrom(1)
    /\ StartedFrom(OS_TASK_MAX)

Starting(n) ==
    /\ boot = <<"start", n>>
    /\ CreatedFrom(0)
    /\ StartedFrom(OS_TASK_MAX - n + 1)

AllStarted ==
    /\ boot = <<"modules", 0>>
    /\ CreatedFrom(0)
    /\ StartedFrom(1)

Booting ==
    /\ Quiet
    /\ \/ \E n \in Entries : Creating(n)
       \/ CreatingIdle
       \/ \E n \in Entries : Starting(n)
       \/ AllStarted

LEMMA NotYetBooted == Booting => ~booted
BY DEF Booting, Creating, CreatingIdle, Starting, AllStarted, booted, Done

LEMMA NotYetBootedNext == Booting' => ~booted'
BY NotYetBooted, PTL

LEMMA BootingKept == Booting /\ UNCHANGED boot_vars => Booting'
BY DEF Booting, Creating, CreatingIdle, Starting, AllStarted, Quiet, CreatedFrom,
       StartedFrom, boot_vars, vars

LEMMA BootingInitially == BootInit => Booting
<1> SUFFICES ASSUME BootInit PROVE Booting
  OBVIOUS
<1>1. Quiet
  BY DEF BootInit, Quiet
<1>2. StartedFrom(OS_TASK_MAX)
  <2>1. \A p \in AutoStart : ~ (p >= OS_TASK_MAX)
    BY SlotsAssumption, TaskMaxAssumption DEF Task, Priority
  <2> QED BY <2>1 DEF BootInit, StartedFrom
<1>3. CreatedFrom(OS_TASK_MAX)
  BY ListFacts DEF BootInit, CreatedFrom, Task, Priority
<1>4. CASE Len(PriorityList) = 0
  <2>1. CreatingIdle
    BY <1>2, <1>3, <1>4, ListFacts DEF BootInit, After, CreatingIdle
  <2> QED BY <1>1, <2>1 DEF Booting
<1>5. CASE Len(PriorityList) # 0
  <2>1. Creating(1) /\ 1 \in Entries
    BY <1>2, <1>3, <1>5, ListFacts DEF BootInit, After, Creating, Entries
  <2> QED BY <1>1, <2>1 DEF Booting
<1> QED BY <1>4, <1>5

\* One priority further down the table.
LEMMA CreateTask ==
    ASSUME NEW k \in Task, CreatedFrom(k + 1), Quiet, os_task_create(k)
    PROVE  CreatedFrom(k)' /\ ticks' = [t \in Task |-> 0]
<1>1. Task \subseteq Int /\ k \in Priority /\ k \notin MutexSlots /\ Priority \subseteq Int
  BY ConstantFacts DEF Task
<1>2. \A p \in Priority : p >= k <=> p >= k + 1 \/ p = k
  BY <1>1
<1>3. os_tasks' = [p \in Priority |-> IF p >= k /\ p \notin MutexSlots THEN p ELSE NULL]
  BY <1>2, <1>1 DEF CreatedFrom, os_task_create
<1>4. priority' = [t \in Task |-> IF t >= k THEN t ELSE 0]
  BY <1>2, <1>1, ConstantFacts DEF CreatedFrom, os_task_create
<1>5. ticks' = [t \in Task |-> 0]
  BY <1>1 DEF Quiet, os_task_create
<1> QED BY <1>3, <1>4, <1>5 DEF CreatedFrom

LEMMA SkipMutex ==
    ASSUME NEW k \in MutexSlots, CreatedFrom(k + 1),
           os_tasks' = [os_tasks EXCEPT ![k] = NULL], UNCHANGED priority
    PROVE  CreatedFrom(k)'
<1>1. Task \subseteq Int /\ k \in Priority /\ k \notin Task /\ Priority \subseteq Int
  BY ConstantFacts, SlotsAssumption DEF Task
<1>2. os_tasks' = [p \in Priority |-> IF p >= k /\ p \notin MutexSlots THEN p ELSE NULL]
  BY <1>1 DEF CreatedFrom
<1>3. priority' = [t \in Task |-> IF t >= k THEN t ELSE 0]
  BY <1>1 DEF CreatedFrom
<1> QED BY <1>2, <1>3 DEF CreatedFrom

LEMMA CreateStep ==
    ASSUME NEW n \in Entries, Quiet, Creating(n), os_tasks_init(n)
    PROVE  Booting'
<1> DEFINE k == OS_TASK_MAX - n
<1>1. k = PriorityOf(n) /\ k \in Priority \ {OS_TASK_IDLE} /\ k + 1 = OS_TASK_MAX - n + 1
  BY ListFacts
<1>2. CreatedFrom(k)' /\ ticks' = [t \in Task |-> 0]
  <2>1. CASE Entry(n).kind # "mutex"
    <3>1. k \in Task
      BY <1>1, <2>1, EntryOfPriority DEF Task
    <3> QED BY <1>1, <2>1, <3>1, CreateTask DEF Creating, os_tasks_init
  <2>2. CASE Entry(n).kind = "mutex"
    <3>1. k \in MutexSlots
      BY <1>1, <2>2, EntryOfPriority
    <3> QED BY <1>1, <2>2, <3>1, SkipMutex DEF Creating, os_tasks_init, Quiet
  <2> QED BY <2>1, <2>2
<1>3. Quiet'
  BY <1>2 DEF Quiet, os_tasks_init, masks
<1>4. StartedFrom(OS_TASK_MAX)'
  BY DEF Creating, StartedFrom, os_tasks_init, masks
<1>5. CASE n = Len(PriorityList)
  <2>1. k = 1
    BY <1>5, ListFacts
  <2>2. boot' = <<"idle", 0>>
    BY <1>5 DEF os_tasks_init, After
  <2> HIDE DEF k
  <2>3. CreatingIdle'
    BY <1>2, <1>4, <2>1, <2>2 DEF CreatingIdle
  <2> QED BY <1>3, <2>3 DEF Booting
<1>6. CASE n # Len(PriorityList)
  <2>1. n + 1 \in Entries /\ OS_TASK_MAX - (n + 1) + 1 = k
    BY <1>6, ListFacts DEF Entries
  <2>2. boot' = <<"create", n + 1>>
    BY <1>6 DEF os_tasks_init, After
  <2>3. Creating(n + 1)'
    BY <1>2, <1>4, <2>1, <2>2 DEF Creating
  <2> QED BY <1>3, <2>1, <2>3 DEF Booting
<1> QED BY <1>5, <1>6

LEMMA IdleStep ==
    ASSUME Quiet, CreatingIdle, create_idle_task
    PROVE  Booting'
<1>1. 0 \in Task /\ OS_TASK_IDLE = 0
  BY ConstantFacts DEF OS_TASK_IDLE
<1>2. CreatedFrom(0)' /\ ticks' = [t \in Task |-> 0]
  BY <1>1, CreateTask DEF CreatingIdle, create_idle_task
<1>3. Quiet'
  BY <1>2 DEF Quiet, create_idle_task, masks
<1>4. StartedFrom(OS_TASK_MAX)'
  BY DEF CreatingIdle, StartedFrom, create_idle_task, masks
<1>5. CASE Len(PriorityList) = 0
  <2>1. AllStarted'
    BY <1>2, <1>4, <1>5, ListFacts DEF AllStarted, create_idle_task, After
  <2> QED BY <1>3, <2>1 DEF Booting
<1>6. CASE Len(PriorityList) # 0
  <2>1. 1 \in Entries /\ OS_TASK_MAX - 1 + 1 = OS_TASK_MAX
    BY <1>6, ListFacts DEF Entries
  <2>2. boot' = <<"start", 1>>
    BY <1>6 DEF create_idle_task, After
  <2>3. Starting(1)'
    BY <1>2, <1>4, <2>1, <2>2 DEF Starting
  <2> QED BY <1>3, <2>1, <2>3 DEF Booting
<1> QED BY <1>5, <1>6

\* One id further up: the bit it sets is the one below those that are set.
LEMMA StartStep ==
    ASSUME NEW n \in Entries, Quiet, Starting(n), os_tasks_start(n)
    PROVE  Booting'
<1> DEFINE k == OS_TASK_MAX - n
<1>1. k = PriorityOf(n) /\ k \in Priority \ {OS_TASK_IDLE} /\ OS_TASK_MAX - n + 1 = k + 1
  BY ListFacts
<1>2. AutoStart \subseteq Priority /\ Priority \subseteq Int
  BY SlotsAssumption, ConstantFacts DEF Task
<1>3. \A p \in AutoStart : p >= k <=> p >= k + 1 \/ p = k
  <2> HIDE DEF k
  <2> QED BY <1>1, <1>2
<1>4. StartedFrom(k)' /\ os_delay_mask' = {} /\ wake' = [p \in Priority |-> 0]
  <2>1. CASE Autostarts(n)
    <3>1. k \in AutoStart
      BY <1>1, <2>1, EntryOfPriority
    <3>2. MakeReady({k}) /\ unsched' = unsched \cup {k}
      BY <1>1, <2>1 DEF os_tasks_start
    <3>3. {p \in AutoStart : p >= k + 1} \cup {k} = {p \in AutoStart : p >= k}
      BY <1>3, <3>1
    <3>4. os_ready_mask' = {p \in AutoStart : p >= k} /\ unsched' = {p \in AutoStart : p >= k}
      BY <1>1, <3>2, <3>3 DEF MakeReady, Starting, StartedFrom
    <3> QED BY <3>2, <3>4 DEF MakeReady, StartedFrom, Quiet
  <2>2. CASE ~Autostarts(n)
    <3>1. k \notin AutoStart
      BY <1>1, <2>2, EntryOfPriority
    <3>2. {p \in AutoStart : p >= k + 1} = {p \in AutoStart : p >= k}
      BY <1>3, <3>1
    <3>3. UNCHANGED <<masks, unsched>>
      BY <2>2 DEF os_tasks_start
    <3> QED BY <1>1, <3>2, <3>3 DEF masks, Starting, StartedFrom, Quiet
  <2> QED BY <2>1, <2>2
<1>5. Quiet'
  BY <1>4 DEF Quiet, os_tasks_start
<1>6. CreatedFrom(0)'
  BY DEF Starting, CreatedFrom, os_tasks_start
<1>7. CASE n = Len(PriorityList)
  <2>1. k = 1
    BY <1>7, ListFacts
  <2>2. boot' = <<"modules", 0>>
    BY <1>7 DEF os_tasks_start, After
  <2> HIDE DEF k
  <2>3. AllStarted'
    BY <1>4, <1>6, <2>1, <2>2 DEF AllStarted
  <2> QED BY <1>5, <2>3 DEF Booting
<1>8. CASE n # Len(PriorityList)
  <2>1. n + 1 \in Entries /\ OS_TASK_MAX - (n + 1) + 1 = k
    BY <1>8, ListFacts DEF Entries
  <2>2. boot' = <<"start", n + 1>>
    BY <1>8 DEF os_tasks_start, After
  <2>3. Starting(n + 1)'
    BY <1>4, <1>6, <2>1, <2>2 DEF Starting
  <2> QED BY <1>5, <2>1, <2>3 DEF Booting
<1> QED BY <1>7, <1>8

\* What the two walks leave is the state the scheduler starts from.
LEMMA StartedIsInit ==
    ASSUME Quiet, AllStarted
    PROVE  Init
<1>1. \A p \in Priority : p >= 0
  BY DEF Priority
<1>2. Task \subseteq Priority /\ AutoStart \subseteq Priority \ {0}
  BY ConstantFacts, SlotsAssumption DEF OS_TASK_IDLE
<1>3. \A p \in AutoStart : p >= 1
  BY <1>2 DEF Priority
<1>4. os_ready_mask = AutoStart /\ unsched = AutoStart
  BY <1>3 DEF AllStarted, StartedFrom
<1>5. os_tasks = [p \in Priority |-> IF p \in MutexSlots THEN NULL ELSE p]
  BY <1>1 DEF AllStarted, CreatedFrom
<1>6. priority = [t \in Task |-> t]
  BY <1>1, <1>2 DEF AllStarted, CreatedFrom
<1> QED BY <1>4, <1>5, <1>6 DEF Init, Quiet

LEMMA BootStep ==
    ASSUME Booting, os_init
    PROVE  \/ ~booted' /\ Booting'
           \/ booted' /\ Init'
<1>1. CASE \E n \in Entries : os_tasks_init(n)
  <2>1. PICK n \in Entries : os_tasks_init(n)
    BY <1>1
  <2>2. Creating(n)
    BY <2>1 DEF Booting, os_tasks_init, Creating, CreatingIdle, Starting, AllStarted
  <2>3. Booting'
    BY <2>1, <2>2, CreateStep DEF Booting
  <2> QED BY <2>3, NotYetBootedNext
<1>2. CASE create_idle_task
  <2>1. CreatingIdle
    BY <1>2 DEF Booting, create_idle_task, Creating, Starting, AllStarted
  <2>2. Booting'
    BY <1>2, <2>1, IdleStep DEF Booting
  <2> QED BY <2>2, NotYetBootedNext
<1>3. CASE \E n \in Entries : os_tasks_start(n)
  <2>1. PICK n \in Entries : os_tasks_start(n)
    BY <1>3
  <2>2. Starting(n)
    BY <2>1 DEF Booting, os_tasks_start, Creating, CreatingIdle, Starting, AllStarted
  <2>3. Booting'
    BY <2>1, <2>2, StartStep DEF Booting
  <2> QED BY <2>3, NotYetBootedNext
<1>4. CASE init_modules
  <2>1. AllStarted
    BY <1>4 DEF Booting, init_modules, Creating, CreatingIdle, Starting
  <2>2. Init
    BY <2>1, StartedIsInit DEF Booting
  <2>3. booted' /\ Init'
    BY <1>4, <2>2 DEF init_modules, booted, Init, vars
  <2> QED BY <2>3
<1> QED BY <1>1, <1>2, <1>3, <1>4 DEF os_init, Entries

-----------------------------------------------------------------------------
(***************************************************************************)
(* From reset on: os_init is under way, or the kernel is up and its        *)
(* invariants hold.                                                        *)
(***************************************************************************)
Running == KernelInv /\ DelayCounts /\ PendedIsDecided

BootInv == (booted => Running) /\ (~booted => Booting)

LEMMA RunningInitially == Init => Running
BY TypeInit, SchedInit DEF Init, Running, KernelInv, DelayCounts, PendedIsDecided

LEMMA RunningStep ==
    RestartDeleted = FALSE => (Running /\ [Next]_vars => Running')
BY TypeStep, SchedStep, DelayStep, PendedStep DEF Running, KernelInv

\* (in its own lemma, without hypotheses about a state, so that it holds of the
\* next state too)
LEMMA RunningInitiallyNext == Init' => Running'
BY RunningInitially, PTL

\* os_init has nothing left to do once it is done.
LEMMA InitWhileBooting ==
    ASSUME os_init
    PROVE  ~booted
<1>1. ASSUME NEW n, os_tasks_init(n) PROVE ~booted
  BY <1>1 DEF os_tasks_init, booted, Done
<1>2. CASE create_idle_task
  BY <1>2 DEF create_idle_task, booted, Done
<1>3. ASSUME NEW n, os_tasks_start(n) PROVE ~booted
  BY <1>3 DEF os_tasks_start, booted, Done
<1>4. CASE init_modules
  BY <1>4 DEF init_modules, booted, Done
<1> QED BY <1>1, <1>2, <1>3, <1>4 DEF os_init

LEMMA BootInvStep ==
    RestartDeleted = FALSE => (BootInv /\ [BootNext]_boot_vars => BootInv')
<1> SUFFICES ASSUME RestartDeleted = FALSE, BootInv, [BootNext]_boot_vars PROVE BootInv'
  OBVIOUS
<1>1. CASE os_init
  <2> QED BY <1>1, InitWhileBooting, BootStep, RunningInitiallyNext DEF BootInv
<1>2. CASE Run
  BY <1>2, RunningStep DEF Run, BootInv, booted
<1>3. CASE UNCHANGED boot_vars
  BY <1>3, BootingKept, RunningStep DEF BootInv, boot_vars, booted
<1> QED BY <1>1, <1>2, <1>3 DEF BootNext

LEMMA BootInvariant ==
    ASSUME RestartDeleted = FALSE
    PROVE  BootSpec => []BootInv
<1>1. BootInit => BootInv
  BY BootingInitially, NotYetBooted DEF BootInv
<1> QED BY <1>1, BootInvStep, PTL DEF BootSpec

\* What holds of the kernel holds from reset on: while os_init is under way
\* there is no task to violate it.
LEMMA BootInvImplies ==
    ASSUME BootInv
    PROVE  TypeOK /\ RightTaskRuns /\ HandlersSafe /\ DelayCounts
<1>1. CASE booted
  BY <1>1, KernelImplies
     DEF BootInv, Running, KernelInv, TypeInv, RightTaskRuns
<1>2. CASE ~booted
  <2>1. Booting
    BY <1>2 DEF BootInv
  <2>2. Quiet
    BY <2>1 DEF Booting
  <2>3. ~Executing /\ os_delay_mask = {} /\ os_task_current = NULL /\ pendsv = FALSE
    BY <2>2 DEF Quiet, Executing
  <2>4. /\ os_ready_mask \subseteq AutoStart
        /\ unsched = os_ready_mask
        /\ os_tasks \in [Priority -> Task \cup {NULL}]
        /\ priority \in [Task -> Priority]
    BY <2>1, ConstantFacts DEF Booting, Creating, CreatingIdle, Starting, AllStarted,
       StartedFrom, CreatedFrom, Task, OS_TASK_IDLE
  <2>5. AutoStart \subseteq Priority \ {OS_TASK_IDLE}
    BY SlotsAssumption, ConstantFacts
  <2>6. TypeOK
    <3>1. 0 \in 0 .. TICK_MOD - 1
      BY TickAssumption
    <3>2. /\ ticks \in [Task -> 0 .. TICK_MOD - 1]
          /\ wake \in [Priority -> 0 .. TICK_MOD - 1]
          /\ os_tick_counter \in 0 .. TICK_MOD - 1
      BY <2>2, <3>1 DEF Quiet
    <3> QED BY <2>2, <2>4, <2>5, <3>2 DEF Quiet, TypeOK
  <2> QED BY <2>3, <2>6 DEF RightTaskRuns, RunningIsReady, NoPriorityInversion,
             HandlersSafe, TickLoopEnds, DelayCounts
<1> QED BY <1>1, <1>2

\* os_init ends in the state the scheduler's specification starts from, for
\* every BEERTOS_PRIORITY_LIST(): the walk that counts priorities down and the
\* one that counts ids up agree on every entry (task.c:190-256).
THEOREM BootReachesInitAlways ==
    ASSUME RestartDeleted = FALSE
    PROVE  BootSpec => BootReachesInit
<1>1. BootInv /\ [BootNext]_boot_vars => [booted' /\ ~booted => Init']_boot_vars
  BY BootStep DEF BootInv, BootNext, Run, booted
<1> QED BY <1>1, BootInvariant, PTL DEF BootSpec, BootReachesInit

\* The state is well typed from reset on, half-filled table included.
THEOREM BootTypeCorrect ==
    ASSUME RestartDeleted = FALSE
    PROVE  BootSpec => []TypeOK
<1>1. BootInv => TypeOK
  BY BootInvImplies
<1> QED BY <1>1, BootInvariant, PTL

\* The right task runs, the handlers are safe and the delays count, from reset
\* on and for every BEERTOS_PRIORITY_LIST() (BeeRTOS_task.c, port_CM4.c).
THEOREM BootKernelSafe ==
    ASSUME RestartDeleted = FALSE
    PROVE  BootSpec => [](RightTaskRuns /\ HandlersSafe /\ DelayCounts)
<1>1. BootInv => RightTaskRuns /\ HandlersSafe /\ DelayCounts
  BY BootInvImplies
<1> QED BY <1>1, BootInvariant, PTL

\* Each tick ends exactly the delays that are due at it, from reset on: os_init
\* itself moves no clock.
THEOREM BootDelayEndsOnTime ==
    ASSUME RestartDeleted = FALSE
    PROVE  BootSpec => DelayEndsOnTime
<1>1. BootInv /\ [BootNext]_boot_vars => [DelaysEndOnTime]_vars
  <2> SUFFICES ASSUME BootInv, [BootNext]_boot_vars PROVE DelaysEndOnTime
    OBVIOUS
  <2>1. CASE os_init
    <3>1. UNCHANGED os_tick_counter
      BY <2>1 DEF os_init, os_tasks_init, create_idle_task, os_tasks_start, init_modules, vars
    <3> QED BY <3>1 DEF DelaysEndOnTime
  <2>2. CASE Run
    BY <2>2, OnTimeStep, KernelSleepers DEF BootInv, Run, Running, KernelInv
  <2>3. CASE UNCHANGED boot_vars
    BY <2>3 DEF boot_vars, vars, DelaysEndOnTime
  <2> QED BY <2>1, <2>2, <2>3 DEF BootNext
<1> QED BY <1>1, BootInvariant, PTL DEF BootSpec, DelayEndsOnTime, DelaysEndOnTime

-----------------------------------------------------------------------------
(***************************************************************************)
(* From reset on the kernel is a PriorityScheduler: the two walks of the   *)
(* list are its Create and Admit.                                          *)
(***************************************************************************)
LEMMA ResetIsSchedulerInit == BootInit => Scheduler!SchedulerInit
BY DEF BootInit, Scheduler!SchedulerInit

LEMMA CreateIsCreate ==
    ASSUME NEW p \in Priority, os_task_current = NULL, os_tasks[p] = NULL,
           os_tasks \in [Priority -> Task \cup {NULL}],
           \/ os_tasks' = [os_tasks EXCEPT ![p] = p]
           \/ os_tasks' = [os_tasks EXCEPT ![p] = NULL],
           UNCHANGED <<os_task_current, masks, os_tick_counter, pendsv, unsched>>
    PROVE  [Scheduler!SchedulerNext]_(Scheduler!sched_vars)
<1> DEFINE alive == {q \in Priority : os_tasks[q] # NULL}
<1>1. CASE os_tasks' = [os_tasks EXCEPT ![p] = p]
  <2>1. alive' = alive \cup {p}
    BY <1>1, NullAssumption
  <2>2. Scheduler!Create(p)
    BY <2>1 DEF Scheduler!Create, masks
  <2>3. p \in 0 .. OS_TASK_MAX - 1
    BY DEF Priority
  <2> QED BY <2>2, <2>3 DEF Scheduler!SchedulerNext
<1>2. CASE os_tasks' = [os_tasks EXCEPT ![p] = NULL]
  <2>1. alive' = alive
    BY <1>2
  <2> QED BY <2>1 DEF Scheduler!sched_vars, masks
<1> QED BY <1>1, <1>2

LEMMA BootSchedulerStep ==
    ASSUME RestartDeleted = FALSE, BootInv, BootInv', [BootNext]_boot_vars
    PROVE  [Scheduler!SchedulerNext]_(Scheduler!sched_vars)
<1>1. ASSUME NEW n \in Entries, os_tasks_init(n)
      PROVE  [Scheduler!SchedulerNext]_(Scheduler!sched_vars)
  <2>1. ~booted /\ Creating(n)
    BY <1>1 DEF os_tasks_init, booted, Done, BootInv, Booting, Creating, CreatingIdle,
                Starting, AllStarted
  <2>2. OS_TASK_MAX - n \in Priority /\ ~ (OS_TASK_MAX - n >= OS_TASK_MAX - n + 1)
    BY ListFacts DEF Entries
  <2>3. os_tasks[OS_TASK_MAX - n] = NULL
    BY <2>1, <2>2 DEF Creating, CreatedFrom
  <2>4. os_tasks \in [Priority -> Task \cup {NULL}]
    BY BootInvImplies DEF TypeOK
  <2> QED BY <1>1, <2>2, <2>3, <2>4, CreateIsCreate DEF os_tasks_init, InMain, os_task_create
<1>2. CASE create_idle_task
  <2>1. OS_TASK_IDLE \in Priority
    BY ConstantFacts
  <2>2. os_tasks \in [Priority -> Task \cup {NULL}]
    BY BootInvImplies DEF TypeOK
  <2> QED BY <1>2, <2>1, <2>2, CreateIsCreate DEF create_idle_task, InMain, os_task_create
<1>3. ASSUME NEW n \in Entries, os_tasks_start(n)
      PROVE  [Scheduler!SchedulerNext]_(Scheduler!sched_vars)
  <2>1. CASE Autostarts(n)
    <3> DEFINE p == PriorityOf(n)
    <3>1. p \in AutoStart /\ p \in Priority
      BY <2>1, EntryOfPriority, ListFacts
    <3>2. Starting(n) /\ Quiet
      BY <1>3 DEF os_tasks_start, booted, Done, BootInv, Booting, Creating, CreatingIdle,
                  Starting, AllStarted
    <3>3. os_tasks[p] # NULL
      BY <3>1, <3>2, SlotsAssumption, NullAssumption
         DEF Starting, CreatedFrom, Task, Priority
    <3>4. MakeReady({p}) /\ unsched' = unsched \cup {p}
      BY <1>3, <2>1 DEF os_tasks_start
    <3>5. Scheduler!Wakes({p})
      BY <3>1, <3>2, <3>4 DEF Quiet, MakeReady, Scheduler!Wakes, Scheduler!Asleep
    <3>6. Scheduler!Admit(p)
      BY <1>3, <3>1, <3>3, <3>4, <3>5 DEF os_tasks_start, InMain, Scheduler!Admit
    <3>7. p \in 1 .. OS_TASK_MAX
      BY ListFacts DEF Entries
    <3> QED BY <3>6, <3>7 DEF Scheduler!SchedulerNext
  <2>2. CASE ~Autostarts(n)
    BY <1>3, <2>2 DEF os_tasks_start, masks, Scheduler!sched_vars
  <2> QED BY <2>1, <2>2
<1>4. CASE init_modules
  BY <1>4 DEF init_modules, vars, Scheduler!sched_vars
<1>5. CASE Run
  <2>1. Running /\ Running' /\ Next
    BY <1>5 DEF Run, booted, BootInv
  <2> QED BY <2>1, SchedulerStep DEF Running, KernelInv
<1>6. CASE UNCHANGED boot_vars
  BY <1>6 DEF boot_vars, vars, Scheduler!sched_vars
<1> QED BY <1>1, <1>2, <1>3, <1>4, <1>5, <1>6 DEF BootNext, os_init, Entries

\* From reset on the kernel schedules as PriorityScheduler says: tasks are
\* created, then admitted, each at most as its entry of the list says, and
\* nothing runs until a tick after os_init (BeeRTOS.c:78-94, BeeRTOS_task.c).
THEOREM BootImplementsPriorityScheduler ==
    ASSUME RestartDeleted = FALSE
    PROVE  BootSpec => IsPriorityScheduler
<1>1. BootInv /\ BootInv' /\ [BootNext]_boot_vars
        => [Scheduler!SchedulerNext]_(Scheduler!sched_vars)
  BY BootSchedulerStep
<1> QED BY <1>1, BootInvariant, ResetIsSchedulerInit, PTL
        DEF BootSpec, IsPriorityScheduler, Scheduler!SchedulerSpec
=============================================================================
