----------------------- MODULE BeeRTOS_scheduler_proofs -----------------------
(***************************************************************************)
(* BeeRTOS_task implements PriorityScheduler: every step of the masks, the *)
(* table and the counters is a step of the abstract scheduler, or leaves   *)
(* what that scheduler is about as it was.                                 *)
(***************************************************************************)
EXTENDS BeeRTOS_task_proofs

\* A switch is only pending with every ready task decided on: os_sched, which
\* alone pends one, is the last thing the masks see until PendSV.
PendedIsDecided == pendsv => unsched = {}

LEMMA PendedStep ==
    ASSUME PendedIsDecided, [Next]_vars
    PROVE  PendedIsDecided'
BY DEF PendedIsDecided, Next, vars, SysTick, SysTick_Handler, PendSV_Handler, os_sched,
       os_task_start, os_task_stop, os_task_release, os_task_delete, os_delay, Executing

\* The highest element is the only one: what Best chooses.
LEMMA BestIsHighest ==
    ASSUME NEW mask, mask \subseteq Priority, NEW p \in mask, \A q \in mask : q <= p
    PROVE  Scheduler!Best(mask) = p
<1>1. \A q \in mask : q \in Int
  BY ConstantFacts
<1>2. Scheduler!Best(mask) = OS_GET_HIGHEST_PRIO_TASK_FROM_MASK(mask)
  BY DEF Scheduler!Best, OS_GET_HIGHEST_PRIO_TASK_FROM_MASK
<1>3. /\ OS_GET_HIGHEST_PRIO_TASK_FROM_MASK(mask) \in mask
      /\ \A q \in mask : q <= OS_GET_HIGHEST_PRIO_TASK_FROM_MASK(mask)
  BY HighestBit
<1>4. /\ p <= OS_GET_HIGHEST_PRIO_TASK_FROM_MASK(mask)
      /\ OS_GET_HIGHEST_PRIO_TASK_FROM_MASK(mask) <= p
  BY <1>3
<1> HIDE DEF OS_GET_HIGHEST_PRIO_TASK_FROM_MASK
<1> QED BY <1>1, <1>2, <1>3, <1>4

\* os_sched decides as the abstract scheduler does.
LEMMA SchedDecides ==
    ASSUME TypeInv', OwnSlots', LiveBits', os_sched, UNCHANGED os_task_current
    PROVE  Scheduler!Decide
<1>1. os_ready_mask' \subseteq Priority
  BY DEF TypeInv, TypeOK
<1>2. os_task_next' = Scheduler!Best(os_ready_mask')
  <2>1. CASE os_ready_mask' = {}
    BY <2>1 DEF os_sched, OwnSlots, OS_TASK_IDLE, Scheduler!Best
  <2>2. CASE os_ready_mask' # {}
    <3> DEFINE h == OS_GET_HIGHEST_PRIO_TASK_FROM_MASK(os_ready_mask')
    <3>1. h \in os_ready_mask' /\ \A q \in os_ready_mask' : q <= h
      BY <1>1, <2>2, HighestBit
    <3>2. os_task_next' = os_tasks'[h]
      BY <2>2 DEF os_sched
    <3> HIDE DEF h
    <3>3. os_tasks'[h] = h
      BY <1>1, <3>1 DEF OwnSlots, LiveBits
    <3> QED BY <1>1, <3>1, <3>2, <3>3, BestIsHighest
  <2> QED BY <2>1, <2>2
<1> QED BY <1>2 DEF os_sched, Scheduler!Decide

\* What the mask operations do to the sleepers.
LEMMA MakeReadyWakes ==
    ASSUME TypeInv, NEW ps, ps \subseteq Priority, MakeReady(ps)
    PROVE  Scheduler!Wakes(ps)
<1>1. os_delay_mask \subseteq Priority
  BY DEF TypeInv, TypeOK
<1> QED BY <1>1 DEF MakeReady, Scheduler!Wakes, Scheduler!Asleep

LEMMA SuspendLeaves ==
    ASSUME TypeInv, NEW p, Suspend(p)
    PROVE  Scheduler!Leaves(p)
<1>1. os_delay_mask \subseteq Priority
  BY DEF TypeInv, TypeOK
<1> QED BY <1>1 DEF Suspend, Scheduler!Leaves, Scheduler!Asleep

\* A task that makes a call is entitled to.
LEMMA CallerActs ==
    ASSUME TypeInv, SchedInv, Executing
    PROVE  /\ Scheduler!Acts
           /\ os_task_current \in Task \ {OS_TASK_IDLE}
           /\ priority[os_task_current] = os_task_current
<1>1. os_task_current \in Task \ {OS_TASK_IDLE} /\ priority[os_task_current] = os_task_current
  BY DEF Executing, TypeInv, TypeOK
<1>2. /\ os_task_current \in os_ready_mask
      /\ \A p \in os_ready_mask \ unsched : p <= os_task_current
  BY <1>1, ConstantFacts DEF Executing, SchedInv, Selected
<1> QED BY <1>1, <1>2 DEF Executing, Scheduler!Acts

LEMMA PriorityOfRange ==
    \A id \in TaskId : PriorityOf(id) \in 1 .. OS_TASK_MAX
BY TaskMaxAssumption DEF TaskId, PriorityOf

-----------------------------------------------------------------------------
LEMMA SchedulerInitial == Init => Scheduler!SchedulerInit
<1> SUFFICES ASSUME Init PROVE Scheduler!SchedulerInit
  OBVIOUS
<1> DEFINE alive == {p \in Priority : os_tasks[p] # NULL}
<1>1. alive \subseteq 0 .. OS_TASK_MAX - 1
  BY DEF Priority
<1>2. os_ready_mask \subseteq alive
  BY SlotsAssumption, NullAssumption, ConstantFacts DEF Init, Task
<1> QED BY <1>1, <1>2 DEF Init, Scheduler!SchedulerInit

LEMMA TickIsTick ==
    ASSUME RestartDeleted = FALSE, TypeInv, TypeInv', SchedInv, SchedInv', DelayCounts,
           NEW woken \in SUBSET AlarmTask, SysTick_Handler(woken)
    PROVE  Scheduler!Tick
<1> DEFINE expired == {p \in os_delay_mask : ticks[os_tasks[p]] = 1}
           due     == {p \in os_delay_mask : wake[p] = os_tick_counter'}
           alive   == {p \in Priority : os_tasks[p] # NULL}
<1>1. /\ MakeReady(expired \cup woken) /\ os_sched
      /\ os_tick_counter' = (os_tick_counter + 1) % TICK_MOD
      /\ UNCHANGED <<os_tasks, os_task_current>>
  BY DEF SysTick_Handler, os_tick, os_task_tick
<1>2. expired = due
  BY ExpiredAreDue, KernelSleepers
<1>3. woken \in SUBSET (AlarmTask \cap alive)
  BY SlotsAssumption, ConstantFacts DEF SysTick_Handler, StartTarget
<1>4. expired \cup woken \subseteq Priority
  BY SlotsAssumption, ConstantFacts DEF TypeInv, TypeOK
<1>5. Scheduler!Decide
  BY <1>1, SchedDecides DEF SchedInv
<1>6. due = {p \in Scheduler!Asleep :
               [q \in os_delay_mask |-> wake[q]][p] = os_tick_counter'}
  BY DEF Scheduler!Asleep
<1>7. UNCHANGED <<os_task_current, alive>>
  BY <1>1
<1> HIDE DEF expired, due
<1>8. PICK ps \in SUBSET Priority : ps = due \cup woken
  BY <1>2, <1>4
<1>9. Scheduler!Wakes(ps)
  <2>1. MakeReady(ps)
    BY <1>1, <1>2, <1>8 DEF MakeReady
  <2> QED BY <2>1, MakeReadyWakes
<1>10. \E w \in SUBSET (AlarmTask \cap alive) :
         Scheduler!Wakes({p \in Scheduler!Asleep :
               [q \in os_delay_mask |-> wake[q]][p] = os_tick_counter'} \cup w)
  BY <1>3, <1>6, <1>8, <1>9 DEF Scheduler!Wakes
<1> QED BY <1>1, <1>5, <1>7, <1>10 DEF Scheduler!Tick, Scheduler!Wakes

LEMMA SwitchIsSwitch ==
    ASSUME TypeInv, SchedInv, PendedIsDecided, PendSV_Handler
    PROVE  Scheduler!Switch
<1>1. os_task_next = Scheduler!Best(os_ready_mask)
  <2>1. /\ os_task_next \in os_ready_mask \cup {OS_TASK_IDLE}
        /\ \A p \in os_ready_mask : p <= os_task_next
    BY DEF PendSV_Handler, PendedIsDecided, SchedInv, Selected
  <2>2. os_ready_mask \subseteq Priority \ {OS_TASK_IDLE}
    BY DEF TypeInv, TypeOK
  <2>3. CASE os_ready_mask = {}
    BY <2>1, <2>3 DEF Scheduler!Best, OS_TASK_IDLE
  <2>4. CASE os_ready_mask # {}
    <3>1. os_task_next \in os_ready_mask
      <4>1. \A p \in Priority \ {OS_TASK_IDLE} : ~ (p <= OS_TASK_IDLE)
        BY TaskMaxAssumption DEF Priority, OS_TASK_IDLE
      <4> QED BY <2>1, <2>2, <2>4, <4>1
    <3> QED BY <2>1, <2>2, <3>1, BestIsHighest
  <2> QED BY <2>3, <2>4
<1> QED BY <1>1 DEF PendSV_Handler, masks, Scheduler!Switch

\* Each call is the abstract call of the same name.
LEMMA StartIsStart ==
    ASSUME RestartDeleted = FALSE, TypeInv, SchedInv, NEW id \in TaskId, os_task_start(id)
    PROVE  Scheduler!Start(PriorityOf(id))
<1> DEFINE p == PriorityOf(id)
<1>1. os_tasks[p] # NULL /\ p \in Priority
  BY ConstantFacts DEF os_task_start, StartTarget
<1>2. Scheduler!Wakes({p})
  BY <1>1, MakeReadyWakes DEF os_task_start
<1> QED BY <1>1, <1>2, CallerActs DEF os_task_start, Scheduler!Start

LEMMA StopIsStop ==
    ASSUME TypeInv, TypeInv', SchedInv, SchedInv', NEW id \in TaskId, os_task_stop(id)
    PROVE  Scheduler!Stop(PriorityOf(id))
<1> DEFINE p == PriorityOf(id)
<1>1. Scheduler!Leaves(p)
  BY SuspendLeaves DEF os_task_stop
<1>2. Scheduler!Decide
  BY SchedDecides DEF os_task_stop, SchedInv
<1> QED BY <1>1, <1>2, CallerActs DEF os_task_stop, Scheduler!Stop

LEMMA ReleaseIsRelease ==
    ASSUME RestartDeleted = FALSE, TypeInv, TypeInv', SchedInv, SchedInv',
           NEW id \in TaskId, os_task_release(id)
    PROVE  Scheduler!Release(PriorityOf(id))
<1> DEFINE p == PriorityOf(id)
<1>1. os_tasks[p] # NULL /\ p \in Priority
  BY ConstantFacts DEF os_task_release, StartTarget
<1>2. Scheduler!Wakes({p})
  BY <1>1, MakeReadyWakes DEF os_task_release
<1>3. Scheduler!Decide
  BY SchedDecides DEF os_task_release, SchedInv
<1> QED BY <1>1, <1>2, <1>3, CallerActs DEF os_task_release, Scheduler!Release

LEMMA DeleteIsDelete ==
    ASSUME TypeInv, TypeInv', SchedInv, SchedInv', os_task_delete
    PROVE  Scheduler!Delete
<1> DEFINE t     == os_task_current
           alive == {p \in Priority : os_tasks[p] # NULL}
<1>1. Scheduler!Acts /\ t \in Priority /\ priority[t] = t
  BY CallerActs, ConstantFacts DEF os_task_delete
<1>2. Scheduler!Leaves(t)
  <2>1. PICK p \in Priority : p = t
    BY <1>1
  <2>2. Suspend(p)
    BY <1>1, <2>1 DEF os_task_delete, Suspend
  <2>3. Scheduler!Leaves(p)
    BY <2>2, SuspendLeaves
  <2> QED BY <2>1, <2>3 DEF Scheduler!Leaves
<1>3. Scheduler!Decide
  BY SchedDecides DEF os_task_delete, SchedInv
<1>4. alive' = alive \ {t}
  BY <1>1 DEF os_task_delete, TypeInv, TypeOK
<1> QED BY <1>1, <1>2, <1>3, <1>4 DEF os_task_delete, Scheduler!Delete

LEMMA DelayIsNap ==
    ASSUME TypeInv, TypeInv', SchedInv, SchedInv', NEW n \in Delays, os_delay(n)
    PROVE  Scheduler!Nap(n)
<1> DEFINE t == os_task_current
<1>1. Scheduler!Acts /\ t \in Priority /\ priority[t] = t
  BY CallerActs, ConstantFacts DEF os_delay
<1>2. Scheduler!Decide
  BY SchedDecides DEF os_delay, SchedInv
<1>3. Sleep(t, n) /\ UNCHANGED <<os_task_current, os_tick_counter, os_tasks>>
  BY <1>1 DEF os_delay
<1>4. os_delay_mask \subseteq Priority /\ wake \in [Priority -> 0 .. TICK_MOD - 1]
  BY DEF TypeInv, TypeOK
<1>5. [p \in os_delay_mask' |-> wake'[p]]
        = [p \in os_delay_mask \cup {t} |->
             IF p = t THEN (os_tick_counter + n) % TICK_MOD
             ELSE [q \in os_delay_mask |-> wake[q]][p]]
  BY <1>1, <1>3, <1>4 DEF Sleep
<1>6. os_ready_mask' = os_ready_mask \ {t}
  BY <1>3 DEF Sleep
<1> QED BY <1>1, <1>2, <1>3, <1>5, <1>6 DEF Scheduler!Nap, Scheduler!Asleep

LEMMA SchedulerStep ==
    ASSUME RestartDeleted = FALSE, TypeInv, TypeInv', SchedInv, SchedInv', DelayCounts,
           PendedIsDecided, [Next]_vars
    PROVE  [Scheduler!SchedulerNext]_(Scheduler!sched_vars)
<1>1. CASE PendSV_Handler
  BY <1>1, SwitchIsSwitch DEF Scheduler!SchedulerNext
<1>2. CASE SysTick
  <2>1. Scheduler!Tick
    BY <1>2, TickIsTick DEF SysTick
  <2> QED BY <2>1 DEF Scheduler!SchedulerNext
<1>3. ASSUME NEW id \in TaskId,
             os_task_start(id) \/ os_task_stop(id) \/ os_task_release(id)
      PROVE  Scheduler!SchedulerNext
  <2>1. \/ Scheduler!Start(PriorityOf(id))
        \/ Scheduler!Stop(PriorityOf(id))
        \/ Scheduler!Release(PriorityOf(id))
    BY <1>3, StartIsStart, StopIsStop, ReleaseIsRelease
  <2> QED BY <2>1, PriorityOfRange DEF Scheduler!SchedulerNext
<1>4. CASE os_task_delete
  BY <1>4, DeleteIsDelete DEF Scheduler!SchedulerNext
<1>5. ASSUME NEW n \in Delays, os_delay(n) PROVE Scheduler!SchedulerNext
  BY <1>5, DelayIsNap DEF Scheduler!SchedulerNext
<1>6. CASE UNCHANGED vars
  BY <1>6 DEF vars, Scheduler!sched_vars
<1> QED BY <1>1, <1>2, <1>3, <1>4, <1>5, <1>6 DEF Next

\* The kernel schedules as PriorityScheduler says, for every number of tasks,
\* every layout of slots and every width of the counters (BeeRTOS_task.c,
\* port_CM4.c): only the most urgent ready task makes calls, a switch goes to
\* the most urgent ready task, sleeps end on their tick.
THEOREM ImplementsPriorityScheduler ==
    ASSUME RestartDeleted = FALSE
    PROVE  Spec => IsPriorityScheduler
<1> DEFINE Inv == TypeInv /\ SchedInv /\ DelayCounts /\ PendedIsDecided
<1>1. Init => Inv
  BY TypeInit, SchedInit DEF Init, DelayCounts, PendedIsDecided
<1>2. Inv /\ [Next]_vars => Inv'
  BY TypeStep, SchedStep, DelayStep, PendedStep
<1>3. Inv /\ Inv' /\ [Next]_vars => [Scheduler!SchedulerNext]_(Scheduler!sched_vars)
  BY SchedulerStep
<1> HIDE DEF Inv
<1> QED BY <1>1, <1>2, <1>3, SchedulerInitial, PTL
        DEF Spec, IsPriorityScheduler, Scheduler!SchedulerSpec
=============================================================================
