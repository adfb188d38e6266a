------------------------- MODULE BeeRTOS_task_proofs -------------------------
(***************************************************************************)
(* Proofs about the scheduler, for every number of tasks, every layout of  *)
(* mutex slots and every width of the counters.                            *)
(***************************************************************************)
EXTENDS BeeRTOS_task, WellFoundedInduction, TLAPS

(***************************************************************************)
(* Arithmetic of the counters.                                             *)
(***************************************************************************)
LEMMA ModRange ==
    ASSUME NEW n \in Int, NEW m \in Nat, m > 0
    PROVE  n % m \in 0 .. m - 1
OBVIOUS

LEMMA ModSmall ==
    ASSUME NEW m \in Nat, NEW n \in 0 .. m - 1
    PROVE  n % m = n
OBVIOUS

LEMMA ModOnce ==
    ASSUME NEW m \in Nat, m > 0, NEW n \in m .. 2 * m - 1
    PROVE  n % m = n - m
OBVIOUS

LEMMA TickShift ==
    ASSUME NEW m \in Nat, NEW c \in 0 .. m - 1, NEW t \in 1 .. m - 1
    PROVE  /\ (c + 1) % m \in 0 .. m - 1
           /\ (((c + 1) % m) + (t - 1)) % m = (c + t) % m
           /\ (c + t) % m = (c + 1) % m => t = 1
<1>1. CASE c + t < m
  BY <1>1, ModSmall
<1>2. CASE c + t >= m /\ c + 1 < m
  <2>1. (c + t) % m = c + t - m
    BY <1>2, ModOnce
  <2>2. (c + 1) % m = c + 1
    BY <1>2, ModSmall
  <2> QED BY <1>2, <2>1, <2>2
<1>3. CASE c + 1 = m
  <2>1. (c + 1) % m = 0
    BY <1>3, ModOnce
  <2>2. (c + t) % m = t - 1
    BY <1>3, ModOnce
  <2>3. (0 + (t - 1)) % m = t - 1
    BY ModSmall
  <2> QED BY <2>1, <2>2, <2>3
<1> QED BY <1>1, <1>2, <1>3

LEMMA NatMinimum ==
    ASSUME NEW S, S \subseteq Nat, S # {}
    PROVE  \E x \in S : \A y \in S : x <= y
<1>1. PICK x \in S : \A y \in S : <<y, x>> \notin OpToRel(<, Nat)
  BY NatLessThanWellFounded, WFMin, Zenon
<1>2. ASSUME NEW y \in S PROVE x <= y
  <2>1. <<y, x>> \notin OpToRel(<, Nat)
    BY <1>1
  <2>2. ~ (y < x)
    BY <2>1 DEF OpToRel
  <2> QED BY <2>2
<1> QED BY <1>2

(***************************************************************************)
(* A nonempty mask has a highest bit, so the CHOOSE of                     *)
(* OS_GET_HIGHEST_PRIO_TASK_FROM_MASK picks it.                            *)
(***************************************************************************)
LEMMA HighestBit ==
    ASSUME NEW mask, mask \subseteq Priority, mask # {}
    PROVE  /\ OS_GET_HIGHEST_PRIO_TASK_FROM_MASK(mask) \in mask
           /\ \A q \in mask : q <= OS_GET_HIGHEST_PRIO_TASK_FROM_MASK(mask)
<1>1. mask \subseteq Int /\ \A p \in mask : OS_TASK_MAX - p \in Nat
  BY TaskMaxAssumption DEF Priority
<1>2. PICK x \in {n \in Nat : OS_TASK_MAX - n \in mask} :
        \A y \in {n \in Nat : OS_TASK_MAX - n \in mask} : x <= y
  <2>1. {n \in Nat : OS_TASK_MAX - n \in mask} # {}
    <3>1. PICK p \in mask : TRUE
      OBVIOUS
    <3>2. OS_TASK_MAX - (OS_TASK_MAX - p) = p
      BY <1>1, TaskMaxAssumption
    <3> QED BY <1>1, <3>2
  <2> QED BY <2>1, NatMinimum
<1>3. ASSUME NEW q \in mask PROVE q <= OS_TASK_MAX - x
  <2>1. OS_TASK_MAX - (OS_TASK_MAX - q) = q
    BY <1>1, TaskMaxAssumption
  <2>2. x <= OS_TASK_MAX - q
    BY <1>1, <1>2, <2>1
  <2> QED BY <1>1, <1>2, <2>2, TaskMaxAssumption
<1> QED BY <1>2, <1>3 DEF OS_GET_HIGHEST_PRIO_TASK_FROM_MASK

-----------------------------------------------------------------------------
(***************************************************************************)
(* Type correctness.  os_delay sets a bit named by the priority field of   *)
(* the caller, so the invariant says what that field holds.                *)
(***************************************************************************)
TypeInv == TypeOK /\ priority = [t \in Task |-> t]

LEMMA ConstantFacts ==
    /\ OS_TASK_IDLE \in Task
    /\ Task \subseteq Priority
    /\ NULL \notin Task
    /\ Priority \subseteq Int
    /\ \A id \in TaskId : PriorityOf(id) \in Int /\ PriorityOf(id) # OS_TASK_IDLE
    /\ \A id \in TaskId : id > OS_TASK_IDLE => PriorityOf(id) \in Priority
BY TaskMaxAssumption, SlotsAssumption, NullAssumption
   DEF Task, Priority, TaskId, OS_TASK_IDLE, PriorityOf

LEMMA MakeReadyType ==
    ASSUME TypeOK, NEW ps, ps \subseteq Priority \ {OS_TASK_IDLE}, MakeReady(ps)
    PROVE  /\ os_ready_mask' \subseteq Priority \ {OS_TASK_IDLE}
           /\ os_delay_mask' \subseteq Priority \ {OS_TASK_IDLE}
           /\ wake' \in [Priority -> 0 .. TICK_MOD - 1]
BY TickAssumption DEF TypeOK, MakeReady

LEMMA SuspendType ==
    ASSUME TypeOK, NEW q, Suspend(q)
    PROVE  /\ os_ready_mask' \subseteq Priority \ {OS_TASK_IDLE}
           /\ os_delay_mask' \subseteq Priority \ {OS_TASK_IDLE}
           /\ wake' \in [Priority -> 0 .. TICK_MOD - 1]
BY TickAssumption DEF TypeOK, Suspend

LEMMA SchedType ==
    ASSUME TypeOK, os_sched,
           os_ready_mask' \subseteq Priority \ {OS_TASK_IDLE},
           os_tasks' \in [Priority -> Task \cup {NULL}]
    PROVE  /\ os_task_next' \in Task \cup {NULL}
           /\ pendsv' \in BOOLEAN
           /\ unsched' \subseteq Priority
<1>1. os_ready_mask' # {} =>
        OS_GET_HIGHEST_PRIO_TASK_FROM_MASK(os_ready_mask') \in Priority
  BY HighestBit
<1>2. os_task_next' \in Task \cup {NULL}
  BY <1>1, ConstantFacts DEF os_sched
<1> QED BY <1>2 DEF os_sched, TypeOK

LEMMA TypeInit == Init => TypeInv
<1> SUFFICES ASSUME Init PROVE TypeInv
  OBVIOUS
<1>1. 0 \in 0 .. TICK_MOD - 1
  BY TickAssumption
<1>2. os_tasks \in [Priority -> Task \cup {NULL}]
  BY DEF Init, Task
<1>3. AutoStart \subseteq Priority \ {OS_TASK_IDLE}
  BY SlotsAssumption, ConstantFacts
<1> QED BY <1>1, <1>2, <1>3, ConstantFacts DEF Init, TypeInv, TypeOK

\* A step keeps the types if the caller's priority is a task's or a mutex's.
LEMMA TypeOKStep ==
    ASSUME TypeOK, [Next]_vars,
           Executing => priority[os_task_current] \in Priority \ {OS_TASK_IDLE}
    PROVE  TypeOK'
<1> USE ConstantFacts
<1>0. TypeOK
  OBVIOUS
<1>1. CASE PendSV_Handler
  BY <1>1 DEF PendSV_Handler, masks, TypeOK
<1>2. ASSUME NEW woken \in SUBSET AlarmTask, SysTick_Handler(woken) PROVE TypeOK'
  <2> DEFINE expired == {p \in os_delay_mask : ticks[os_tasks[p]] = 1}
  <2>1. MakeReady(expired \cup woken) /\ os_sched
    BY <1>2 DEF SysTick_Handler, os_tick, os_task_tick
  <2>2. expired \cup woken \subseteq Priority \ {OS_TASK_IDLE}
    BY <1>0, SlotsAssumption DEF TypeOK
  <2> HIDE DEF expired
  <2>3. ticks' \in [Task -> 0 .. TICK_MOD - 1]
    <3>1. \A t \in Task : ticks[t] \in Int /\ (ticks[t] - 1) % TICK_MOD \in 0 .. TICK_MOD - 1
      BY <1>0, ModRange, TickAssumption DEF TypeOK
    <3> QED BY <1>0, <1>2, <3>1 DEF TypeOK, SysTick_Handler, os_tick, os_task_tick
  <2>4. os_tick_counter' \in 0 .. TICK_MOD - 1
    BY <1>0, <1>2, ModRange, TickAssumption DEF TypeOK, SysTick_Handler, os_tick
  <2>5. UNCHANGED <<os_tasks, os_task_current, priority>>
    BY <1>2 DEF SysTick_Handler
  <2> QED BY <1>0, <2>1, <2>2, <2>3, <2>4, <2>5, MakeReadyType, SchedType DEF TypeOK
<1>3. ASSUME NEW id \in TaskId, os_task_start(id) PROVE TypeOK'
  <2>1. PriorityOf(id) \in Priority \ {OS_TASK_IDLE} /\ MakeReady({PriorityOf(id)})
    BY <1>3 DEF os_task_start
  <2> QED BY <1>0, <1>3, <2>1, MakeReadyType DEF os_task_start, TypeOK
<1>4. ASSUME NEW id \in TaskId, os_task_stop(id) PROVE TypeOK'
  <2>1. Suspend(PriorityOf(id)) /\ os_sched
    BY <1>4 DEF os_task_stop
  <2> QED BY <1>0, <1>4, <2>1, SuspendType, SchedType DEF os_task_stop, TypeOK
<1>5. ASSUME NEW id \in TaskId, os_task_release(id) PROVE TypeOK'
  <2>1. /\ PriorityOf(id) \in Priority \ {OS_TASK_IDLE}
        /\ MakeReady({PriorityOf(id)}) /\ os_sched
    BY <1>5 DEF os_task_release
  <2> QED BY <1>0, <1>5, <2>1, MakeReadyType, SchedType DEF os_task_release, TypeOK
<1>6. CASE os_task_delete
  <2>1. Suspend(priority[os_task_current]) /\ os_sched
    BY <1>6 DEF os_task_delete
  <2>2. os_tasks' \in [Priority -> Task \cup {NULL}]
    BY <1>0, <1>6 DEF os_task_delete, TypeOK
  <2> QED BY <1>0, <1>6, <2>1, <2>2, SuspendType, SchedType DEF os_task_delete, TypeOK
<1>7. ASSUME NEW n \in Delays, os_delay(n) PROVE TypeOK'
  <2>1. /\ os_task_current \in Task
        /\ priority[os_task_current] \in Priority \ {OS_TASK_IDLE}
    BY <1>0, <1>7 DEF os_delay, Executing, TypeOK
  <2>2. n \in 1 .. TICK_MOD - 1 /\ (os_tick_counter + n) % TICK_MOD \in 0 .. TICK_MOD - 1
    BY <1>0, TickAssumption, ModRange DEF TypeOK
  <2>3. /\ os_ready_mask' \subseteq Priority \ {OS_TASK_IDLE}
        /\ os_delay_mask' \subseteq Priority \ {OS_TASK_IDLE}
        /\ wake' \in [Priority -> 0 .. TICK_MOD - 1]
    BY <1>0, <1>7, <2>1, <2>2 DEF os_delay, Sleep, TypeOK
  <2>4. ticks' \in [Task -> 0 .. TICK_MOD - 1]
    BY <1>0, <1>7, <2>1, <2>2, TickAssumption DEF os_delay, TypeOK
  <2> QED BY <1>0, <1>7, <2>3, <2>4, SchedType DEF os_delay, TypeOK
<1>8. CASE UNCHANGED vars
  BY <1>8 DEF vars, TypeOK
<1> QED BY <1>1, <1>2, <1>3, <1>4, <1>5, <1>6, <1>7, <1>8 DEF Next, SysTick

LEMMA TypeStep == TypeInv /\ [Next]_vars => TypeInv'
<1> SUFFICES ASSUME TypeInv, [Next]_vars PROVE TypeInv'
  OBVIOUS
<1>1. Executing => priority[os_task_current] \in Priority \ {OS_TASK_IDLE}
  BY ConstantFacts DEF TypeInv, TypeOK, Executing
<1>2. UNCHANGED priority
  BY DEF Next, vars, SysTick, SysTick_Handler, PendSV_Handler, os_task_start, os_task_stop,
         os_task_release, os_task_delete, os_delay
<1> QED BY <1>1, <1>2, TypeOKStep DEF TypeInv

\* Every variable of the scheduler keeps its type, for every configuration; in
\* particular no operation ever sets a bit for the idle task or past the table
\* (the masks are written with computed indices throughout BeeRTOS_task.c).
THEOREM TypeCorrect == Spec => []TypeOK
<1>1. TypeInv => TypeOK
  BY DEF TypeInv
<1> QED BY <1>1, TypeInit, TypeStep, PTL DEF Spec

-----------------------------------------------------------------------------
(***************************************************************************)
(* The scheduler's bookkeeping.  Clients start only tasks that have a      *)
(* control block: the theorems below assume RestartDeleted = FALSE.        *)
(***************************************************************************)
LEMMA SchedSelects ==
    ASSUME TypeInv', OwnSlots', LiveBits', os_sched, UNCHANGED os_task_current
    PROVE  Selected'
<1> DEFINE h == OS_GET_HIGHEST_PRIO_TASK_FROM_MASK(os_ready_mask')
<1>1. CASE os_ready_mask' = {}
  <2>1. os_task_next' = OS_TASK_IDLE
    BY <1>1 DEF os_sched, OwnSlots
  <2> QED BY <1>1, <2>1, ConstantFacts DEF os_sched, Selected
<1>2. CASE os_ready_mask' # {}
  <2>1. os_ready_mask' \subseteq Priority
    BY DEF TypeInv, TypeOK
  <2>2. h \in os_ready_mask' /\ \A q \in os_ready_mask' : q <= h
    BY <1>2, <2>1, HighestBit
  <2>3. os_tasks'[h] = h /\ h # NULL
    BY <2>1, <2>2, NullAssumption DEF OwnSlots, LiveBits
  <2>4. os_task_next' = h
    BY <1>2, <2>3 DEF os_sched
  <2> HIDE DEF h
  <2> QED BY <2>2, <2>3, <2>4 DEF os_sched, Selected
<1> QED BY <1>1, <1>2

LEMMA SchedInit == Init => SchedInv
<1> SUFFICES ASSUME Init PROVE SchedInv
  OBVIOUS
<1>1. AutoStart \subseteq Priority /\ OS_TASK_IDLE \in Priority /\ OS_TASK_IDLE \notin MutexSlots
  BY SlotsAssumption, ConstantFacts DEF Task
<1>2. \A p \in AutoStart : p \notin MutexSlots
  BY SlotsAssumption DEF Task
<1>3. OwnSlots /\ LiveBits
  BY <1>1, <1>2, NullAssumption DEF Init, OwnSlots, LiveBits
<1> QED BY <1>3 DEF Init, SchedInv, ReadyOrDelayed, Selected

LEMMA SchedStep ==
    ASSUME RestartDeleted = FALSE, TypeInv, TypeInv', SchedInv, [Next]_vars
    PROVE  SchedInv'
<1> USE ConstantFacts, NullAssumption
<1>1. CASE PendSV_Handler
  <2>1. OwnSlots' /\ LiveBits' /\ ReadyOrDelayed'
    BY <1>1 DEF PendSV_Handler, masks, SchedInv, OwnSlots, LiveBits, ReadyOrDelayed
  <2>2. Selected'
    BY <1>1 DEF PendSV_Handler, masks, SchedInv, Selected
  <2> QED BY <2>1, <2>2 DEF SchedInv
<1>2. ASSUME NEW woken \in SUBSET AlarmTask, SysTick_Handler(woken) PROVE SchedInv'
  <2> DEFINE expired == {p \in os_delay_mask : ticks[os_tasks[p]] = 1}
  <2>1. MakeReady(expired \cup woken) /\ os_sched
    BY <1>2 DEF SysTick_Handler, os_tick, os_task_tick
  <2>2. UNCHANGED <<os_tasks, os_task_current, priority>>
    BY <1>2 DEF SysTick_Handler
  <2>3. OwnSlots'
    BY <2>2 DEF SchedInv, OwnSlots
  <2>4. LiveBits'
    <3>1. \A p \in woken : os_tasks[p] # NULL
      BY <1>2 DEF SysTick_Handler, StartTarget
    <3> QED BY <2>1, <2>2, <3>1 DEF SchedInv, LiveBits, MakeReady
  <2>5. ReadyOrDelayed'
    BY <2>1 DEF SchedInv, ReadyOrDelayed, MakeReady
  <2> QED BY <2>1, <2>2, <2>3, <2>4, <2>5, SchedSelects DEF SchedInv
<1>3. ASSUME NEW id \in TaskId, os_task_start(id) PROVE SchedInv'
  <2>1. /\ UNCHANGED <<os_tasks, os_task_current, os_task_next, priority, pendsv>>
        /\ MakeReady({PriorityOf(id)}) /\ os_tasks[PriorityOf(id)] # NULL
        /\ unsched' = unsched \cup {PriorityOf(id)}
    BY <1>3 DEF os_task_start, StartTarget
  <2>2. OwnSlots' /\ LiveBits' /\ ReadyOrDelayed'
    BY <2>1 DEF SchedInv, OwnSlots, LiveBits, ReadyOrDelayed, MakeReady
  <2>3. Selected'
    BY <2>1 DEF SchedInv, Selected, MakeReady
  <2> QED BY <2>2, <2>3 DEF SchedInv
<1>4. ASSUME NEW id \in TaskId, os_task_stop(id) PROVE SchedInv'
  <2>1. Suspend(PriorityOf(id)) /\ os_sched /\ UNCHANGED <<os_tasks, os_task_current, priority>>
    BY <1>4 DEF os_task_stop
  <2>2. OwnSlots' /\ LiveBits' /\ ReadyOrDelayed'
    BY <2>1 DEF SchedInv, OwnSlots, LiveBits, ReadyOrDelayed, Suspend
  <2> QED BY <2>1, <2>2, SchedSelects DEF SchedInv
<1>5. ASSUME NEW id \in TaskId, os_task_release(id) PROVE SchedInv'
  <2>1. /\ MakeReady({PriorityOf(id)}) /\ os_tasks[PriorityOf(id)] # NULL
        /\ os_sched /\ UNCHANGED <<os_tasks, os_task_current, priority>>
    BY <1>5 DEF os_task_release, StartTarget
  <2>2. OwnSlots' /\ LiveBits' /\ ReadyOrDelayed'
    BY <2>1 DEF SchedInv, OwnSlots, LiveBits, ReadyOrDelayed, MakeReady
  <2> QED BY <2>1, <2>2, SchedSelects DEF SchedInv
<1>6. CASE os_task_delete
  <2>1. /\ os_task_current \in Task \ {OS_TASK_IDLE}
        /\ priority[os_task_current] = os_task_current
    BY <1>6 DEF os_task_delete, Executing, TypeInv, TypeOK
  <2>2. /\ Suspend(os_task_current) /\ os_sched
        /\ os_tasks' = [os_tasks EXCEPT ![os_task_current] = NULL]
        /\ UNCHANGED <<os_task_current, priority>>
    BY <1>6, <2>1 DEF os_task_delete
  <2>3. OwnSlots' /\ LiveBits' /\ ReadyOrDelayed'
    BY <2>1, <2>2 DEF SchedInv, OwnSlots, LiveBits, ReadyOrDelayed, Suspend, TypeInv, TypeOK
  <2> QED BY <2>2, <2>3, SchedSelects DEF SchedInv
<1>7. ASSUME NEW n \in Delays, os_delay(n) PROVE SchedInv'
  <2>1. /\ os_task_current \in Task \ {OS_TASK_IDLE}
        /\ priority[os_task_current] = os_task_current
        /\ os_tasks[os_task_current] # NULL
    BY <1>7 DEF os_delay, Executing, TypeInv, TypeOK, SchedInv, Selected, LiveBits
  <2>2. /\ Sleep(os_task_current, n) /\ os_sched
        /\ UNCHANGED <<os_tasks, os_task_current, priority>>
    BY <1>7, <2>1 DEF os_delay
  <2>3. OwnSlots' /\ LiveBits' /\ ReadyOrDelayed'
    BY <2>1, <2>2 DEF SchedInv, OwnSlots, LiveBits, ReadyOrDelayed, Sleep
  <2> QED BY <2>2, <2>3, SchedSelects DEF SchedInv
<1>8. CASE UNCHANGED vars
  BY <1>8 DEF vars, SchedInv, OwnSlots, LiveBits, ReadyOrDelayed, Selected
<1> QED BY <1>1, <1>2, <1>3, <1>4, <1>5, <1>6, <1>7, <1>8 DEF Next, SysTick

KernelInv == TypeInv /\ SchedInv

\* The task that makes a call.
LEMMA Caller ==
    ASSUME KernelInv, Executing
    PROVE  /\ os_task_current \in Task \ {OS_TASK_IDLE}
           /\ os_task_current \in Priority \ {OS_TASK_IDLE}
           /\ priority[os_task_current] = os_task_current
           /\ os_tasks[os_task_current] = os_task_current
           /\ os_task_current \in os_ready_mask
<1>1. /\ os_task_current \in Task \ {OS_TASK_IDLE}
      /\ priority[os_task_current] = os_task_current
  BY DEF Executing, KernelInv, TypeInv, TypeOK
<1>2. os_task_current \in os_ready_mask
  BY <1>1 DEF Executing, KernelInv, SchedInv, Selected
<1> QED BY <1>1, <1>2, ConstantFacts DEF KernelInv, SchedInv, OwnSlots, LiveBits

\* The id a caller names a task by.
LEMMA IdOfTask ==
    ASSUME NEW p \in Priority \ {OS_TASK_IDLE}
    PROVE  /\ OS_GET_TASK_ID_FROM_PRIORITY(p) \in TaskId
           /\ PriorityOf(OS_GET_TASK_ID_FROM_PRIORITY(p)) = p
BY TaskMaxAssumption
   DEF Priority, TaskId, OS_TASK_IDLE, OS_GET_TASK_ID_FROM_PRIORITY, PriorityOf

LEMMA SchedInvariant ==
    ASSUME RestartDeleted = FALSE
    PROVE  Spec => [](TypeInv /\ SchedInv)
<1>1. Init => TypeInv /\ SchedInv
  BY TypeInit, SchedInit
<1>2. TypeInv /\ SchedInv /\ [Next]_vars => (TypeInv /\ SchedInv)'
  BY TypeStep, SchedStep
<1> QED BY <1>1, <1>2, PTL DEF Spec

\* What the invariant says of the task that runs and of the handlers.
LEMMA KernelImplies ==
    ASSUME KernelInv
    PROVE  RunningIsReady /\ NoPriorityInversion /\ HandlersSafe
<1>1. RunningIsReady
  BY Caller DEF RunningIsReady
<1>2. NoPriorityInversion
  BY DEF KernelInv, NoPriorityInversion, SchedInv, Selected, TypeInv, TypeOK
<1>3. HandlersSafe
  <2>1. pendsv => os_task_next # NULL
    BY DEF KernelInv, SchedInv, Selected
  <2>2. ASSUME NEW p \in os_delay_mask
        PROVE  os_tasks[p] # NULL /\ priority[os_tasks[p]] = p
    <3>1. os_tasks[p] = p /\ p # NULL
      BY NullAssumption DEF KernelInv, SchedInv, LiveBits, OwnSlots, TypeInv, TypeOK
    <3>2. os_tasks[p] \in Task
      BY <3>1 DEF KernelInv, TypeInv, TypeOK
    <3> QED BY <3>1, <3>2 DEF KernelInv, TypeInv
  <2> QED BY <2>1, <2>2 DEF HandlersSafe, TickLoopEnds
<1> QED BY <1>1, <1>2, <1>3

LEMMA KernelAlways ==
    ASSUME RestartDeleted = FALSE
    PROVE  Spec => [](RunningIsReady /\ NoPriorityInversion /\ HandlersSafe)
<1>1. TypeInv /\ SchedInv => RunningIsReady /\ NoPriorityInversion /\ HandlersSafe
  BY KernelImplies DEF KernelInv
<1> QED BY <1>1, SchedInvariant, PTL

\* A task that executes is ready and still in the table, however ticks, calls of
\* other tasks and the pending switch interleave.
THEOREM RunningIsReadyAlways ==
    ASSUME RestartDeleted = FALSE
    PROVE  Spec => []RunningIsReady
BY KernelAlways, PTL

\* Preemption is by priority: outside the handlers no ready task outranks the
\* current one, but for those os_task_start made ready since the last os_sched.
THEOREM NoPriorityInversionAlways ==
    ASSUME RestartDeleted = FALSE
    PROVE  Spec => []NoPriorityInversion
BY KernelAlways, PTL

\* The two together: the processor does the most urgent of what can be done.
THEOREM RightTaskRunsAlways ==
    ASSUME RestartDeleted = FALSE
    PROVE  Spec => []RightTaskRuns
BY KernelAlways, PTL DEF RightTaskRuns

\* The handlers never follow a null control block and the tick loop always ends.
THEOREM HandlersSafeAlways ==
    ASSUME RestartDeleted = FALSE
    PROVE  Spec => []HandlersSafe
BY KernelAlways, PTL

-----------------------------------------------------------------------------
(***************************************************************************)
(* Delays.                                                                 *)
(***************************************************************************)
\* All the delays depend on: a sleeping task is in its own slot.
Sleepers ==
    /\ TypeOK
    /\ \A p \in os_delay_mask : p \in Task /\ os_tasks[p] = p /\ p \notin os_ready_mask

LEMMA KernelSleepers ==
    /\ TypeInv /\ SchedInv => Sleepers
    /\ TypeInv' /\ SchedInv' => Sleepers'
<1>1. TypeInv /\ SchedInv => Sleepers
  <2> SUFFICES ASSUME TypeInv, SchedInv, NEW p \in os_delay_mask
               PROVE  p \in Task /\ os_tasks[p] = p /\ p \notin os_ready_mask
    BY DEF Sleepers, TypeInv
  <2>1. p \in Priority /\ os_tasks[p] \in Task
    BY DEF TypeInv, TypeOK, SchedInv, LiveBits
  <2> QED BY <2>1, ConstantFacts, NullAssumption DEF SchedInv, OwnSlots, ReadyOrDelayed
<1> QED BY <1>1, PTL

\* A step that only takes bits out of the delay mask keeps the counts.
LEMMA FewerDelays ==
    ASSUME Sleepers, Sleepers', DelayCounts,
           os_delay_mask' \subseteq os_delay_mask,
           \A p \in os_delay_mask' : wake'[p] = wake[p],
           UNCHANGED <<ticks, os_tick_counter>>
    PROVE  DelayCounts'
BY DEF Sleepers, DelayCounts

\* What a tick does to a delay bit, and to the ticks left under it.
LEMMA TickOnDelay ==
    ASSUME Sleepers, DelayCounts,
           NEW woken \in SUBSET AlarmTask, SysTick_Handler(woken),
           NEW p \in os_delay_mask
    PROVE  /\ ticks[p] \in 1 .. TICK_MOD - 1
           /\ (os_tick_counter + ticks[p]) % TICK_MOD = wake[p]
           /\ ticks'[p] = (ticks[p] - 1) % TICK_MOD
           /\ os_tick_counter' = (os_tick_counter + 1) % TICK_MOD
           /\ p \in os_delay_mask' <=> ticks[p] # 1 /\ p \notin woken
           /\ p \in os_ready_mask' <=> ticks[p] = 1 \/ p \in woken
           /\ p \in os_delay_mask' => wake'[p] = wake[p]
<1>1. p \in Task /\ p \in Priority /\ os_tasks[p] = p
  BY ConstantFacts DEF Sleepers
<1>2. ticks[p] \in 1 .. TICK_MOD - 1 /\ (os_tick_counter + ticks[p]) % TICK_MOD = wake[p]
  BY <1>1, TickAssumption DEF Sleepers, TypeOK, DelayCounts
<1>3. p \notin os_ready_mask
  BY DEF Sleepers
<1>4. /\ ticks'[p] = (ticks[p] - 1) % TICK_MOD
      /\ os_tick_counter' = (os_tick_counter + 1) % TICK_MOD
  BY <1>1 DEF SysTick_Handler, os_tick, os_task_tick
<1>5. MakeReady({q \in os_delay_mask : ticks[os_tasks[q]] = 1} \cup woken)
  BY DEF SysTick_Handler, os_tick, os_task_tick
<1> QED BY <1>1, <1>2, <1>3, <1>4, <1>5 DEF MakeReady

\* The sleepers a tick wakes for their own sake are those that are due.
LEMMA ExpiredAreDue ==
    ASSUME Sleepers, DelayCounts, NEW woken \in SUBSET AlarmTask, SysTick_Handler(woken)
    PROVE  {p \in os_delay_mask : ticks[os_tasks[p]] = 1}
              = {p \in os_delay_mask : wake[p] = os_tick_counter'}
<1> SUFFICES ASSUME NEW p \in os_delay_mask
             PROVE  ticks[os_tasks[p]] = 1 <=> wake[p] = os_tick_counter'
  OBVIOUS
<1>1. os_tasks[p] = p /\ os_tick_counter \in 0 .. TICK_MOD - 1
  BY DEF Sleepers, TypeOK
<1>2. /\ ticks[p] \in 1 .. TICK_MOD - 1 /\ (os_tick_counter + ticks[p]) % TICK_MOD = wake[p]
      /\ os_tick_counter' = (os_tick_counter + 1) % TICK_MOD
  BY TickOnDelay
<1> QED BY <1>1, <1>2, TickShift, TickAssumption

\* A task that delays sleeps under its own priority.
DelaysItself ==
    \A n \in Delays : os_delay(n) =>
        os_task_current \in Task /\ priority[os_task_current] = os_task_current

LEMMA SleepStep ==
    ASSUME Sleepers, Sleepers', DelayCounts, [Next]_vars, DelaysItself
    PROVE  DelayCounts'
<1>1. CASE PendSV_Handler
  BY <1>1, FewerDelays DEF PendSV_Handler, masks
<1>2. ASSUME NEW woken \in SUBSET AlarmTask, SysTick_Handler(woken) PROVE DelayCounts'
  <2> SUFFICES ASSUME NEW p \in os_delay_mask'
               PROVE  /\ ticks'[os_tasks'[p]] > 0
                      /\ (os_tick_counter' + ticks'[os_tasks'[p]]) % TICK_MOD = wake'[p]
    BY DEF DelayCounts
  <2>1. p \in os_delay_mask
    BY <1>2 DEF SysTick_Handler, os_tick, os_task_tick, MakeReady
  <2>2. os_tasks'[p] = p
    BY <1>2, <2>1 DEF Sleepers, SysTick_Handler
  <2>3. ticks[p] \in 2 .. TICK_MOD - 1 /\ ticks'[p] = (ticks[p] - 1) % TICK_MOD
    BY <1>2, <2>1, TickOnDelay, TickAssumption
  <2>4. ticks'[p] = ticks[p] - 1
    BY <2>3, ModSmall, TickAssumption
  <2>5. os_tick_counter \in 0 .. TICK_MOD - 1
    BY DEF Sleepers, TypeOK
  <2>6. (os_tick_counter' + ticks'[p]) % TICK_MOD = (os_tick_counter + ticks[p]) % TICK_MOD
    <3>1. os_tick_counter' = (os_tick_counter + 1) % TICK_MOD
      BY <1>2, <2>1, TickOnDelay
    <3>2. ticks[p] \in 1 .. TICK_MOD - 1
      BY <2>3
    <3>3. (((os_tick_counter + 1) % TICK_MOD) + (ticks[p] - 1)) % TICK_MOD
            = (os_tick_counter + ticks[p]) % TICK_MOD
      BY <2>5, <3>2, TickShift, TickAssumption
    <3> QED BY <2>4, <3>1, <3>3
  <2>7. (os_tick_counter + ticks[p]) % TICK_MOD = wake[p] /\ wake'[p] = wake[p]
    BY <1>2, <2>1, TickOnDelay
  <2> QED BY <2>2, <2>3, <2>4, <2>6, <2>7
<1>3. ASSUME NEW id \in TaskId, os_task_start(id) PROVE DelayCounts'
  BY <1>3, FewerDelays DEF os_task_start, MakeReady, Sleepers, TypeOK
<1>4. ASSUME NEW id \in TaskId, os_task_stop(id) PROVE DelayCounts'
  BY <1>4, FewerDelays DEF os_task_stop, Suspend, Sleepers, TypeOK
<1>5. ASSUME NEW id \in TaskId, os_task_release(id) PROVE DelayCounts'
  BY <1>5, FewerDelays DEF os_task_release, MakeReady, Sleepers, TypeOK
<1>6. CASE os_task_delete
  BY <1>6, FewerDelays DEF os_task_delete, Suspend, Sleepers, TypeOK
<1>7. ASSUME NEW n \in Delays, os_delay(n) PROVE DelayCounts'
  <2> DEFINE t == os_task_current
  <2>1. t \in Task /\ t \in Priority /\ priority[t] = t
    BY <1>7, ConstantFacts DEF DelaysItself
  <2>2. /\ os_delay_mask' = os_delay_mask \cup {t}
        /\ wake' = [wake EXCEPT ![t] = (os_tick_counter + n) % TICK_MOD]
        /\ ticks' = [ticks EXCEPT ![t] = n]
        /\ UNCHANGED <<os_tasks, os_tick_counter>>
    BY <1>7, <2>1 DEF os_delay, Sleep
  <2>3. n > 0
    BY TickAssumption
  <2>4. \A p \in os_delay_mask' : os_tasks'[p] = p /\ p \in Priority /\ p \in Task
    BY ConstantFacts DEF Sleepers
  <2> HIDE DEF t
  <2> SUFFICES ASSUME NEW p \in os_delay_mask'
               PROVE  ticks'[p] > 0 /\ (os_tick_counter' + ticks'[p]) % TICK_MOD = wake'[p]
    BY <2>4 DEF DelayCounts
  <2>5. CASE p = t
    BY <2>1, <2>2, <2>3, <2>5 DEF Sleepers, TypeOK
  <2>6. CASE p # t
    <3>1. p \in os_delay_mask /\ os_tasks[p] = p
      BY <2>2, <2>4, <2>6
    <3> QED BY <2>1, <2>2, <2>4, <2>6, <3>1 DEF Sleepers, TypeOK, DelayCounts
  <2> QED BY <2>5, <2>6
<1>8. CASE UNCHANGED vars
  BY <1>8, FewerDelays DEF vars
<1> QED BY <1>1, <1>2, <1>3, <1>4, <1>5, <1>6, <1>7, <1>8 DEF Next, SysTick

LEMMA DelayStep ==
    ASSUME TypeInv, SchedInv, TypeInv', SchedInv', DelayCounts, [Next]_vars
    PROVE  DelayCounts'
<1>1. DelaysItself
  BY DEF DelaysItself, os_delay, Executing, TypeInv, TypeOK
<1> QED BY <1>1, KernelSleepers, SleepStep

LEMMA DelayInvariant ==
    ASSUME RestartDeleted = FALSE
    PROVE  Spec => [](TypeInv /\ SchedInv /\ DelayCounts)
<1>1. Init => DelayCounts
  BY DEF Init, DelayCounts
<1>2. TypeInv /\ SchedInv /\ DelayCounts /\ [Next]_vars
        => (TypeInv /\ SchedInv /\ DelayCounts)'
  BY TypeStep, SchedStep, DelayStep
<1> QED BY <1>1, <1>2, TypeInit, SchedInit, PTL DEF Spec

\* The ticks left of every delay are the distance to the tick it is due at, for
\* every width of the counters and across their wrap.
THEOREM DelayCountsAlways ==
    ASSUME RestartDeleted = FALSE
    PROVE  Spec => []DelayCounts
BY DelayInvariant, PTL

\* What a step of the clock does to the delays.
DelaysEndOnTime ==
    os_tick_counter' # os_tick_counter =>
        \A p \in os_delay_mask \ AlarmTask :
            (wake[p] = os_tick_counter') <=> (p \in os_ready_mask' \ os_delay_mask')

\* A tick changes the counter, also when it wraps.
LEMMA TickMoves == TypeOK /\ SysTick => os_tick_counter' # os_tick_counter
<1> SUFFICES ASSUME TypeOK, SysTick PROVE os_tick_counter' # os_tick_counter
  OBVIOUS
<1>1. /\ os_tick_counter' = (os_tick_counter + 1) % TICK_MOD
      /\ os_tick_counter \in 0 .. TICK_MOD - 1
  BY DEF SysTick, SysTick_Handler, os_tick, TypeOK
<1>2. CASE os_tick_counter + 1 = TICK_MOD
  BY <1>1, <1>2, ModOnce, TickAssumption
<1>3. CASE os_tick_counter + 1 # TICK_MOD
  BY <1>1, <1>3, ModSmall, TickAssumption
<1> QED BY <1>2, <1>3

LEMMA OnTimeStep ==
    ASSUME Sleepers, DelayCounts, [Next]_vars
    PROVE  DelaysEndOnTime
<1>1. CASE SysTick
  <2>1. PICK woken \in SUBSET AlarmTask : SysTick_Handler(woken)
    BY <1>1 DEF SysTick
  <2>2. ASSUME NEW p \in os_delay_mask \ AlarmTask
        PROVE  (wake[p] = os_tick_counter') <=> (p \in os_ready_mask' \ os_delay_mask')
    <3>1. os_tick_counter \in 0 .. TICK_MOD - 1
      BY DEF Sleepers, TypeOK
    <3>2. /\ ticks[p] \in 1 .. TICK_MOD - 1
          /\ (os_tick_counter + ticks[p]) % TICK_MOD = wake[p]
          /\ os_tick_counter' = (os_tick_counter + 1) % TICK_MOD
          /\ p \in os_delay_mask' <=> ticks[p] # 1 /\ p \notin woken
          /\ p \in os_ready_mask' <=> ticks[p] = 1 \/ p \in woken
      BY <2>1, TickOnDelay
    <3>3. wake[p] = os_tick_counter' <=> ticks[p] = 1
      BY <3>1, <3>2, TickShift, TickAssumption
    <3> QED BY <3>2, <3>3
  <2> QED BY <2>2 DEF DelaysEndOnTime
<1>2. CASE ~SysTick
  <2>1. os_tick_counter' = os_tick_counter
    BY <1>2 DEF Next, vars, PendSV_Handler, os_task_start, os_task_stop,
                os_task_release, os_task_delete, os_delay
  <2> QED BY <2>1 DEF DelaysEndOnTime
<1> QED BY <1>1, <1>2

\* Each tick ends exactly the delays that are due at it.
THEOREM DelayEndsOnTimeAlways ==
    ASSUME RestartDeleted = FALSE
    PROVE  Spec => DelayEndsOnTime
<1>1. TypeInv /\ SchedInv /\ DelayCounts /\ [Next]_vars => [DelaysEndOnTime]_vars
  BY OnTimeStep, KernelSleepers
<1> QED BY <1>1, DelayInvariant, PTL DEF Spec, DelayEndsOnTime, DelaysEndOnTime
=============================================================================
