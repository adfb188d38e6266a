------------------------- MODULE BeeRTOS_mutex_proofs -------------------------
(***************************************************************************)
(* Proofs about the mutexes, for every number of tasks and every placing   *)
(* of ceilings among them.  Clients do what the ceiling protocol expects:  *)
(* they lock upwards, unlock in the reverse order, hold nothing while they *)
(* delay or delete themselves, and do not restart deleted tasks.           *)
(***************************************************************************)
EXTENDS BeeRTOS_mutex, BeeRTOS_scheduler_proofs

WellBehaved == ClientMay = {} /\ RestartDeleted = FALSE

(***************************************************************************)
(* The protocol: what owners, priorities and saved priorities have to do   *)
(* with each other.                                                        *)
(***************************************************************************)

\* Nobody waits in os_mutex_lock or spins, and no lock is nested.
Uncontended ==
    /\ asserted = {}
    /\ \A m \in Mutex : locks_nb[m] = IF owner[m] = NULL THEN 0 ELSE 1

\* A task has its own priority or the highest ceiling it holds.
Raised ==
    \A t \in Task :
        /\ priority[t] \in Held(t) \cup {t}
        /\ \A m \in Held(t) : t < m /\ m <= priority[t]

\* Unlocking m restores the highest ceiling below m, or the own priority.
Nested ==
    \A t \in Task : \A m \in Held(t) :
        /\ owner_priority[m] \in Held(t) \cup {t}
        /\ owner_priority[m] < m
        /\ \A n \in Held(t) : n < m => n <= owner_priority[m]

\* A task inside os_mutex_lock goes up.
Locking == \A t \in Task : locking[t] # NULL => priority[t] < locking[t]

\* Of two mutexes in different hands, the owner of the upper one outranks every
\* user of the lower one.
Excluded ==
    \A m, n \in Mutex :
        owner[m] # NULL /\ owner[n] # NULL /\ owner[m] # owner[n] /\ m < n => owner[n] > m

Protocol == Uncontended /\ Raised /\ Nested /\ Locking /\ Excluded

(***************************************************************************)
(* The scheduler's tables and masks under the protocol.                    *)
(***************************************************************************)
Slots ==
    /\ os_tasks[OS_TASK_IDLE] = OS_TASK_IDLE
    /\ \A p \in Task : os_tasks[p] \in {p, NULL}
    /\ \A m \in Mutex : owner[m] # NULL => os_tasks[m] = owner[m]

\* The bit of a ceiling is set exactly while the mutex is held; a sleeping task
\* holds none.
Bits ==
    /\ \A p \in Task : p \in os_ready_mask \cup os_delay_mask => os_tasks[p] # NULL
    /\ \A m \in Mutex : m \in os_ready_mask <=> owner[m] # NULL
    /\ os_delay_mask \cap Mutex = {}
    /\ os_ready_mask \cap os_delay_mask = {}
    /\ \A p \in os_delay_mask : Held(p) = {}

\* os_task_next is the task of the highest ready bit as of the last os_sched.
Chosen ==
    /\ os_task_next = NULL => os_task_current = NULL /\ ~pendsv
    /\ os_task_next # NULL =>
          /\ priority[os_task_next] \in os_ready_mask \cup {OS_TASK_IDLE}
          /\ os_tasks[priority[os_task_next]] = os_task_next
          /\ \A p \in os_ready_mask \ unsched : p <= priority[os_task_next]
    /\ os_task_current # NULL /\ ~pendsv => os_task_current = os_task_next
    /\ unsched \cap Mutex = {}

MutexInv == MutexTypeOK /\ Protocol /\ Slots /\ Bits /\ Chosen

-----------------------------------------------------------------------------
(***************************************************************************)
(* Consequences of the invariant.                                          *)
(***************************************************************************)
LEMMA MutexFacts ==
    /\ Mutex \subseteq Priority \ {OS_TASK_IDLE}
    /\ Mutex \cap Task = {}
    /\ Priority = Mutex \cup Task
    /\ Mutex \subseteq Int
    /\ Task \subseteq Int
BY SlotsAssumption, ConstantFacts DEF Mutex, Task

\* The task that executes has a ready bit of its own, or of a ceiling it holds.
LEMMA Executes ==
    ASSUME MutexInv, Executing
    PROVE  /\ os_task_current \in Task \ {OS_TASK_IDLE}
           /\ os_task_current = os_task_next
           /\ priority[os_task_current] \in os_ready_mask
           /\ priority[os_task_current] \in Held(os_task_current) \cup {os_task_current}
           /\ os_tasks[priority[os_task_current]] = os_task_current
           /\ \A p \in os_ready_mask \ unsched : p <= priority[os_task_current]
<1> USE MutexFacts, ConstantFacts
<1>1. /\ os_task_current \in Task \ {OS_TASK_IDLE}
      /\ os_task_current = os_task_next
      /\ os_task_next # NULL
  BY DEF Executing, MutexInv, MutexTypeOK, TypeOK, Chosen
<1>2. priority[os_task_current] \in Held(os_task_current) \cup {os_task_current}
  BY <1>1 DEF MutexInv, Protocol, Raised
<1>3. priority[os_task_current] # OS_TASK_IDLE
  BY <1>1, <1>2 DEF Held
<1> QED BY <1>1, <1>2, <1>3 DEF MutexInv, Chosen

\* While a mutex is held nobody executes but its owner and tasks above it.
LEMMA Excludes ==
    ASSUME MutexInv, Executing, NEW m \in Mutex, owner[m] \notin {NULL, os_task_current}
    PROVE  os_task_current > m
<1> USE MutexFacts
<1> DEFINE t == os_task_current
<1>1. t \in Task /\ priority[t] \in Held(t) \cup {t} /\ m <= priority[t]
  BY Executes DEF MutexInv, Bits, Chosen
<1>2. CASE priority[t] = t
  BY <1>1, <1>2
<1>3. CASE priority[t] # t
  <2>1. priority[t] \in Mutex /\ owner[priority[t]] = t
    BY <1>1, <1>3 DEF Held
  <2>2. t # NULL /\ m # priority[t]
    BY <1>1, <2>1, ConstantFacts, Zenon
  <2>3. m < priority[t]
    <3>1. m \in Int /\ priority[t] \in Int
      BY <2>1
    <3>2. m <= priority[t]
      BY <1>1
    <3> QED BY <2>2, <3>1, <3>2
  <2> QED BY <2>1, <2>2, <2>3 DEF MutexInv, Protocol, Excluded
<1> QED BY <1>2, <1>3

\* os_sched finds the task of the highest bit at that bit's priority.
LEMMA SchedChooses ==
    ASSUME MutexTypeOK', Raised', Slots', Bits', os_sched, UNCHANGED os_task_current
    PROVE  Chosen'
<1> USE MutexFacts, ConstantFacts
<1>1. CASE os_ready_mask' = {}
  <2>1. os_task_next' = OS_TASK_IDLE
    BY <1>1 DEF os_sched, Slots
  <2>2. priority'[OS_TASK_IDLE] = OS_TASK_IDLE
    <3>1. Held(OS_TASK_IDLE)' = {}
      BY <1>1 DEF Held, Bits
    <3> QED BY <3>1 DEF Raised
  <2> QED BY <1>1, <2>1, <2>2 DEF os_sched, Chosen, Slots
<1>2. CASE os_ready_mask' # {}
  <2>1. os_ready_mask' \subseteq Priority
    BY DEF MutexTypeOK, TypeOK
  <2>2. PICK h \in os_ready_mask' :
          os_task_next' = os_tasks'[h] /\ \A q \in os_ready_mask' : q <= h
    BY <1>2, <2>1, HighestBit DEF os_sched
  <2>3. os_task_next' \in Task /\ priority'[os_task_next'] = h
    <3>1. CASE h \in Task
      <4>1. os_tasks'[h] = h
        BY <2>2, <3>1 DEF Slots, Bits
      <4>2. Held(h)' = {}
        <5> SUFFICES ASSUME NEW m \in Mutex, owner'[m] = h PROVE FALSE
          BY DEF Held
        <5>1. m \in os_ready_mask'
          BY <3>1 DEF Bits
        <5>2. h < m /\ m <= h
          BY <2>2, <3>1, <5>1 DEF Raised, Held
        <5> QED BY <3>1, <5>2
      <4> QED BY <2>2, <3>1, <4>1, <4>2 DEF Raised
    <3>2. CASE h \in Mutex
      <4>1. owner'[h] \in Task /\ os_tasks'[h] = owner'[h]
        BY <2>2, <3>2 DEF Slots, Bits, MutexTypeOK
      <4>2. PICK t \in Task : t = owner'[h]
        BY <4>1
      <4>3. /\ priority'[t] \in Held(t)' \cup {t}
            /\ t < h /\ h <= priority'[t]
        BY <3>2, <4>2 DEF Raised, Held
      <4>4. priority'[t] \in os_ready_mask'
        <5>1. priority'[t] # t
          BY <3>2, <4>3
        <5>2. priority'[t] \in Mutex /\ owner'[priority'[t]] = t
          BY <4>3, <5>1 DEF Held
        <5> QED BY <5>2 DEF Bits
      <4>5. priority'[t] <= h /\ priority'[t] \in Int
        BY <2>1, <2>2, <4>4
      <4>6. priority'[t] = h
        BY <3>2, <4>3, <4>5
      <4> QED BY <2>2, <4>1, <4>2, <4>6
    <3> QED BY <2>1, <2>2, <3>1, <3>2
  <2>4. \A p \in os_ready_mask' : p <= priority'[os_task_next']
    BY <2>2, <2>3
  <2> QED BY <2>1, <2>2, <2>3, <2>4 DEF os_sched, Chosen
<1> QED BY <1>1, <1>2

-----------------------------------------------------------------------------
(***************************************************************************)
(* The steps of the scheduler.                                             *)
(***************************************************************************)
LEMMA ProtocolKept ==
    ASSUME Protocol, UNCHANGED <<mutex_vars, priority>>
    PROVE  Protocol'
BY DEF Protocol, Uncontended, Raised, Nested, Locking, Excluded, Held, mutex_vars

LEMMA SlotsKept ==
    ASSUME Slots, UNCHANGED <<os_tasks, owner>>
    PROVE  Slots'
BY DEF Slots

\* Making a task ready that exists, by a tick or a call.
LEMMA MakeReadyBits ==
    ASSUME Bits, NEW ps \in SUBSET Task, \A p \in ps : os_tasks[p] # NULL,
           MakeReady(ps), UNCHANGED <<os_tasks, owner>>
    PROVE  Bits'
BY MutexFacts DEF Bits, MakeReady, Held

\* Suspending a task by its own priority.
LEMMA SuspendBits ==
    ASSUME Bits, NEW p, p \notin Mutex, Suspend(p), UNCHANGED <<os_tasks, owner>>
    PROVE  Bits'
BY DEF Bits, Suspend, Held

\* What the ids clients use stand for.
ClientId == {OS_GET_TASK_ID_FROM_PRIORITY(t) : t \in Task \ {OS_TASK_IDLE}}

LEMMA ClientIds ==
    ASSUME NEW id \in ClientId
    PROVE  id \in TaskId /\ PriorityOf(id) \in Task /\ PriorityOf(id) \notin Mutex
<1>1. PICK t \in Task \ {OS_TASK_IDLE} : id = OS_GET_TASK_ID_FROM_PRIORITY(t)
  BY DEF ClientId
<1>2. t \in Priority \ {OS_TASK_IDLE}
  BY <1>1, ConstantFacts
<1> QED BY <1>1, <1>2, IdOfTask, MutexFacts

\* A caller that holds nothing is ready under its own priority.
LEMMA HoldsNothing ==
    ASSUME MutexInv, Executing, Held(os_task_current) = {}
    PROVE  /\ priority[os_task_current] = os_task_current
           /\ os_task_current \in os_ready_mask
           /\ os_tasks[os_task_current] = os_task_current
BY Executes

LEMMA MutexTypeKept ==
    ASSUME MutexInv, [Next]_vars, UNCHANGED mutex_vars
    PROVE  MutexTypeOK'
<1>1. Executing => priority[os_task_current] \in Priority \ {OS_TASK_IDLE}
  BY Executes DEF MutexInv, MutexTypeOK, TypeOK
<1>2. TypeOK'
  BY <1>1, TypeOKStep DEF MutexInv, MutexTypeOK
<1> QED BY <1>2 DEF MutexInv, MutexTypeOK, mutex_vars

\* An operation that leaves the protocol alone and ends in os_sched.
LEMMA Reschedules ==
    ASSUME MutexInv, [Next]_vars, UNCHANGED <<mutex_vars, priority, os_task_current>>,
           Slots', Bits', os_sched
    PROVE  MutexInv'
<1>1. MutexTypeOK'
  BY MutexTypeKept
<1>2. Protocol'
  BY ProtocolKept DEF MutexInv
<1> QED BY <1>1, <1>2, SchedChooses DEF MutexInv, Protocol

LEMMA TickStep ==
    ASSUME WellBehaved, MutexInv, UNCHANGED mutex_vars,
           NEW woken \in SUBSET AlarmTask, SysTick_Handler(woken)
    PROVE  MutexInv'
<1> DEFINE expired == {p \in os_delay_mask : ticks[os_tasks[p]] = 1}
<1>1. /\ MakeReady(expired \cup woken) /\ os_sched
      /\ UNCHANGED <<os_tasks, os_task_current, priority>>
      /\ \A p \in woken : os_tasks[p] # NULL
  BY DEF SysTick_Handler, os_tick, os_task_tick, WellBehaved, StartTarget
<1>2. /\ expired \cup woken \in SUBSET Task
      /\ \A p \in expired \cup woken : os_tasks[p] # NULL
  BY <1>1, MutexFacts, SlotsAssumption DEF MutexInv, Bits, MutexTypeOK, TypeOK
<1>3. Slots' /\ Bits'
  <2> HIDE DEF expired
  <2> QED BY <1>1, <1>2, SlotsKept, MakeReadyBits DEF MutexInv, mutex_vars
<1> QED BY <1>1, <1>3, Reschedules DEF Next, SysTick

LEMMA SwitchStep ==
    ASSUME MutexInv, UNCHANGED mutex_vars, PendSV_Handler
    PROVE  MutexInv'
<1>1. UNCHANGED <<os_task_next, os_tasks, os_ready_mask, os_delay_mask, priority, unsched>>
  BY DEF PendSV_Handler, masks
<1>2. MutexTypeOK' /\ Protocol' /\ Slots'
  BY <1>1, MutexTypeKept, ProtocolKept, SlotsKept DEF MutexInv, mutex_vars, Next
<1>3. Bits'
  BY <1>1 DEF MutexInv, Bits, Held, mutex_vars
<1>4. Chosen'
  BY <1>1 DEF MutexInv, Chosen, PendSV_Handler
<1> QED BY <1>2, <1>3, <1>4 DEF MutexInv

LEMMA CallStep ==
    ASSUME WellBehaved, MutexInv, KernelCall
    PROVE  MutexInv'
<1>0. MutexInv /\ Executing /\ UNCHANGED mutex_vars /\ UNCHANGED owner
  BY DEF KernelCall, Calling, mutex_vars
<1>1. ASSUME NEW id \in ClientId, os_task_start(id) PROVE MutexInv'
  <2>1. /\ id \in TaskId /\ PriorityOf(id) \in Task /\ PriorityOf(id) \notin Mutex
        /\ os_tasks[PriorityOf(id)] # NULL
        /\ MakeReady({PriorityOf(id)})
        /\ unsched' = unsched \cup {PriorityOf(id)}
        /\ UNCHANGED <<os_task_current, os_task_next, os_tasks, priority, pendsv>>
    BY <1>1, ClientIds DEF os_task_start, StartTarget, WellBehaved
  <2>2. MutexTypeOK' /\ Protocol' /\ Slots'
    BY <1>0, <1>1, <2>1, MutexTypeKept, ProtocolKept, SlotsKept DEF MutexInv, Next
  <2>3. Bits'
    BY <1>0, <2>1, MakeReadyBits DEF MutexInv
  <2>4. Chosen'
    BY <1>0, <2>1 DEF MutexInv, Chosen, MakeReady
  <2> QED BY <2>2, <2>3, <2>4 DEF MutexInv
<1>2. ASSUME NEW id \in ClientId, os_task_stop(id) PROVE MutexInv'
  <2>1. /\ id \in TaskId /\ PriorityOf(id) \notin Mutex
        /\ Suspend(PriorityOf(id)) /\ os_sched
        /\ UNCHANGED <<os_task_current, os_tasks, priority>>
    BY <1>2, ClientIds DEF os_task_stop
  <2>2. Slots' /\ Bits'
    BY <1>0, <2>1, SlotsKept, SuspendBits DEF MutexInv
  <2> QED BY <1>0, <1>2, <2>1, <2>2, Reschedules DEF Next
<1>3. ASSUME NEW id \in ClientId, os_task_release(id) PROVE MutexInv'
  <2>1. /\ id \in TaskId /\ PriorityOf(id) \in Task
        /\ os_tasks[PriorityOf(id)] # NULL
        /\ MakeReady({PriorityOf(id)}) /\ os_sched
        /\ UNCHANGED <<os_task_current, os_tasks, priority>>
    BY <1>3, ClientIds DEF os_task_release, StartTarget, WellBehaved
  <2>2. Slots' /\ Bits'
    BY <1>0, <2>1, SlotsKept, MakeReadyBits DEF MutexInv
  <2> QED BY <1>0, <1>3, <2>1, <2>2, Reschedules DEF Next
<1>4. ASSUME Held(os_task_current) = {}, os_task_delete PROVE MutexInv'
  <2>1. PICK t \in Task \ {OS_TASK_IDLE} : t = os_task_current /\ t \notin Mutex
    BY <1>0, Executes, MutexFacts
  <2>2. /\ Suspend(t) /\ os_sched
        /\ os_tasks' = [os_tasks EXCEPT ![t] = NULL]
        /\ UNCHANGED <<os_task_current, priority>>
    BY <1>0, <1>4, <2>1, HoldsNothing DEF os_task_delete
  <2>3. Slots'
    BY <1>0, <1>4, <2>1, <2>2, MutexFacts DEF MutexInv, MutexTypeOK, TypeOK, Slots
  <2>4. Bits'
    BY <1>0, <1>4, <2>1, <2>2, MutexFacts DEF MutexInv, MutexTypeOK, TypeOK, Bits, Suspend, Held
  <2> QED BY <1>0, <1>4, <2>2, <2>3, <2>4, Reschedules DEF Next
<1>5. ASSUME Held(os_task_current) = {}, NEW n \in Delays, os_delay(n) PROVE MutexInv'
  <2>1. PICK t \in Task \ {OS_TASK_IDLE} : t = os_task_current /\ t \notin Mutex
    BY <1>0, Executes, MutexFacts
  <2>2. /\ Sleep(t, n) /\ os_sched
        /\ UNCHANGED <<os_tasks, os_task_current, priority>>
        /\ os_tasks[t] # NULL
    BY <1>0, <1>5, <2>1, HoldsNothing, ConstantFacts DEF os_delay
  <2>3. Bits'
    BY <1>0, <1>5, <2>1, <2>2 DEF MutexInv, Bits, Sleep, Held
  <2> QED BY <1>0, <1>5, <2>2, <2>3, SlotsKept, Reschedules DEF Next, MutexInv
<1> QED BY <1>1, <1>2, <1>3, <1>4, <1>5 DEF KernelCall, ClientId, WellBehaved

-----------------------------------------------------------------------------
(***************************************************************************)
(* Locking and unlocking.                                                  *)
(***************************************************************************)

\* A caller that goes up to m finds it free: another owner would have kept it
\* from running, and its own mutexes are below its priority.
LEMMA FindsItFree ==
    ASSUME MutexInv, Executing, NEW m \in Mutex, priority[os_task_current] < m
    PROVE  /\ owner[m] = NULL
           /\ locks_nb[m] = 0
           /\ os_task_current < m
<1> USE MutexFacts
<1>1. PICK t \in Task : t = os_task_current
  BY Executes
<1>2. priority[t] \in Held(t) \cup {t} /\ \A n \in Held(t) : t < n /\ n <= priority[t]
  BY DEF MutexInv, Protocol, Raised
<1>3. t \in Int /\ priority[t] \in Int /\ m \in Int
  BY <1>2 DEF Held
<1>4. t < m
  <2>1. t <= priority[t]
    BY <1>2, <1>3
  <2> QED BY <1>1, <1>3, <2>1
<1>5. owner[m] # t
  BY <1>1, <1>2, <1>3 DEF Held
<1>6. owner[m] = NULL
  <2> SUFFICES ASSUME owner[m] # NULL PROVE FALSE
    OBVIOUS
  <2>1. os_task_current > m
    BY <1>1, <1>5, Excludes
  <2> QED BY <1>1, <1>3, <1>4, <2>1
<1>7. locks_nb[m] = 0
  BY <1>6 DEF MutexInv, Protocol, Uncontended
<1> QED BY <1>1, <1>4, <1>6, <1>7

LEMMA LockCheckStep ==
    ASSUME WellBehaved, MutexInv, NEW m \in Mutex, os_mutex_lock_check(m)
    PROVE  MutexInv'
<1>1. PICK t \in Task : t = os_task_current /\ priority[t] < m /\ owner[m] = NULL /\ locks_nb[m] = 0
  BY Executes, FindsItFree DEF os_mutex_lock_check, Calling, MayLock, WellBehaved
<1>2. priority[t] <= m
  BY <1>1, MutexFacts DEF MutexInv, MutexTypeOK, TypeOK, Priority
<1>3. /\ locking' = [locking EXCEPT ![t] = m]
      /\ UNCHANGED <<vars, owner, locks_nb, owner_priority, asserted>>
  BY <1>1, <1>2 DEF os_mutex_lock_check
<1>4. MutexTypeOK'
  BY <1>3 DEF MutexInv, MutexTypeOK, TypeOK, vars, masks
<1>5. Protocol'
  BY <1>1, <1>3 DEF MutexInv, MutexTypeOK, Protocol, Uncontended, Raised, Nested, Locking, Excluded,
                    Held, vars
<1>6. Slots' /\ Bits' /\ Chosen'
  BY <1>3 DEF MutexInv, Slots, Bits, Chosen, Held, vars, masks
<1> QED BY <1>4, <1>5, <1>6 DEF MutexInv

\* The critical section of os_mutex_lock takes the mutex.
LEMMA Takes ==
    ASSUME WellBehaved, MutexInv, NEW m \in Mutex, os_mutex_lock(m)
    PROVE  TakeMutex(m)
<1>1. Executing /\ os_task_current \in Task /\ locking[os_task_current] = m /\ m # NULL
  BY Executes, MutexFacts, NullAssumption DEF os_mutex_lock
<1>2. priority[os_task_current] < m
  BY <1>1 DEF MutexInv, Protocol, Locking
<1>3. owner[m] = NULL
  BY <1>1, <1>2, FindsItFree
<1>4. os_task_current # NULL
  BY <1>1, ConstantFacts
<1> QED BY <1>3, <1>4 DEF os_mutex_lock, TakeAgain, FailToTake

LEMMA LockStep ==
    ASSUME WellBehaved, MutexInv, NEW m \in Mutex, os_mutex_lock(m)
    PROVE  MutexInv'
<1> USE MutexFacts, ConstantFacts
<1>1. PICK t \in Task \ {OS_TASK_IDLE} : t = os_task_current
  BY Executes DEF os_mutex_lock
<1>2. /\ Executing /\ locking[t] = m
      /\ locking' = [locking EXCEPT ![t] = NULL]
      /\ UNCHANGED asserted
      /\ TakeMutex(m)
  BY <1>1, Takes DEF os_mutex_lock
<1>3. /\ owner' = [owner EXCEPT ![m] = t]
      /\ locks_nb' = [locks_nb EXCEPT ![m] = 1]
      /\ owner_priority' = [owner_priority EXCEPT ![m] = priority[t]]
      /\ priority' = [priority EXCEPT ![t] = m]
      /\ os_tasks' = [os_tasks EXCEPT ![m] = t]
      /\ MakeReady({m}) /\ os_sched
      /\ UNCHANGED <<os_task_current, ticks, os_tick_counter>>
  BY <1>1, <1>2 DEF TakeMutex
<1>4. priority[t] < m /\ t < m /\ owner[m] = NULL /\ priority[t] \in Priority
  <2>1. m # NULL
    BY NullAssumption
  <2>2. priority[t] < m
    BY <1>2, <2>1 DEF MutexInv, Protocol, Locking
  <2> QED BY <1>1, <1>2, <2>2, FindsItFree DEF MutexInv, MutexTypeOK, TypeOK
<1>5. /\ Held(t)' = Held(t) \cup {m}
      /\ \A u \in Task : u # t => Held(u)' = Held(u)
  BY <1>3, <1>4 DEF Held, MutexInv, MutexTypeOK
<1>6. MutexTypeOK'
  <2>1. m \in Priority \ {OS_TASK_IDLE}
    OBVIOUS
  <2>2. /\ os_tasks' \in [Priority -> Task \cup {NULL}]
        /\ priority' \in [Task -> Priority]
    BY <1>3, <2>1 DEF MutexInv, MutexTypeOK, TypeOK
  <2>3. TypeOK'
    BY <1>3, <2>1, <2>2, MakeReadyType, SchedType DEF MutexInv, MutexTypeOK, TypeOK
  <2>4. owner' \in [Mutex -> Task \cup {NULL}] /\ locks_nb' \in [Mutex -> 0 .. 255]
    BY <1>3 DEF MutexInv, MutexTypeOK
  <2>5. /\ owner_priority' \in [Mutex -> Priority]
        /\ locking' \in [Task -> Mutex \cup {NULL}]
        /\ asserted' \subseteq Task
    BY <1>2, <1>3, <1>4 DEF MutexInv, MutexTypeOK
  <2> QED BY <2>3, <2>4, <2>5 DEF MutexTypeOK
<1>7. Uncontended'
  BY <1>2, <1>3 DEF MutexInv, MutexTypeOK, Protocol, Uncontended
<1>8. Raised'
  <2>1. priority'[t] = m /\ \A u \in Task : u # t => priority'[u] = priority[u]
    BY <1>3 DEF MutexInv, MutexTypeOK, TypeOK
  <2>2. \A n \in Held(t) : t < n /\ n <= m
    BY <1>4 DEF MutexInv, Protocol, Raised, Held, Priority
  <2> SUFFICES ASSUME NEW u \in Task
               PROVE  /\ priority'[u] \in Held(u)' \cup {u}
                      /\ \A n \in Held(u)' : u < n /\ n <= priority'[u]
    BY DEF Raised
  <2>3. CASE u = t
    BY <1>4, <1>5, <2>1, <2>2, <2>3
  <2>4. CASE u # t
    BY <1>5, <2>1, <2>4 DEF MutexInv, Protocol, Raised
  <2> QED BY <2>3, <2>4
<1>9. Nested'
  <2>1. owner_priority'[m] = priority[t] /\ \A n \in Mutex : n # m => owner_priority'[n] = owner_priority[n]
    BY <1>3 DEF MutexInv, MutexTypeOK
  <2>2. priority[t] \in Held(t) \cup {t} /\ \A n \in Held(t) : n <= priority[t] /\ n < m /\ n # m
    BY <1>4 DEF MutexInv, Protocol, Raised, Held, Priority
  <2> SUFFICES ASSUME NEW u \in Task, NEW k \in Held(u)'
               PROVE  /\ owner_priority'[k] \in Held(u)' \cup {u}
                      /\ owner_priority'[k] < k
                      /\ \A n \in Held(u)' : n < k => n <= owner_priority'[k]
    BY DEF Nested
  <2>3. CASE u = t /\ k = m
    BY <1>4, <1>5, <2>1, <2>2, <2>3
  <2>4. CASE u = t /\ k # m
    <3>1. k \in Held(t) /\ k \in Mutex
      BY <1>5, <2>4 DEF Held
    <3>2. owner_priority'[k] = owner_priority[k]
      BY <2>1, <2>4, <3>1
    <3>3. \A n \in Held(t)' : n < k => n \in Held(t)
      BY <1>5, <2>2, <3>1
    <3> QED BY <1>5, <2>4, <3>1, <3>2, <3>3 DEF MutexInv, Protocol, Nested
  <2>5. CASE u # t
    <3>1. k \in Held(u) /\ Held(u)' = Held(u) /\ k # m /\ k \in Mutex
      BY <1>3, <1>4, <1>5, <2>5 DEF Held
    <3> QED BY <2>1, <3>1 DEF MutexInv, Protocol, Nested
  <2> QED BY <2>3, <2>4, <2>5
<1>10. Locking'
  BY <1>2, <1>3 DEF MutexInv, MutexTypeOK, TypeOK, Protocol, Locking
<1>11. Excluded'
  <2> SUFFICES ASSUME NEW k \in Mutex, NEW n \in Mutex, owner'[k] # NULL, owner'[n] # NULL,
                      owner'[k] # owner'[n], k < n
               PROVE  owner'[n] > k
    BY DEF Excluded
  <2>1. owner'[m] = t /\ \A j \in Mutex : j # m => owner'[j] = owner[j]
    BY <1>3 DEF MutexInv, MutexTypeOK
  <2>2. CASE n = m
    <3>1. owner[k] \notin {NULL, os_task_current} /\ owner'[n] = t
      BY <1>1, <2>1, <2>2
    <3> QED BY <1>1, <1>2, <3>1, Excludes
  <2>3. CASE k = m
    <3>1. owner[n] \notin {NULL, os_task_current}
      BY <1>1, <2>1, <2>3
    <3>2. t > n
      BY <1>1, <1>2, <3>1, Excludes
    <3> QED BY <1>4, <2>3, <3>2
  <2>4. CASE k # m /\ n # m
    BY <2>1, <2>4 DEF MutexInv, Protocol, Excluded
  <2> QED BY <2>2, <2>3, <2>4
<1>12. Slots'
  BY <1>3 DEF MutexInv, MutexTypeOK, TypeOK, Slots
<1>13. Bits'
  <2>1. t \notin os_delay_mask
    <3>1. CASE Held(t) = {}
      BY <1>1, <1>2, <3>1, HoldsNothing DEF MutexInv, Bits
    <3>2. CASE Held(t) # {}
      BY <3>2 DEF MutexInv, Bits
    <3> QED BY <3>1, <3>2
  <2>2. os_ready_mask' = os_ready_mask \cup {m} /\ os_delay_mask' = os_delay_mask \ {m}
    BY <1>3 DEF MakeReady
  <2>3. \A p \in os_delay_mask' : p \in Task /\ Held(p)' = {}
    BY <1>5, <2>1, <2>2 DEF MutexInv, MutexTypeOK, TypeOK, Bits
  <2> QED BY <1>3, <2>2, <2>3 DEF MutexInv, MutexTypeOK, TypeOK, Bits
<1>14. Chosen'
  BY <1>3, <1>6, <1>8, <1>12, <1>13, SchedChooses
<1> QED BY <1>6, <1>7, <1>8, <1>9, <1>10, <1>11, <1>12, <1>13, <1>14 DEF MutexInv, Protocol

LEMMA UnlockStep ==
    ASSUME WellBehaved, MutexInv, NEW m \in Mutex, os_mutex_unlock(m)
    PROVE  MutexInv'
<1> USE MutexFacts, ConstantFacts
<1>1. PICK t \in Task \ {OS_TASK_IDLE} : t = os_task_current
  BY Executes DEF os_mutex_unlock, Calling
<1>2. /\ owner[m] = t /\ priority[t] = m /\ locking[t] = NULL
      /\ locks_nb[m] = 1
  BY <1>1 DEF os_mutex_unlock, Calling, MayUnlock, WellBehaved, MutexInv, Protocol, Uncontended
<1>3. /\ owner' = [owner EXCEPT ![m] = NULL]
      /\ locks_nb' = [locks_nb EXCEPT ![m] = 0]
      /\ priority' = [priority EXCEPT ![t] = owner_priority[m]]
      /\ Suspend(m) /\ os_sched
      /\ UNCHANGED <<os_task_current, os_tasks, ticks, os_tick_counter,
                     owner_priority, locking, asserted>>
  <2>1. ~ KeepMutex(m)
    BY <1>2 DEF KeepMutex
  <2>2. ReleaseMutex(m) /\ locks_nb' = [locks_nb EXCEPT ![m] = locks_nb[m] - 1]
    BY <1>1, <1>2, <2>1 DEF os_mutex_unlock
  <2>3. UNCHANGED <<owner_priority, locking, asserted>>
    BY <1>1, <1>2 DEF os_mutex_unlock
  <2> QED BY <1>1, <1>2, <2>2, <2>3 DEF ReleaseMutex
<1>4. /\ m \in Held(t)
      /\ Held(t)' = Held(t) \ {m}
      /\ \A u \in Task : u # t => Held(u)' = Held(u)
  BY <1>2, <1>3 DEF Held, MutexInv, MutexTypeOK
<1>5. /\ owner_priority[m] \in Held(t) \cup {t}
      /\ owner_priority[m] < m
      /\ owner_priority[m] \in Priority
      /\ \A n \in Held(t) : n < m => n <= owner_priority[m]
  BY <1>4 DEF MutexInv, MutexTypeOK, Protocol, Nested
<1>6. MutexTypeOK'
  <2>1. priority' \in [Task -> Priority]
    BY <1>3, <1>5 DEF MutexInv, MutexTypeOK, TypeOK
  <2>2. TypeOK'
    BY <1>3, <2>1, SuspendType, SchedType DEF MutexInv, MutexTypeOK, TypeOK
  <2> QED BY <1>3, <2>2 DEF MutexInv, MutexTypeOK
<1>7. Uncontended'
  BY <1>3 DEF MutexInv, MutexTypeOK, Protocol, Uncontended
<1>8. Raised'
  <2>1. priority'[t] = owner_priority[m] /\ \A u \in Task : u # t => priority'[u] = priority[u]
    BY <1>3 DEF MutexInv, MutexTypeOK, TypeOK
  <2>2. \A n \in Held(t) : t < n /\ n <= m
    BY <1>2 DEF MutexInv, Protocol, Raised
  <2>3. \A n \in Held(t)' : n \in Int /\ n < m
    BY <1>4, <2>2 DEF Held
  <2> SUFFICES ASSUME NEW u \in Task
               PROVE  /\ priority'[u] \in Held(u)' \cup {u}
                      /\ \A n \in Held(u)' : u < n /\ n <= priority'[u]
    BY DEF Raised
  <2>4. CASE u = t
    <3>1. owner_priority[m] # m
      BY <1>5
    <3> QED BY <1>4, <1>5, <2>1, <2>2, <2>3, <2>4, <3>1
  <2>5. CASE u # t
    BY <1>4, <2>1, <2>5 DEF MutexInv, Protocol, Raised
  <2> QED BY <2>4, <2>5
<1>9. Nested'
  <2> SUFFICES ASSUME NEW u \in Task, NEW k \in Held(u)'
               PROVE  /\ owner_priority[k] \in Held(u)' \cup {u}
                      /\ owner_priority[k] < k
                      /\ \A n \in Held(u)' : n < k => n <= owner_priority[k]
    BY <1>3 DEF Nested
  <2>1. /\ k \in Held(u)
        /\ Held(u)' \subseteq Held(u)
    BY <1>4
  <2>2. /\ owner_priority[k] \in Held(u) \cup {u}
        /\ owner_priority[k] < k
        /\ \A n \in Held(u) : n < k => n <= owner_priority[k]
    BY <2>1 DEF MutexInv, Protocol, Nested
  <2>3. CASE u = t
    <3>1. k <= m /\ k \in Int /\ m \in Int
      BY <1>2, <2>1, <2>3 DEF MutexInv, Protocol, Raised, Held
    <3>2. owner_priority[k] \in Int
      BY <2>1 DEF MutexInv, MutexTypeOK, Held
    <3>3. owner_priority[k] # m
      BY <2>2, <3>1, <3>2
    <3> QED BY <1>4, <2>1, <2>2, <2>3, <3>3
  <2>4. CASE u # t
    BY <1>4, <2>2, <2>4
  <2> QED BY <2>3, <2>4
<1>10. Locking'
  BY <1>2, <1>3 DEF MutexInv, MutexTypeOK, TypeOK, Protocol, Locking
<1>11. Excluded'
  <2> SUFFICES ASSUME NEW k \in Mutex, NEW n \in Mutex, owner'[k] # NULL, owner'[n] # NULL,
                      owner'[k] # owner'[n], k < n
               PROVE  owner'[n] > k
    BY DEF Excluded
  <2>1. owner'[k] = owner[k] /\ owner'[n] = owner[n]
    BY <1>3 DEF MutexInv, MutexTypeOK
  <2> QED BY <2>1 DEF MutexInv, Protocol, Excluded
<1>12. Slots'
  BY <1>3 DEF MutexInv, MutexTypeOK, Slots
<1>13. Bits'
  <2>1. os_ready_mask' = os_ready_mask \ {m} /\ os_delay_mask' = os_delay_mask \ {m}
    BY <1>3 DEF Suspend
  <2>2. \A p \in os_delay_mask' : Held(p)' = {}
    BY <1>3, <2>1, NullAssumption DEF MutexInv, MutexTypeOK, TypeOK, Bits, Held
  <2> QED BY <1>3, <2>1, <2>2 DEF MutexInv, MutexTypeOK, Bits
<1>14. Chosen'
  BY <1>3, <1>6, <1>8, <1>12, <1>13, SchedChooses
<1> QED BY <1>6, <1>7, <1>8, <1>9, <1>10, <1>11, <1>12, <1>13, <1>14 DEF MutexInv, Protocol

-----------------------------------------------------------------------------
(***************************************************************************)
(* The invariant, and what follows from it.                                *)
(***************************************************************************)
LEMMA MutexInvInit == MutexInit => MutexInv
<1> USE MutexFacts, ConstantFacts, NullAssumption
<1> SUFFICES ASSUME MutexInit PROVE MutexInv
  OBVIOUS
<1>1. TypeOK /\ Init
  BY TypeInit DEF MutexInit, TypeInv
<1>2. 0 \in Priority
  BY DEF OS_TASK_IDLE
<1>3. MutexTypeOK
  BY <1>1, <1>2 DEF MutexInit, MutexTypeOK
<1>4. \A t \in Task : Held(t) = {}
  BY DEF MutexInit, Held
<1>5. Protocol
  BY <1>4 DEF MutexInit, Init, Protocol, Uncontended, Raised, Nested, Locking, Excluded
<1>6. AutoStart \subseteq Task /\ AutoStart \cap Mutex = {}
  BY SlotsAssumption DEF Mutex
<1>7. Slots
  BY DEF MutexInit, Init, Slots, Mutex
<1>8. Bits
  BY <1>6 DEF MutexInit, Init, Bits, Mutex
<1>9. Chosen
  BY <1>6 DEF MutexInit, Init, Chosen
<1> QED BY <1>3, <1>5, <1>7, <1>8, <1>9 DEF MutexInv

LEMMA MutexInvStep ==
    ASSUME WellBehaved, MutexInv, [MutexNext]_all_vars
    PROVE  MutexInv'
<1>1. CASE PendSV_Handler /\ UNCHANGED mutex_vars
  BY <1>1, SwitchStep
<1>2. CASE SysTick /\ UNCHANGED mutex_vars
  BY <1>2, TickStep DEF SysTick
<1>3. CASE KernelCall
  BY <1>3, CallStep
<1>4. ASSUME NEW m \in Mutex, os_mutex_lock_check(m) \/ os_mutex_lock(m) \/ os_mutex_unlock(m)
      PROVE  MutexInv'
  BY <1>4, LockCheckStep, LockStep, UnlockStep
<1>5. CASE UNCHANGED all_vars
  BY <1>5 DEF all_vars, vars, mutex_vars, masks, MutexInv, MutexTypeOK, TypeOK, Protocol, Uncontended,
              Raised, Nested, Locking, Excluded, Slots, Bits, Chosen, Held
<1> QED BY <1>1, <1>2, <1>3, <1>4, <1>5 DEF MutexNext

LEMMA MutexInvariant ==
    ASSUME WellBehaved
    PROVE  MutexSpec => []MutexInv
<1>1. MutexInit => MutexInv
  BY MutexInvInit
<1>2. MutexInv /\ [MutexNext]_all_vars => MutexInv'
  BY MutexInvStep
<1> QED BY <1>1, <1>2, PTL DEF MutexSpec

\* Owners, saved priorities and the masks keep their types, and nothing counts
\* past the uint8_t of locks_nb.
THEOREM MutexTypeCorrect ==
    ASSUME WellBehaved
    PROVE  MutexSpec => []MutexTypeOK
<1>1. MutexInv => MutexTypeOK
  BY DEF MutexInv
<1> QED BY <1>1, MutexInvariant, PTL

\* No assertion of os_mutex_lock or os_mutex_unlock ever fails (mutex.c:105-112,
\* :197-199), however many tasks and mutexes the configuration has.
THEOREM AssertionsHold ==
    ASSUME WellBehaved
    PROVE  MutexSpec => []NoAssertionFails
<1>1. MutexInv => NoAssertionFails
  BY DEF MutexInv, Protocol, Uncontended, NoAssertionFails
<1> QED BY <1>1, MutexInvariant, PTL

\* While a mutex is held, nothing executes but its owner and tasks configured
\* above its ceiling.
THEOREM CeilingsExclude ==
    ASSUME WellBehaved
    PROVE  MutexSpec => []CeilingExcludes
<1>1. MutexInv => CeilingExcludes
  BY Excludes DEF CeilingExcludes
<1> QED BY <1>1, MutexInvariant, PTL

\* The active priority of a task is the highest ceiling it holds, or its own.
THEOREM PrioritiesAreCeilings ==
    ASSUME WellBehaved
    PROVE  MutexSpec => []PriorityIsCeiling
<1>1. MutexInv => PriorityIsCeiling
  <2> USE MutexFacts
  <2> SUFFICES ASSUME MutexInv, NEW t \in Task
               PROVE  priority[t] = OS_GET_HIGHEST_PRIO_TASK_FROM_MASK(Held(t) \cup {t})
    BY DEF PriorityIsCeiling
  <2> DEFINE raised == Held(t) \cup {t}
             h == OS_GET_HIGHEST_PRIO_TASK_FROM_MASK(raised)
  <2>1. raised \subseteq Priority /\ raised \subseteq Int /\ raised # {}
    BY DEF Held
  <2>2. h \in raised /\ \A q \in raised : q <= h
    <3> HIDE DEF raised
    <3> QED BY <2>1, HighestBit
  <2>3. priority[t] \in raised /\ \A q \in raised : q <= priority[t]
    BY <2>1 DEF MutexInv, Protocol, Raised
  <2> HIDE DEF raised, h
  <2>4. h \in Int /\ priority[t] \in Int /\ h <= priority[t] /\ priority[t] <= h
    BY <2>1, <2>2, <2>3
  <2>5. priority[t] = h
    BY <2>4
  <2> QED BY <2>5 DEF raised, h
<1> QED BY <1>1, MutexInvariant, PTL

\* At most one task below h holds mutexes whose ceilings reach above h.
THEOREM BlockedAtMostOnceAlways ==
    ASSUME WellBehaved
    PROVE  MutexSpec => []BlockedAtMostOnce
<1>1. MutexInv => BlockedAtMostOnce
  <2> USE MutexFacts, ConstantFacts
  <2> SUFFICES ASSUME MutexInv, NEW h \in Task, NEW s \in Task, NEW t \in Task,
                      NEW m \in Mutex, NEW n \in Mutex,
                      s < h, t < h, m > h, n > h, owner[m] = s, owner[n] = t, s # t
               PROVE  FALSE
    BY DEF BlockedAtMostOnce
  <2>1. s # NULL /\ t # NULL /\ m # n
    BY Zenon
  <2>2. m < n \/ n < m
    BY <2>1
  <2>3. (m < n => t > m) /\ (n < m => s > n)
    BY <2>1 DEF MutexInv, Protocol, Excluded
  <2> QED BY <2>2, <2>3
<1> QED BY <1>1, MutexInvariant, PTL

\* The scheduler keeps its own promise while owners run above their priority.
THEOREM MutexRightTaskRuns ==
    ASSUME WellBehaved
    PROVE  MutexSpec => []RightTaskRuns
<1>1. MutexInv => RunningIsReady
  BY Executes DEF RunningIsReady
<1>2. MutexInv => NoPriorityInversion
  BY DEF MutexInv, MutexTypeOK, TypeOK, Chosen, NoPriorityInversion
<1> QED BY <1>1, <1>2, MutexInvariant, PTL DEF RightTaskRuns

\* The handlers stay safe: a sleeping task is never reached through a ceiling.
THEOREM MutexHandlersSafe ==
    ASSUME WellBehaved
    PROVE  MutexSpec => []HandlersSafe
<1>1. MutexInv => HandlersSafe
  <2> SUFFICES ASSUME MutexInv PROVE HandlersSafe
    OBVIOUS
  <2>1. pendsv => os_task_next # NULL
    BY DEF MutexInv, Chosen
  <2>2. ASSUME NEW p \in os_delay_mask
        PROVE  os_tasks[p] # NULL /\ priority[os_tasks[p]] = p
    <3>1. p \in Task /\ os_tasks[p] = p /\ os_tasks[p] # NULL
      BY MutexFacts, SlotsAssumption DEF MutexInv, MutexTypeOK, TypeOK, Bits, Slots
    <3>2. priority[p] = p
      BY <3>1 DEF MutexInv, Protocol, Raised, Bits
    <3> QED BY <3>1, <3>2
  <2> QED BY <2>1, <2>2 DEF HandlersSafe, TickLoopEnds
<1> QED BY <1>1, MutexInvariant, PTL

\* A task that passed the assertions gets the mutex in the critical section.
THEOREM LockSucceedsAlways ==
    ASSUME WellBehaved
    PROVE  MutexSpec => LockSucceeds
<1> DEFINE Succeeds == \A t \in Task : locking[t] # NULL /\ locking'[t] = NULL
                                          => owner'[locking[t]] = t
<1>1. ASSUME MutexInv, [MutexNext]_all_vars PROVE [Succeeds]_all_vars
  <2> SUFFICES ASSUME NEW t \in Task, locking[t] # NULL, locking'[t] = NULL
               PROVE  owner'[locking[t]] = t
    OBVIOUS
  <2>1. PICK m \in Mutex : os_mutex_lock_check(m) \/ os_mutex_lock(m)
    BY <1>1 DEF MutexNext, KernelCall, mutex_vars, all_vars, os_mutex_unlock,
                BEERTOS_ASSERT_ERROR_HANDLER
  <2>2. m # NULL
    BY MutexFacts, NullAssumption
  <2>3. os_mutex_lock(m)
    BY <1>1, <2>1, <2>2 DEF os_mutex_lock_check, BEERTOS_ASSERT_ERROR_HANDLER, MutexInv, MutexTypeOK
  <2>4. t = os_task_current /\ locking[t] = m
    BY <1>1, <2>3 DEF os_mutex_lock, MutexInv, MutexTypeOK
  <2>5. owner' = [owner EXCEPT ![m] = t]
    BY <1>1, <2>3, <2>4, Takes DEF TakeMutex
  <2> QED BY <1>1, <2>4, <2>5 DEF MutexInv, MutexTypeOK
<1> QED BY <1>1, MutexInvariant, PTL DEF MutexSpec, LockSucceeds

\* After a delete no ready bit leads to the deleted task, a ceiling's least of all.
THEOREM DeleteRemovesTaskAlways ==
    ASSUME WellBehaved
    PROVE  MutexSpec => DeleteRemovesTask
<1> DEFINE Removes == \A p \in Priority : os_tasks[p] # NULL /\ os_tasks'[p] = NULL
                         => \A q \in os_ready_mask' : os_tasks'[q] # os_tasks[p]
<1>1. ASSUME MutexInv, [MutexNext]_all_vars PROVE [Removes]_all_vars
  <2> USE MutexFacts, ConstantFacts
  <2> SUFFICES ASSUME NEW p \in Priority, os_tasks[p] # NULL, os_tasks'[p] = NULL,
                      NEW q \in os_ready_mask', os_tasks'[q] = os_tasks[p]
               PROVE  FALSE
    OBVIOUS
  <2>1. \A m \in Mutex : ~ os_mutex_lock(m)
    <3> SUFFICES ASSUME NEW m \in Mutex, os_mutex_lock(m) PROVE FALSE
      OBVIOUS
    <3>1. os_tasks' = [os_tasks EXCEPT ![m] = os_task_current] /\ os_task_current \in Task
      BY <1>1, Takes, Executes DEF TakeMutex, os_mutex_lock
    <3> QED BY <1>1, <3>1 DEF MutexInv, MutexTypeOK, TypeOK
  <2>2. Executing /\ UNCHANGED mutex_vars /\ Held(os_task_current) = {} /\ os_task_delete
    <3>1. os_tasks' # os_tasks
      OBVIOUS
    <3> QED BY <1>1, <2>1, <3>1
          DEF MutexNext, all_vars, vars, KernelCall, Calling, WellBehaved, PendSV_Handler, SysTick,
              SysTick_Handler, os_task_start, os_task_stop, os_task_release, os_delay,
              os_mutex_lock_check, BEERTOS_ASSERT_ERROR_HANDLER, os_mutex_unlock, ReleaseMutex,
              KeepMutex
  <2>3. PICK t \in Task : t = os_task_current /\ os_tasks[t] = t /\ priority[t] = t
    BY <1>1, <2>2, HoldsNothing, Executes
  <2>4. os_tasks' = [os_tasks EXCEPT ![t] = NULL]
    BY <2>2, <2>3 DEF os_task_delete
  <2>5. p = t
    BY <1>1, <2>4 DEF MutexInv, MutexTypeOK, TypeOK
  <2>6. MutexInv'
    BY <1>1, MutexInvStep
  <2>7. q \in Priority /\ q # t
    BY <2>3, <2>4, <2>5, <2>6, <1>1 DEF MutexInv, MutexTypeOK, TypeOK
  <2>8. CASE q \in Task
    <3>1. os_tasks'[q] \in {q, NULL}
      BY <2>6, <2>8 DEF MutexInv, Slots
    <3> QED BY <2>3, <2>5, <2>7, <3>1
  <2>9. CASE q \in Mutex
    <3>1. owner'[q] = t
      BY <2>3, <2>5, <2>6, <2>9 DEF MutexInv, Slots, Bits
    <3>2. owner[q] = t
      BY <2>2, <3>1 DEF mutex_vars
    <3> QED BY <2>2, <2>3, <2>9, <3>2 DEF Held
  <2> QED BY <2>7, <2>8, <2>9
<1> QED BY <1>1, MutexInvariant, PTL DEF MutexSpec, DeleteRemovesTask

-----------------------------------------------------------------------------
(***************************************************************************)
(* Time.  A task that sleeps holds no mutex, so it is in its own slot.     *)
(***************************************************************************)
LEMMA MutexSleepers == (MutexInv => Sleepers) /\ (MutexInv' => Sleepers')
<1>1. MutexInv => Sleepers
  <2> SUFFICES ASSUME MutexInv, NEW p \in os_delay_mask
               PROVE  p \in Task /\ os_tasks[p] = p /\ p \notin os_ready_mask
    BY DEF Sleepers, MutexInv, MutexTypeOK
  <2>1. p \in Task
    BY MutexFacts DEF MutexInv, MutexTypeOK, TypeOK, Bits
  <2> QED BY <2>1 DEF MutexInv, Bits, Slots
<1> QED BY <1>1, PTL

\* What no call but os_delay does: put a bit into the delay mask.
LEMMA CallsWake ==
    ASSUME MutexInv,
           \/ PendSV_Handler \/ os_task_delete
           \/ \E id \in ClientId : os_task_start(id) \/ os_task_stop(id) \/ os_task_release(id)
           \/ \E m \in Mutex : TakeMutex(m) \/ ReleaseMutex(m)
           \/ UNCHANGED vars
    PROVE  /\ os_delay_mask' \subseteq os_delay_mask
           /\ \A p \in os_delay_mask' : wake'[p] = wake[p]
           /\ UNCHANGED <<ticks, os_tick_counter>>
<1>1. os_delay_mask \subseteq Priority
  BY DEF MutexInv, MutexTypeOK, TypeOK
<1> QED BY <1>1 DEF PendSV_Handler, masks, os_task_delete, os_task_start, os_task_stop,
             os_task_release, TakeMutex, ReleaseMutex, MakeReady, Suspend, vars

LEMMA MutexDelayStep ==
    ASSUME WellBehaved, MutexInv, MutexInv', DelayCounts, [MutexNext]_all_vars
    PROVE  DelayCounts'
<1> USE MutexSleepers
<1>1. CASE SysTick
  <2>1. os_tick_counter' # os_tick_counter
    BY <1>1, TickMoves DEF MutexInv, MutexTypeOK
  <2>2. DelaysItself
    BY <2>1 DEF DelaysItself, os_delay
  <2> QED BY <1>1, <2>2, SleepStep DEF Next
<1>2. ASSUME NEW n \in Delays, KernelCall, Held(os_task_current) = {}, os_delay(n)
      PROVE  DelayCounts'
  <2>1. DelaysItself
    BY <1>2, HoldsNothing, Executes DEF DelaysItself, os_delay
  <2> QED BY <1>2, <2>1, SleepStep DEF Next
<1>3. CASE \/ PendSV_Handler \/ os_task_delete
           \/ \E id \in ClientId : os_task_start(id) \/ os_task_stop(id) \/ os_task_release(id)
           \/ \E m \in Mutex : TakeMutex(m) \/ ReleaseMutex(m)
           \/ UNCHANGED vars
  BY <1>3, CallsWake, FewerDelays
<1>4. ASSUME NEW m \in Mutex, os_mutex_lock_check(m) \/ os_mutex_lock(m) \/ os_mutex_unlock(m)
      PROVE  DelayCounts'
  BY <1>3, <1>4, Takes DEF os_mutex_lock_check, os_mutex_unlock, KeepMutex,
                           BEERTOS_ASSERT_ERROR_HANDLER
<1>5. CASE KernelCall
  BY <1>2, <1>3, <1>5 DEF KernelCall, ClientId, WellBehaved
<1> QED BY <1>1, <1>3, <1>4, <1>5 DEF MutexNext, all_vars

LEMMA MutexPendedStep ==
    ASSUME PendedIsDecided, [MutexNext]_all_vars
    PROVE  PendedIsDecided'
<1>1. CASE [Next]_vars
  BY <1>1, PendedStep
<1>2. CASE os_sched
  BY <1>2 DEF os_sched, PendedIsDecided
<1>3. CASE KernelCall
  BY <1>3 DEF KernelCall, PendedIsDecided, os_sched, os_task_start, os_task_stop,
              os_task_release, os_task_delete, os_delay, Executing
<1>4. ASSUME NEW m \in Mutex, os_mutex_lock_check(m) \/ os_mutex_lock(m) \/ os_mutex_unlock(m)
      PROVE  PendedIsDecided'
  BY <1>1, <1>2, <1>4 DEF os_mutex_lock_check, os_mutex_lock, os_mutex_unlock, TakeMutex,
             TakeAgain, FailToTake, ReleaseMutex, KeepMutex, BEERTOS_ASSERT_ERROR_HANDLER
<1> QED BY <1>1, <1>3, <1>4 DEF MutexNext, Next, all_vars

MutexTimed == MutexInv /\ DelayCounts /\ PendedIsDecided

LEMMA MutexTimedInvariant ==
    ASSUME WellBehaved
    PROVE  MutexSpec => []MutexTimed
<1>1. MutexInit => MutexTimed
  BY MutexInvInit DEF MutexInit, Init, MutexTimed, DelayCounts, PendedIsDecided
<1>2. MutexTimed /\ [MutexNext]_all_vars => MutexTimed'
  BY MutexInvStep, MutexDelayStep, MutexPendedStep DEF MutexTimed
<1> QED BY <1>1, <1>2, PTL DEF MutexSpec

\* While tasks hold mutexes and run in other slots than their own, every delay
\* still has as many ticks left as the clock has to its due time.
THEOREM MutexDelayCounts ==
    ASSUME WellBehaved
    PROVE  MutexSpec => []DelayCounts
<1>1. MutexTimed => DelayCounts
  BY DEF MutexTimed
<1> QED BY <1>1, MutexTimedInvariant, PTL

\* Each tick ends exactly the delays that are due at it, whoever is raised to
\* which ceiling meanwhile.
THEOREM MutexDelaysEndOnTime ==
    ASSUME WellBehaved
    PROVE  MutexSpec => DelayEndsOnTime
<1>1. ASSUME MutexTimed, [MutexNext]_all_vars PROVE [DelaysEndOnTime]_vars
  <2>1. CASE SysTick
    BY <1>1, <2>1, OnTimeStep, MutexSleepers DEF MutexTimed, Next
  <2>2. CASE ~SysTick
    <3>1. os_tick_counter' = os_tick_counter
      BY <1>1, <2>2 DEF MutexNext, KernelCall, all_vars, vars, PendSV_Handler, os_task_start,
         os_task_stop, os_task_release, os_task_delete, os_delay, os_mutex_lock_check,
         os_mutex_lock, os_mutex_unlock, TakeMutex, TakeAgain, FailToTake, ReleaseMutex,
         KeepMutex, BEERTOS_ASSERT_ERROR_HANDLER
    <3> QED BY <3>1 DEF DelaysEndOnTime
  <2> QED BY <2>1, <2>2
<1> QED BY <1>1, MutexTimedInvariant, PTL DEF MutexSpec, DelayEndsOnTime, DelaysEndOnTime

-----------------------------------------------------------------------------
(***************************************************************************)
(* BeeRTOS_mutex implements CeilingScheduler.  First, what the bits and    *)
(* priorities are there for: the highest bit leads to the task that the    *)
(* ceiling protocol calls most urgent.                                     *)
(***************************************************************************)
Urgencies ==
    \A t \in Task : /\ Ceiling!Holds(t) = Held(t)
                    /\ Ceiling!Urgency(t) = priority[t]

LEMMA UrgencyIsPriority == MutexInv => Urgencies
<1> USE MutexFacts, ConstantFacts
<1> SUFFICES ASSUME MutexInv, NEW t \in Task
             PROVE  Ceiling!Holds(t) = Held(t) /\ Ceiling!Urgency(t) = priority[t]
  BY DEF Urgencies
<1>1. Ceiling!Holds(t) = Held(t)
  BY DEF Ceiling!Holds, Held
<1>2. PICK set : set = {t} \cup Held(t)
  OBVIOUS
<1>3. /\ priority[t] \in set /\ \A q \in set : q <= priority[t]
      /\ set \subseteq Int
  <2>1. /\ priority[t] \in Held(t) \cup {t}
        /\ \A m \in Held(t) : t < m /\ m <= priority[t]
    BY DEF MutexInv, Protocol, Raised
  <2>2. set \subseteq Int
    BY <1>2 DEF Held
  <2>3. t <= priority[t]
    <3>1. t \in Int /\ priority[t] \in Int
      BY <1>2, <2>1, <2>2
    <3>2. CASE priority[t] = t
      BY <3>1, <3>2
    <3>3. CASE priority[t] \in Held(t)
      BY <2>1, <3>1, <3>3
    <3> QED BY <2>1, <3>2, <3>3
  <2> QED BY <1>2, <2>1, <2>2, <2>3
<1>4. Ceiling!Best(set) = CHOOSE p \in set : \A q \in set : q <= p
  BY <1>3 DEF Ceiling!Best
<1>5. ASSUME NEW p \in set, \A q \in set : q <= p PROVE p = priority[t]
  <2>1. p <= priority[t] /\ priority[t] <= p /\ p \in Int /\ priority[t] \in Int
    BY <1>3, <1>5
  <2> QED BY <2>1
<1>6. Ceiling!Best(set) = priority[t]
  BY <1>3, <1>4, <1>5
<1> QED BY <1>1, <1>2, <1>6 DEF Ceiling!Urgency

\* A task that is ready or holds a mutex has the bit of its priority set.
EligibleBits ==
    /\ Ceiling!Eligible \subseteq Task
    /\ \A t \in Ceiling!Eligible : priority[t] \in os_ready_mask
    /\ \A t \in (os_ready_mask \ Mutex) \cup Ceiling!Holders :
          t \notin unsched \/ t \in Ceiling!Holders => priority[t] \in os_ready_mask \ unsched
    /\ \A t, u \in Ceiling!Eligible : priority[t] = priority[u] => t = u

LEMMA EligibleAreReady == MutexInv => EligibleBits
<1> USE MutexFacts, ConstantFacts
<1> SUFFICES ASSUME MutexInv PROVE EligibleBits
  OBVIOUS
<1>1. /\ Ceiling!Worker = Task
      /\ \A t \in Task : Ceiling!Holds(t) = Held(t)
  BY UrgencyIsPriority DEF Ceiling!Worker, Task, Priority, Mutex, Urgencies
<1>2. Ceiling!Holders = {t \in Task : Held(t) # {}}
  BY <1>1 DEF Ceiling!Holders
<1>3. Ceiling!Eligible \subseteq Task
  BY <1>2 DEF Ceiling!Eligible, MutexInv, MutexTypeOK, TypeOK
<1>4. ASSUME NEW t \in Task, Held(t) # {}
      PROVE  priority[t] \in Mutex /\ owner[priority[t]] = t /\ priority[t] \in os_ready_mask \ unsched
  <2>1. PICK m \in Mutex : m \in Held(t)
    BY <1>4 DEF Held
  <2>2. priority[t] # t
    BY <2>1 DEF MutexInv, Protocol, Raised
  <2>3. priority[t] \in Mutex /\ owner[priority[t]] = t
    BY <2>2 DEF MutexInv, Protocol, Raised, Held
  <2> QED BY <2>3 DEF MutexInv, Bits, Chosen
<1>5. \A t \in Task : Held(t) = {} => priority[t] = t
  BY DEF MutexInv, Protocol, Raised
<1>6. \A t \in Ceiling!Eligible : t \in Task /\ (Held(t) = {} => t \in os_ready_mask)
  BY <1>2, <1>3 DEF Ceiling!Eligible
<1>7. ASSUME NEW t \in Ceiling!Eligible PROVE priority[t] \in os_ready_mask
  <2>1. CASE Held(t) = {}
    BY <1>5, <1>6, <2>1, Zenon
  <2>2. CASE Held(t) # {}
    BY <1>4, <1>6, <2>2
  <2> QED BY <2>1, <2>2
<1>8. ASSUME NEW t \in (os_ready_mask \ Mutex) \cup Ceiling!Holders,
             t \notin unsched \/ t \in Ceiling!Holders
      PROVE  priority[t] \in os_ready_mask \ unsched
  <2>1. t \in Task
    BY <1>2 DEF MutexInv, MutexTypeOK, TypeOK
  <2> QED BY <1>2, <1>4, <1>5, <1>8, <2>1
<1>9. ASSUME NEW t \in Ceiling!Eligible, NEW u \in Ceiling!Eligible, priority[t] = priority[u]
      PROVE  t = u
  <2>1. t \in Task /\ u \in Task
    BY <1>6
  <2>2. (Held(t) # {} => owner[priority[t]] = t) /\ (Held(u) # {} => owner[priority[u]] = u)
    BY <1>4, <2>1
  <2>3. (Held(t) # {} => priority[t] \in Mutex) /\ (Held(u) # {} => priority[u] \in Mutex)
    BY <1>4, <2>1
  <2> QED BY <1>5, <1>9, <2>1, <2>2, <2>3
<1> QED BY <1>3, <1>7, <1>8, <1>9 DEF EligibleBits

\* The task at the highest bit, or the idle task if there is none, is the one to
\* run.
Leads ==
    \A t \in Task :
        /\ priority[t] \in os_ready_mask \cup {OS_TASK_IDLE}
        /\ os_tasks[priority[t]] = t
        /\ \A p \in os_ready_mask : p <= priority[t]
        => Ceiling!MostUrgent = t

LEMMA HighestBitLeads == MutexInv => Leads
<1> USE MutexFacts, ConstantFacts
<1> SUFFICES ASSUME MutexInv, NEW t \in Task,
                    priority[t] \in os_ready_mask \cup {OS_TASK_IDLE},
                    os_tasks[priority[t]] = t,
                    \A p \in os_ready_mask : p <= priority[t]
             PROVE  Ceiling!MostUrgent = t
  BY DEF Leads
<1>1. EligibleBits /\ Urgencies
  BY EligibleAreReady, UrgencyIsPriority
<1>2. \A p \in Priority \ {OS_TASK_IDLE} : ~ (p <= OS_TASK_IDLE)
  BY TaskMaxAssumption DEF Priority, OS_TASK_IDLE
<1>3. os_ready_mask \subseteq Priority \ {OS_TASK_IDLE}
  BY DEF MutexInv, MutexTypeOK, TypeOK
<1>4. CASE priority[t] = OS_TASK_IDLE
  <2>1. os_ready_mask = {}
    BY <1>2, <1>3, <1>4
  <2>2. Ceiling!Eligible = {}
    BY <1>1, <2>1 DEF EligibleBits
  <2>3. t = OS_TASK_IDLE
    BY <1>4 DEF MutexInv, Slots
  <2> QED BY <2>2, <2>3 DEF Ceiling!MostUrgent, OS_TASK_IDLE
<1>5. CASE priority[t] \in os_ready_mask
  <2>1. t \in Ceiling!Eligible
    <3>1. CASE Held(t) = {}
      <4>1. priority[t] = t
        BY <3>1 DEF MutexInv, Protocol, Raised
      <4> QED BY <1>5, <4>1 DEF Ceiling!Eligible
    <3>2. CASE Held(t) # {}
      <4>1. t \in Ceiling!Holders
        BY <1>1, <3>2 DEF Ceiling!Holders, Ceiling!Worker, Urgencies, Task, Priority, Mutex
      <4> QED BY <4>1 DEF Ceiling!Eligible
    <3> QED BY <3>1, <3>2
  <2>2. \A u \in Ceiling!Eligible : u \in Task /\ priority[u] <= priority[t]
    BY <1>1 DEF EligibleBits
  <2>3. \A u \in Ceiling!Eligible : Ceiling!Urgency(u) <= Ceiling!Urgency(t)
    BY <1>1, <2>2 DEF Urgencies
  <2>4. \A u \in Ceiling!Eligible :
           (\A v \in Ceiling!Eligible : Ceiling!Urgency(v) <= Ceiling!Urgency(u)) => u = t
    <3> SUFFICES ASSUME NEW u \in Ceiling!Eligible,
                        Ceiling!Urgency(t) <= Ceiling!Urgency(u)
                 PROVE  u = t
      BY <2>1
    <3>1. priority[t] <= priority[u] /\ priority[u] <= priority[t]
      BY <1>1, <2>2 DEF Urgencies
    <3>2. priority[t] \in Int /\ priority[u] \in Int
      BY <2>2 DEF MutexInv, MutexTypeOK, TypeOK
    <3>3. priority[u] = priority[t]
      BY <3>1, <3>2
    <3> QED BY <1>1, <2>1, <3>3 DEF EligibleBits
  <2>5. Ceiling!Eligible # {}
    BY <2>1
  <2>6. Ceiling!MostUrgent = CHOOSE u \in Ceiling!Eligible :
           \A v \in Ceiling!Eligible : Ceiling!Urgency(v) <= Ceiling!Urgency(u)
    BY <2>5 DEF Ceiling!MostUrgent
  <2> QED BY <2>1, <2>3, <2>4, <2>6
<1> QED BY <1>4, <1>5

LEMMA NextLeads == (MutexInv => Leads) /\ (MutexInv' => Leads')
BY HighestBitLeads, PTL

-----------------------------------------------------------------------------
(***************************************************************************)
(* Then, the steps.                                                        *)
(***************************************************************************)
\* os_sched selects the most urgent task.
LEMMA Rethinks ==
    ASSUME MutexInv', os_sched, UNCHANGED os_task_current
    PROVE  Ceiling!Rethink
<1>1. Leads'
  BY NextLeads
<1>2. os_task_next' \in Task /\ unsched' = {}
  <2>1. os_ready_mask' \subseteq Priority
    BY DEF MutexInv, MutexTypeOK, TypeOK
  <2>2. CASE os_ready_mask' = {}
    BY <2>2, ConstantFacts DEF os_sched, MutexInv, Slots
  <2>3. CASE os_ready_mask' # {}
    <3>1. PICK h \in os_ready_mask' : os_task_next' = os_tasks'[h]
      BY <2>1, <2>3, HighestBit DEF os_sched
    <3>2. os_tasks'[h] \in Task
      <4>1. CASE h \in Task
        BY <3>1, <4>1 DEF MutexInv, Slots, Bits
      <4>2. CASE h \in Mutex
        BY <3>1, <4>2 DEF MutexInv, MutexTypeOK, Slots, Bits
      <4> QED BY <2>1, <3>1, <4>1, <4>2, MutexFacts
    <3> QED BY <3>1, <3>2 DEF os_sched
  <2> QED BY <2>2, <2>3 DEF os_sched
<1>3. Ceiling!MostUrgent' = os_task_next'
  BY <1>1, <1>2, ConstantFacts DEF Leads, MutexInv, Chosen
<1> QED BY <1>2, <1>3 DEF os_sched, Ceiling!Rethink

\* A task that makes a call is entitled to.
LEMMA IsEntitled ==
    ASSUME MutexInv, Executing
    PROVE  Ceiling!Entitled
<1>1. EligibleBits /\ Urgencies
  BY EligibleAreReady, UrgencyIsPriority
<1>2. PICK t \in Task : t = os_task_current
  BY Executes
<1>3. /\ priority[t] \in os_ready_mask /\ priority[t] \in Held(t) \cup {t}
      /\ \A p \in os_ready_mask \ unsched : p <= priority[t]
  BY <1>2, Executes
<1>4. t \in Ceiling!Eligible
  <2>1. CASE Held(t) = {}
    BY <1>3, <2>1, MutexFacts DEF Ceiling!Eligible
  <2>2. CASE Held(t) # {}
    BY <1>1, <2>2 DEF Ceiling!Eligible, Ceiling!Holders, Ceiling!Worker, Urgencies, Task,
                      Priority, Mutex
  <2> QED BY <2>1, <2>2
<1>5. ASSUME NEW u \in ((os_ready_mask \ Mutex) \ unsched) \cup Ceiling!Holders
      PROVE  Ceiling!Urgency(u) <= Ceiling!Urgency(t)
  <2>1. u \in Task
    BY <1>1, <1>5 DEF EligibleBits, Ceiling!Eligible
  <2>2. priority[u] \in os_ready_mask \ unsched
    BY <1>1, <1>5 DEF EligibleBits
  <2> QED BY <1>1, <1>3, <2>1, <2>2 DEF Urgencies
<1> QED BY <1>2, <1>4, <1>5 DEF Executing, Ceiling!Entitled

LEMMA CeilingWakes ==
    ASSUME MutexInv, NEW ps \in SUBSET Task, MakeReady(ps)
    PROVE  Ceiling!Wakes(ps)
<1>1. os_delay_mask \subseteq Priority /\ ps \subseteq Priority /\ ps \cap Mutex = {}
  BY MutexFacts DEF MutexInv, MutexTypeOK, TypeOK
<1> QED BY <1>1 DEF MakeReady, Ceiling!Wakes, Ceiling!Asleep

LEMMA CeilingLeaves ==
    ASSUME MutexInv, NEW p \in Task, Suspend(p)
    PROVE  Ceiling!Leaves(p)
<1>1. os_delay_mask \subseteq Priority
  BY DEF MutexInv, MutexTypeOK, TypeOK
<1> QED BY <1>1 DEF Suspend, Ceiling!Leaves, Ceiling!Asleep

LEMMA CeilingInitial == MutexInit => Ceiling!CeilingInit
<1> SUFFICES ASSUME MutexInit PROVE Ceiling!CeilingInit
  OBVIOUS
<1> DEFINE alive == {p \in Task : os_tasks[p] # NULL}
<1>1. alive \subseteq 0 .. OS_TASK_MAX - 1
  BY DEF Task, Priority
<1>2. os_ready_mask \ Mutex \subseteq alive /\ os_ready_mask \ Mutex = unsched
  BY SlotsAssumption, NullAssumption, ConstantFacts, MutexFacts
     DEF MutexInit, Init, Task, Mutex
<1> QED BY <1>1, <1>2 DEF MutexInit, Init, Ceiling!CeilingInit, Ceiling!SchedulerInit

LEMMA CeilingTick ==
    ASSUME WellBehaved, MutexTimed, MutexInv', UNCHANGED mutex_vars,
           NEW woken \in SUBSET AlarmTask, SysTick_Handler(woken)
    PROVE  Ceiling!ClockTick
<1> DEFINE expired == {p \in os_delay_mask : ticks[os_tasks[p]] = 1}
           due     == {p \in os_delay_mask : wake[p] = os_tick_counter'}
           alive   == {p \in Task : os_tasks[p] # NULL}
<1>1. /\ MakeReady(expired \cup woken) /\ os_sched
      /\ os_tick_counter' = (os_tick_counter + 1) % TICK_MOD
      /\ UNCHANGED <<os_tasks, os_task_current>>
  BY DEF SysTick_Handler, os_tick, os_task_tick
<1>2. expired = due
  BY ExpiredAreDue, MutexSleepers DEF MutexTimed
<1>3. woken \in SUBSET (AlarmTask \cap alive)
  BY SlotsAssumption DEF SysTick_Handler, StartTarget, WellBehaved
<1>4. expired \cup woken \subseteq Task
  BY SlotsAssumption, MutexSleepers DEF MutexTimed, Sleepers
<1>5. Ceiling!Rethink
  BY <1>1, Rethinks
<1>6. due = {p \in Ceiling!Asleep :
               [q \in os_delay_mask |-> wake[q]][p] = os_tick_counter'}
  BY DEF Ceiling!Asleep
<1>7. UNCHANGED <<os_task_current, alive, owner>>
  BY <1>1 DEF mutex_vars
<1> HIDE DEF expired, due
<1>8. PICK ps \in SUBSET Task : ps = due \cup woken
  BY <1>2, <1>4
<1>9. Ceiling!Wakes(ps)
  <2>1. MakeReady(ps)
    BY <1>1, <1>2, <1>8 DEF MakeReady
  <2> QED BY <2>1, CeilingWakes DEF MutexTimed
<1>10. \E w \in SUBSET (AlarmTask \cap alive) :
         Ceiling!Wakes({p \in Ceiling!Asleep :
               [q \in os_delay_mask |-> wake[q]][p] = os_tick_counter'} \cup w)
  BY <1>3, <1>6, <1>8, <1>9 DEF Ceiling!Wakes
<1> QED BY <1>1, <1>5, <1>7, <1>10 DEF Ceiling!ClockTick, Ceiling!Wakes

LEMMA CeilingCall ==
    ASSUME WellBehaved, MutexInv, MutexInv', KernelCall
    PROVE  Ceiling!CeilingNext
<1> DEFINE alive == {p \in Task : os_tasks[p] # NULL}
<1>0. /\ Executing /\ Ceiling!Entitled /\ UNCHANGED owner
      /\ Ceiling!Worker = Task
  BY IsEntitled DEF KernelCall, Calling, mutex_vars, Ceiling!Worker, Task, Priority, Mutex
<1>1. ASSUME NEW t \in Task \ {OS_TASK_IDLE}, NEW id, id = OS_GET_TASK_ID_FROM_PRIORITY(t),
             os_task_start(id) \/ os_task_release(id) \/ os_task_stop(id)
      PROVE  Ceiling!CeilingNext
  <2>1. PriorityOf(id) = t
    BY <1>1, IdOfTask, ConstantFacts
  <2>2. CASE os_task_start(id)
    <3>1. t \in alive /\ MakeReady({t})
      BY <2>1, <2>2 DEF os_task_start, StartTarget, WellBehaved
    <3>2. Ceiling!Wakes({t})
      BY <3>1, CeilingWakes
    <3>3. Ceiling!StartWorker(t)
      BY <1>0, <2>1, <2>2, <3>1, <3>2 DEF os_task_start, Ceiling!StartWorker
    <3> QED BY <1>0, <3>3 DEF Ceiling!CeilingNext, Ceiling!Call, OS_TASK_IDLE
  <2>3. CASE os_task_release(id)
    <3>1. t \in alive /\ MakeReady({t})
      BY <2>1, <2>3 DEF os_task_release, StartTarget, WellBehaved
    <3>2. Ceiling!Wakes({t})
      BY <3>1, CeilingWakes
    <3>3. Ceiling!Rethink
      BY <2>3, Rethinks DEF os_task_release
    <3>4. Ceiling!ReleaseWorker(t)
      BY <1>0, <2>3, <3>1, <3>2, <3>3 DEF os_task_release, Ceiling!ReleaseWorker
    <3> QED BY <1>0, <3>4 DEF Ceiling!CeilingNext, Ceiling!Call, OS_TASK_IDLE
  <2>4. CASE os_task_stop(id)
    <3>1. Ceiling!Leaves(t)
      BY <2>1, <2>4, CeilingLeaves DEF os_task_stop
    <3>2. Ceiling!Rethink
      BY <2>4, Rethinks DEF os_task_stop
    <3>3. Ceiling!StopWorker(t)
      BY <1>0, <2>4, <3>1, <3>2 DEF os_task_stop, Ceiling!StopWorker
    <3> QED BY <1>0, <3>3 DEF Ceiling!CeilingNext, Ceiling!Call, OS_TASK_IDLE
  <2> QED BY <1>1, <2>2, <2>3, <2>4
<1>2. ASSUME Held(os_task_current) = {} PROVE Ceiling!Holds(os_task_current) = {}
  BY <1>0, <1>2, Executes, UrgencyIsPriority DEF Urgencies
<1>3. ASSUME Held(os_task_current) = {}, os_task_delete PROVE Ceiling!CeilingNext
  <2>1. PICK t \in Task : t = os_task_current /\ priority[t] = t
    BY <1>0, <1>3, HoldsNothing, Executes
  <2>2. Ceiling!Leaves(t)
    BY <1>3, <2>1, CeilingLeaves DEF os_task_delete, Suspend
  <2>3. Ceiling!Rethink
    BY <1>3, Rethinks DEF os_task_delete
  <2>4. alive' = alive \ {t}
    BY <1>3, <2>1, MutexFacts DEF os_task_delete, MutexInv, MutexTypeOK, TypeOK
  <2>5. Ceiling!Quit
    BY <1>0, <1>2, <1>3, <2>1, <2>2, <2>3, <2>4 DEF os_task_delete, Ceiling!Quit, Ceiling!Leaves
  <2> QED BY <1>0, <2>5 DEF Ceiling!CeilingNext, Ceiling!Call
<1>4. ASSUME Held(os_task_current) = {}, NEW n \in Delays, os_delay(n)
      PROVE  Ceiling!CeilingNext
  <2>1. PICK t \in Task : t = os_task_current /\ priority[t] = t /\ t \in Priority /\ t \notin Mutex
    BY <1>0, <1>4, HoldsNothing, Executes, MutexFacts
  <2>2. Ceiling!Rethink
    BY <1>4, Rethinks DEF os_delay
  <2>3. Sleep(t, n) /\ UNCHANGED <<os_task_current, os_tick_counter, os_tasks>>
    BY <1>4, <2>1 DEF os_delay
  <2>4. os_delay_mask \subseteq Priority /\ wake \in [Priority -> 0 .. TICK_MOD - 1]
    BY DEF MutexInv, MutexTypeOK, TypeOK
  <2>5. [p \in os_delay_mask' |-> wake'[p]]
          = [p \in os_delay_mask \cup {t} |->
               IF p = t THEN (os_tick_counter + n) % TICK_MOD
               ELSE [q \in os_delay_mask |-> wake[q]][p]]
    BY <2>1, <2>3, <2>4 DEF Sleep
  <2>6. os_ready_mask' \ Mutex = (os_ready_mask \ Mutex) \ {t}
    BY <2>3 DEF Sleep
  <2>7. Ceiling!Rest(n)
    BY <1>0, <1>2, <1>4, <2>1, <2>2, <2>3, <2>5, <2>6 DEF Ceiling!Rest, Ceiling!Asleep
  <2> QED BY <1>0, <2>7 DEF Ceiling!CeilingNext, Ceiling!Call
<1> QED BY <1>1, <1>3, <1>4 DEF KernelCall, WellBehaved

LEMMA CeilingLock ==
    ASSUME WellBehaved, MutexInv, MutexInv', NEW m \in Mutex, os_mutex_lock(m)
    PROVE  Ceiling!Entitled /\ Ceiling!Take(m)
<1> USE MutexFacts
<1>1. PICK t \in Task : t = os_task_current /\ Executing /\ priority[t] < m
  <2>1. m # NULL
    BY ConstantFacts, NullAssumption
  <2> QED BY <2>1, Executes DEF os_mutex_lock, MutexInv, Protocol, Locking
<1>2. TakeMutex(m) /\ owner[m] = NULL
  BY Takes DEF TakeMutex
<1>3. Ceiling!Entitled /\ Ceiling!Urgency(t) < m
  BY <1>1, IsEntitled, UrgencyIsPriority DEF Urgencies
<1>4. Ceiling!Rethink
  BY <1>2, Rethinks DEF TakeMutex
<1>5. /\ os_ready_mask' \ Mutex = os_ready_mask \ Mutex
      /\ os_delay_mask' = os_delay_mask
      /\ \A p \in os_delay_mask : wake'[p] = wake[p]
  BY <1>2 DEF TakeMutex, MakeReady, MutexInv, MutexTypeOK, TypeOK, Bits
<1>6. \A p \in Task : os_tasks'[p] = os_tasks[p]
  BY <1>2 DEF TakeMutex, MutexInv, MutexTypeOK, TypeOK
<1>7. /\ [p \in os_delay_mask' |-> wake'[p]] = [p \in os_delay_mask |-> wake[p]]
      /\ {p \in Task : os_tasks'[p] # NULL} = {p \in Task : os_tasks[p] # NULL}
  BY <1>5, <1>6
<1> QED BY <1>1, <1>2, <1>3, <1>4, <1>5, <1>7 DEF TakeMutex, Ceiling!Take

LEMMA CeilingUnlock ==
    ASSUME WellBehaved, MutexInv, MutexInv', NEW m \in Mutex, os_mutex_unlock(m)
    PROVE  Ceiling!Entitled /\ Ceiling!GiveBack(m)
<1> USE MutexFacts
<1>1. PICK t \in Task : t = os_task_current /\ Executing /\ owner[m] = t /\ priority[t] = m
  BY Executes DEF os_mutex_unlock, Calling, MayUnlock, WellBehaved
<1>2. ReleaseMutex(m)
  <2>1. locks_nb[m] = 1
    BY <1>1, ConstantFacts DEF MutexInv, Protocol, Uncontended
  <2> QED BY <1>1, <2>1 DEF os_mutex_unlock, KeepMutex
<1>3. Ceiling!Entitled /\ Ceiling!Urgency(t) = m
  BY <1>1, IsEntitled, UrgencyIsPriority DEF Urgencies
<1>4. Ceiling!Rethink
  BY <1>2, Rethinks DEF ReleaseMutex
<1>5. /\ os_ready_mask' \ Mutex = os_ready_mask \ Mutex
      /\ os_delay_mask' = os_delay_mask
      /\ \A p \in os_delay_mask : wake'[p] = wake[p]
  BY <1>2 DEF ReleaseMutex, Suspend, MutexInv, MutexTypeOK, TypeOK, Bits
<1>6. [p \in os_delay_mask' |-> wake'[p]] = [p \in os_delay_mask |-> wake[p]]
  BY <1>5
<1> QED BY <1>1, <1>2, <1>3, <1>4, <1>5, <1>6 DEF ReleaseMutex, Ceiling!GiveBack

LEMMA CeilingStep ==
    ASSUME WellBehaved, MutexTimed, MutexInv', [MutexNext]_all_vars
    PROVE  [Ceiling!CeilingNext]_(Ceiling!ceiling_vars)
<1>0. MutexInv
  BY DEF MutexTimed
<1>1. CASE PendSV_Handler /\ UNCHANGED mutex_vars
  <2>1. Ceiling!MostUrgent = os_task_next
    BY <1>0, <1>1, NextLeads DEF PendSV_Handler, MutexTimed, PendedIsDecided, Leads, MutexInv,
                                 MutexTypeOK, TypeOK, Chosen
  <2>2. Ceiling!SwitchOver
    BY <1>1, <2>1 DEF PendSV_Handler, masks, mutex_vars, Ceiling!SwitchOver
  <2> QED BY <2>2 DEF Ceiling!CeilingNext
<1>2. CASE SysTick /\ UNCHANGED mutex_vars
  BY <1>2, CeilingTick DEF SysTick, Ceiling!CeilingNext
<1>3. CASE KernelCall
  BY <1>0, <1>3, CeilingCall
<1>4. ASSUME NEW m \in Mutex, os_mutex_lock_check(m)
      PROVE  UNCHANGED <<vars, owner>>
  BY <1>4 DEF os_mutex_lock_check, BEERTOS_ASSERT_ERROR_HANDLER
<1>5. ASSUME NEW m \in Mutex, os_mutex_lock(m) \/ os_mutex_unlock(m)
      PROVE  Ceiling!CeilingNext
  BY <1>0, <1>5, CeilingLock, CeilingUnlock
     DEF Ceiling!CeilingNext, Ceiling!Call
<1>6. CASE UNCHANGED <<vars, owner>>
  BY <1>6 DEF vars, Ceiling!ceiling_vars, Ceiling!sched_vars
<1> QED BY <1>1, <1>2, <1>3, <1>4, <1>5, <1>6 DEF MutexNext, all_vars, mutex_vars

\* The kernel with its mutexes is a scheduler that follows the immediate ceiling
\* protocol, for every number of tasks and every placing of ceilings: locking and
\* unlocking are single steps that cannot fail, whatever happens between the
\* assertions of os_mutex_lock and its critical section, and the processor goes to
\* the task with the highest own priority or ceiling held (mutex.c:91-178, :190-224).
THEOREM ImplementsCeilingScheduler ==
    ASSUME WellBehaved
    PROVE  MutexSpec => IsCeilingScheduler
<1>1. MutexTimed /\ MutexTimed' /\ [MutexNext]_all_vars
        => [Ceiling!CeilingNext]_(Ceiling!ceiling_vars)
  BY CeilingStep DEF MutexTimed
<1> QED BY <1>1, CeilingInitial, MutexTimedInvariant, PTL
        DEF MutexSpec, IsCeilingScheduler, Ceiling!CeilingSpec
=============================================================================
