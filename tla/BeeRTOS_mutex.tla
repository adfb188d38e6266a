---------------------------- MODULE BeeRTOS_mutex ----------------------------
(***************************************************************************)
(* The mutexes (BeeRTOS_mutex.c) over the scheduler.  A mutex is named by  *)
(* its ceiling, the priority its entry in BEERTOS_PRIORITY_LIST() takes.   *)
(* Locking raises the owner to the ceiling and puts it in the ceiling's    *)
(* slot of os_tasks; the bit of the owner's own priority stays as it is.   *)
(***************************************************************************)
EXTENDS BeeRTOS_task

CONSTANT ClientMay   \* what tasks do that the ceiling protocol does not expect

Mutex == MutexSlots

ASSUME ClientAssumption ==
    ClientMay \subseteq {"recursive", "delay_holding", "delete_holding", "any_order"}

VARIABLES
    owner, locks_nb, owner_priority,   \* fields of os_mutexes[m]
    locking,    \* task -> the mutex it is inside os_mutex_lock for, or NULL
    asserted    \* tasks that spin in the assertion handler

mutex_vars == <<owner, locks_nb, owner_priority, locking, asserted>>
all_vars == <<vars, mutex_vars>>

Held(t) == {m \in Mutex : owner[m] = t}

-----------------------------------------------------------------------------
(***************************************************************************)
(* A task between two calls.                                               *)
(***************************************************************************)
Calling ==
    /\ Executing
    /\ os_task_current \notin asserted
    /\ locking[os_task_current] = NULL

\* os_report_error ends in while(1), outside any critical section here.
BEERTOS_ASSERT_ERROR_HANDLER ==
    /\ asserted' = asserted \cup {os_task_current}
    /\ UNCHANGED <<vars, owner, locks_nb, owner_priority, locking>>

\* The configuration gives a mutex a ceiling above all its users; a client
\* nests mutexes upwards, as the assertion at mutex.c:105 wants.
MayLock(m) ==
    /\ os_task_current < m
    /\ \/ priority[os_task_current] < m
       \/ "recursive" \in ClientMay /\ owner[m] = os_task_current

MayUnlock(m) ==
    /\ owner[m] = os_task_current
    /\ priority[os_task_current] = m \/ "any_order" \in ClientMay

\* The assertions of os_mutex_lock, read with interrupts on.
os_mutex_lock_check(m) ==
    /\ Calling
    /\ MayLock(m)
    /\ IF priority[os_task_current] <= m /\ owner[m] = NULL /\ locks_nb[m] < 255
       THEN /\ locking' = [locking EXCEPT ![os_task_current] = m]
            /\ UNCHANGED <<vars, owner, locks_nb, owner_priority, asserted>>
       ELSE BEERTOS_ASSERT_ERROR_HANDLER

Mut_TakeMutex_NoStart(m) ==
    /\ owner[m] = NULL
    /\ owner' = [owner EXCEPT ![m] = os_task_current]
    /\ locks_nb' = [locks_nb EXCEPT ![m] = 1]
    /\ owner_priority' = [owner_priority EXCEPT ![m] = priority[os_task_current]]
    /\ priority' = [priority EXCEPT ![os_task_current] = m]
    /\ os_tasks' = [os_tasks EXCEPT ![m] = os_task_current]
    /\ UNCHANGED <<masks, os_task_current, ticks, os_tick_counter>>
    /\ os_sched

Mut_TakeMutex_AboveCeiling(m) ==
    /\ owner[m] = NULL
    /\ owner' = [owner EXCEPT ![m] = os_task_current]
    /\ locks_nb' = [locks_nb EXCEPT ![m] = 1]
    /\ owner_priority' = [owner_priority EXCEPT ![m] = priority[os_task_current]]
    /\ priority' = [priority EXCEPT ![os_task_current] = m + 1]
    /\ os_tasks' = [os_tasks EXCEPT ![m] = os_task_current]
    /\ MakeReady({m})
    /\ UNCHANGED <<os_task_current, ticks, os_tick_counter>>
    /\ os_sched

\* The critical section of os_mutex_lock, which tests the owner again.
TakeMutex(m) ==
    /\ owner[m] = NULL
    /\ owner' = [owner EXCEPT ![m] = os_task_current]
    /\ locks_nb' = [locks_nb EXCEPT ![m] = 1]
    /\ owner_priority' = [owner_priority EXCEPT ![m] = priority[os_task_current]]
    /\ priority' = [priority EXCEPT ![os_task_current] = m]
    /\ os_tasks' = [os_tasks EXCEPT ![m] = os_task_current]
    /\ MakeReady({m})
    /\ UNCHANGED <<os_task_current, ticks, os_tick_counter>>
    /\ os_sched

TakeAgain(m) ==
    /\ owner[m] = os_task_current
    /\ locks_nb' = [locks_nb EXCEPT ![m] = (@ + 1) % 256]
    /\ UNCHANGED <<vars, owner, owner_priority>>

FailToTake(m) ==
    /\ owner[m] \notin {NULL, os_task_current}
    /\ UNCHANGED <<vars, owner, locks_nb, owner_priority>>

os_mutex_lock(m) ==
    /\ Executing
    /\ locking[os_task_current] = m
    /\ TakeMutex(m) \/ TakeAgain(m) \/ FailToTake(m)
    /\ locking' = [locking EXCEPT ![os_task_current] = NULL]
    /\ UNCHANGED asserted

Mut_ReleaseMutex_KeepsPriority(m) ==
    /\ locks_nb[m] = 1
    /\ owner' = [owner EXCEPT ![m] = NULL]
    /\ Suspend(m)
    /\ UNCHANGED <<os_task_current, os_tasks, priority, ticks, os_tick_counter>>
    /\ os_sched

Mut_ReleaseMutex_KeepsBit(m) ==
    /\ locks_nb[m] = 1
    /\ owner' = [owner EXCEPT ![m] = NULL]
    /\ priority' = [priority EXCEPT ![os_task_current] = owner_priority[m]]
    /\ UNCHANGED <<masks, os_task_current, os_tasks, ticks, os_tick_counter>>
    /\ os_sched

Mut_ReleaseMutex_StopsOwner(m) ==
    /\ locks_nb[m] = 1
    /\ owner' = [owner EXCEPT ![m] = NULL]
    /\ priority' = [priority EXCEPT ![os_task_current] = owner_priority[m]]
    /\ Suspend(owner_priority[m])
    /\ UNCHANGED <<os_task_current, os_tasks, ticks, os_tick_counter>>
    /\ os_sched

\* Only the owner can change what the assertions of os_mutex_unlock read, so
\* they and the critical section are one step.
ReleaseMutex(m) ==
    /\ locks_nb[m] = 1
    /\ owner' = [owner EXCEPT ![m] = NULL]
    /\ priority' = [priority EXCEPT ![os_task_current] = owner_priority[m]]
    /\ Suspend(m)
    /\ UNCHANGED <<os_task_current, os_tasks, ticks, os_tick_counter>>
    /\ os_sched

KeepMutex(m) ==
    /\ locks_nb[m] > 1
    /\ UNCHANGED <<vars, owner>>

os_mutex_unlock(m) ==
    /\ Calling
    /\ MayUnlock(m)
    /\ IF owner[m] = os_task_current /\ locks_nb[m] > 0
       THEN /\ locks_nb' = [locks_nb EXCEPT ![m] = @ - 1]
            /\ ReleaseMutex(m) \/ KeepMutex(m)
            /\ UNCHANGED <<owner_priority, locking, asserted>>
       ELSE BEERTOS_ASSERT_ERROR_HANDLER

-----------------------------------------------------------------------------
(***************************************************************************)
(* The calls of the scheduler.  Clients name tasks in them, not the ids    *)
(* that stand for mutexes.                                                 *)
(***************************************************************************)
KernelCall ==
    /\ Calling
    /\ \/ \E id \in {OS_GET_TASK_ID_FROM_PRIORITY(t) : t \in Task \ {OS_TASK_IDLE}} :
             os_task_start(id) \/ os_task_stop(id) \/ os_task_release(id)
       \/ /\ Held(os_task_current) = {} \/ "delete_holding" \in ClientMay
          /\ os_task_delete
       \/ /\ Held(os_task_current) = {} \/ "delay_holding" \in ClientMay
          /\ \E n \in Delays : os_delay(n)
    /\ UNCHANGED mutex_vars

\* The configuration gives every mutex the initial count 0; the first lock
\* overwrites it whatever it is.
MutexInit ==
    /\ Init
    /\ owner = [m \in Mutex |-> NULL]
    /\ locks_nb = [m \in Mutex |-> 0]
    /\ owner_priority = [m \in Mutex |-> 0]
    /\ locking = [t \in Task |-> NULL]
    /\ asserted = {}

MutexNext ==
    \/ (PendSV_Handler \/ SysTick) /\ UNCHANGED mutex_vars
    \/ KernelCall
    \/ \E m \in Mutex : os_mutex_lock_check(m) \/ os_mutex_lock(m) \/ os_mutex_unlock(m)

MutexSpec == MutexInit /\ [][MutexNext]_all_vars

-----------------------------------------------------------------------------
(***************************************************************************)
(* Properties.                                                             *)
(***************************************************************************)
MutexTypeOK ==
    /\ TypeOK
    /\ owner \in [Mutex -> Task \cup {NULL}]
    /\ locks_nb \in [Mutex -> 0 .. 255]
    /\ owner_priority \in [Mutex -> Priority]
    /\ locking \in [Task -> Mutex \cup {NULL}]
    /\ asserted \subseteq Task

\* No assertion of the module fails: a task that gets to call os_mutex_lock
\* finds the mutex free, "because the PCP has always higher priority than the
\* task that is trying to lock the mutex" (mutex.c:109-112).
NoAssertionFails == asserted = {}

\* A task that passed the assertions of os_mutex_lock gets the mutex, however
\* long it is preempted before the critical section (mutex.c:113 to :125).
LockSucceeds ==
    [][\A t \in Task : locking[t] # NULL /\ locking'[t] = NULL
                          => owner'[locking[t]] = t]_all_vars

\* While a mutex is held, nothing but its owner and tasks configured above its
\* ceiling executes: no other user of the mutex runs at all.
CeilingExcludes ==
    Executing => \A m \in Mutex : owner[m] \notin {NULL, os_task_current}
                                     => os_task_current > m

\* The active priority of a task is its own, raised to the highest ceiling it
\* holds; unlocking restores it (mutex.c:133-135, :209).
PriorityIsCeiling ==
    \A t \in Task :
        LET raised == Held(t) \cup {t}
        IN priority[t] = OS_GET_HIGHEST_PRIO_TASK_FROM_MASK(raised)

\* The promise of the ceiling protocol: at any time at most one task of lower
\* priority than h holds mutexes that can keep h waiting, so h waits for one
\* critical section at most.
BlockedAtMostOnce ==
    \A h \in Task :
        \A s, t \in Task : \A m, n \in Mutex :
            s < h /\ t < h /\ m > h /\ n > h /\ owner[m] = s /\ owner[n] = t => s = t

\* task.c:338-342: os_task_delete "removes from scheduler" the current task: once
\* a slot of os_tasks is cleared, no ready bit leads to the task it named.
DeleteRemovesTask ==
    [][\A p \in Priority : os_tasks[p] # NULL /\ os_tasks'[p] = NULL
         => \A q \in os_ready_mask' : os_tasks'[q] # os_tasks[p]]_all_vars

\* For the tasks, the mutexes and the scheduler together are a scheduler that
\* follows the ceiling protocol: locking is one step that succeeds, and who runs
\* depends on who is ready and who holds what (mutex.c:115-136, :203-216).  The
\* slots of the ceilings, their bits and the saved priorities are machinery.
Ceiling == INSTANCE CeilingScheduler WITH
    Max       <- OS_TASK_MAX,
    Clock     <- TICK_MOD,
    Naps      <- Delays,
    Wakeable  <- AlarmTask,
    Nobody    <- NULL,
    Resource  <- Mutex,
    running   <- os_task_current,
    ready     <- os_ready_mask \ Mutex,
    due       <- [p \in os_delay_mask |-> wake[p]],
    now       <- os_tick_counter,
    alive     <- {p \in Task : os_tasks[p] # NULL},
    late      <- unsched,
    switching <- pendsv,
    holder    <- owner
IsCeilingScheduler == Ceiling!CeilingSpec

=============================================================================
