-------------------------- MODULE BeeRTOS_semaphore --------------------------
(***************************************************************************)
(* The semaphores (BeeRTOS_semaphore.c) over the scheduler.  A wait that   *)
(* blocks is two critical sections with a context switch between them; in  *)
(* the gap the timeout, a signal and other tasks' calls race.              *)
(***************************************************************************)
EXTENDS BeeRTOS_task, FiniteSets

CONSTANTS
    Sem,            \* the semaphores
    Counting,       \* those of SEMAPHORE_TYPE_COUNTING; the others are binary
    InitialCount,   \* semaphore -> initial count
    Timeouts,       \* arguments tasks pass to os_semaphore_wait
    CountBound,     \* clients do not signal past it (2^32 - 1 in the code)
    StopsWaiters    \* may a task stop or start one that waits for a semaphore?

ASSUME SemAssumption ==
    /\ NULL \notin Sem
    /\ Counting \subseteq Sem
    /\ InitialCount \in [Sem -> 0 .. CountBound]
    /\ \A s \in Sem \ Counting : InitialCount[s] <= 1   \* semaphore.c:70
    /\ CountBound \in Nat
    /\ Timeouts \subseteq Delays \cup {0}   \* a wait blocks in os_delay(timeout)
    /\ StopsWaiters \in BOOLEAN

VARIABLES
    count, tasks_blocked,   \* fields of semaphores[s]
    waiting,                \* task -> the semaphore whose wait it is inside of, or NULL
    tokens                  \* history: initial count, plus signals that returned
                            \* true, minus waits that returned true

sem_vars == <<count, tasks_blocked, waiting, tokens>>
all_vars == <<vars, sem_vars>>

Calling == Executing /\ waiting[os_task_current] = NULL

-----------------------------------------------------------------------------
(***************************************************************************)
(* os_semaphore_wait, up to the end of its first critical section.         *)
(***************************************************************************)
Mut_TakeToken_Unchecked(s) ==
    /\ count' = [count EXCEPT ![s] = @ - 1]
    /\ tokens' = [tokens EXCEPT ![s] = @ - 1]
    /\ UNCHANGED <<vars, tasks_blocked, waiting>>

TakeToken(s) ==
    /\ count[s] > 0
    /\ count' = [count EXCEPT ![s] = @ - 1]
    /\ tokens' = [tokens EXCEPT ![s] = @ - 1]
    /\ UNCHANGED <<vars, tasks_blocked, waiting>>

Mut_Block_StopsForGood(s, timeout) ==
    /\ count[s] = 0
    /\ timeout # 0
    /\ tasks_blocked' = [tasks_blocked EXCEPT ![s] = @ \cup {priority[os_task_current]}]
    /\ waiting' = [waiting EXCEPT ![os_task_current] = s]
    /\ os_task_stop(OS_GET_TASK_ID_FROM_PRIORITY(priority[os_task_current]))
    /\ UNCHANGED <<count, tokens>>

Block(s, timeout) ==
    /\ count[s] = 0
    /\ timeout # 0
    /\ tasks_blocked' = [tasks_blocked EXCEPT ![s] = @ \cup {priority[os_task_current]}]
    /\ waiting' = [waiting EXCEPT ![os_task_current] = s]
    /\ os_delay(timeout)
    /\ UNCHANGED <<count, tokens>>

DoNotWait(s, timeout) ==
    /\ count[s] = 0
    /\ timeout = 0
    /\ UNCHANGED all_vars

os_semaphore_wait(s, timeout) ==
    /\ Calling
    /\ TakeToken(s) \/ Block(s, timeout) \/ DoNotWait(s, timeout)

\* The second critical section: a signal has cleared the bit, or it has not.
Acquired(s) == priority[os_task_current] \notin tasks_blocked[s]

Mut_os_semaphore_wait_return_KeepsBit(s) ==
    /\ Executing
    /\ waiting[os_task_current] = s
    /\ waiting' = [waiting EXCEPT ![os_task_current] = NULL]
    /\ tokens' = [tokens EXCEPT ![s] = IF Acquired(s) THEN @ - 1 ELSE @]
    /\ UNCHANGED <<vars, count, tasks_blocked>>

os_semaphore_wait_return(s) ==
    /\ Executing
    /\ waiting[os_task_current] = s
    /\ tasks_blocked' = [tasks_blocked EXCEPT ![s] = @ \ {priority[os_task_current]}]
    /\ waiting' = [waiting EXCEPT ![os_task_current] = NULL]
    /\ tokens' = [tokens EXCEPT ![s] = IF Acquired(s) THEN @ - 1 ELSE @]
    /\ UNCHANGED <<vars, count>>

(***************************************************************************)
(* os_semaphore_signal.                                                    *)
(***************************************************************************)
Mut_os_sem_unlock_waiting_task_KeepsBit(s) ==
    LET task == os_tasks[OS_GET_HIGHEST_PRIO_TASK_FROM_MASK(tasks_blocked[s])]
    IN /\ UNCHANGED tasks_blocked
       /\ os_task_release(OS_GET_TASK_ID_FROM_PRIORITY(priority[task]))

Mut_os_sem_unlock_waiting_task_NoRelease(s) ==
    LET task == os_tasks[OS_GET_HIGHEST_PRIO_TASK_FROM_MASK(tasks_blocked[s])]
    IN /\ tasks_blocked' = [tasks_blocked EXCEPT ![s] = @ \ {priority[task]}]
       /\ UNCHANGED vars

os_sem_unlock_waiting_task(s) ==
    LET task == os_tasks[OS_GET_HIGHEST_PRIO_TASK_FROM_MASK(tasks_blocked[s])]
    IN /\ tasks_blocked' = [tasks_blocked EXCEPT ![s] = @ \ {priority[task]}]
       /\ os_task_release(OS_GET_TASK_ID_FROM_PRIORITY(priority[task]))

Mut_os_semaphore_signal_OnlyCounts(s) ==
    /\ Calling
    /\ count[s] < CountBound
    /\ \/ /\ count[s] = 0 \/ s \in Counting
          /\ count' = [count EXCEPT ![s] = @ + 1]
          /\ tokens' = [tokens EXCEPT ![s] = @ + 1]
       \/ /\ count[s] > 0 /\ s \notin Counting
          /\ UNCHANGED <<count, tokens>>
    /\ UNCHANGED <<vars, tasks_blocked, waiting>>

Mut_os_semaphore_signal_BinaryCounts(s) ==
    /\ Calling
    /\ count[s] < CountBound
    /\ \/ /\ tasks_blocked[s] # {}
          /\ os_sem_unlock_waiting_task(s)
          /\ UNCHANGED count
       \/ /\ tasks_blocked[s] = {}
          /\ count' = [count EXCEPT ![s] = @ + 1]
          /\ UNCHANGED <<vars, tasks_blocked>>
    /\ tokens' = [tokens EXCEPT ![s] = @ + 1]
    /\ UNCHANGED waiting

os_semaphore_signal(s) ==
    /\ Calling
    /\ count[s] < CountBound
    /\ \/ /\ tasks_blocked[s] # {}
          /\ os_sem_unlock_waiting_task(s)
          /\ tokens' = [tokens EXCEPT ![s] = @ + 1]
          /\ UNCHANGED count
       \/ /\ tasks_blocked[s] = {}
          /\ count[s] = 0 \/ s \in Counting
          /\ count' = [count EXCEPT ![s] = @ + 1]
          /\ tokens' = [tokens EXCEPT ![s] = @ + 1]
          /\ UNCHANGED <<vars, tasks_blocked>>
       \/ /\ tasks_blocked[s] = {}
          /\ count[s] > 0 /\ s \notin Counting
          /\ UNCHANGED <<vars, tasks_blocked, count, tokens>>
    /\ UNCHANGED waiting

-----------------------------------------------------------------------------
KernelCall ==
    /\ Calling
    /\ \/ \E t \in Task \ {OS_TASK_IDLE} :
             /\ StopsWaiters \/ waiting[t] = NULL
             /\ LET id == OS_GET_TASK_ID_FROM_PRIORITY(t)
                IN os_task_start(id) \/ os_task_stop(id) \/ os_task_release(id)
       \/ os_task_delete
       \/ \E n \in Delays : os_delay(n)
    /\ UNCHANGED sem_vars

SemInit ==
    /\ Init
    /\ count = InitialCount
    /\ tasks_blocked = [s \in Sem |-> {}]
    /\ waiting = [t \in Task |-> NULL]
    /\ tokens = InitialCount

WaitReturns(t) == os_task_current = t /\ \E s \in Sem : os_semaphore_wait_return(s)

SemNext ==
    \/ (PendSV_Handler \/ SysTick) /\ UNCHANGED sem_vars
    \/ KernelCall
    \/ \E s \in Sem :
          \/ \E timeout \in Timeouts : os_semaphore_wait(s, timeout)
          \/ os_semaphore_signal(s)
    \/ \E t \in Task : WaitReturns(t)

SemSpec == SemInit /\ [][SemNext]_all_vars

\* A task that has the processor inside os_semaphore_wait goes on to return:
\* nothing but a more urgent task or a tick comes before its next instruction.
SemFairness ==
    /\ WF_all_vars(SysTick /\ UNCHANGED sem_vars)
    /\ WF_all_vars(PendSV_Handler /\ UNCHANGED sem_vars)
    /\ \A t \in Task : WF_all_vars(WaitReturns(t))
SemFairSpec == SemSpec /\ SemFairness

-----------------------------------------------------------------------------
(***************************************************************************)
(* Properties.                                                             *)
(***************************************************************************)
SemTypeOK ==
    /\ TypeOK
    /\ count \in [Sem -> 0 .. CountBound]
    /\ tasks_blocked \in [Sem -> SUBSET (Priority \ {OS_TASK_IDLE})]
    /\ waiting \in [Task -> Sem \cup {NULL}]
    /\ tokens \in [Sem -> Int]

\* The tasks a signal has chosen and that have not returned from their wait.
Granted(s) == {t \in Task : waiting[t] = s /\ t \notin tasks_blocked[s]}

\* No token is lost or made up, whichever of the timeout and the signal comes
\* first and however long the waiter takes to run again: what was signalled and
\* not yet acquired is in the count or on its way to a task whose wait will
\* return true (semaphore.c:79-88, :125-145).
TokensConserved == \A s \in Sem : tokens[s] = count[s] + Cardinality(Granted(s))

\* No task waits for a semaphore that has tokens, not even one whose timeout
\* has just passed.
NoWaitWithTokens == \A s \in Sem : count[s] > 0 => tasks_blocked[s] = {}

\* A bit of tasks_blocked stands for a task inside os_semaphore_wait: a stale
\* bit would swallow a signal and start a task that waits for something else.
BlockedAreWaiting ==
    \A s \in Sem : \A p \in tasks_blocked[s] : os_tasks[p] = p /\ waiting[p] = s

\* No waiter is forgotten: a blocked task is asleep, or its timeout woke it and it
\* has yet to run; a granted one is ready even if the signal found it asleep, and
\* no tick, call or other waiter's timeout suspends it before it runs
\* (semaphore.c:79-88, :125-145).
NoWaiterSuspended ==
    \A s \in Sem :
        /\ tasks_blocked[s] \subseteq os_delay_mask \cup os_ready_mask
        /\ Granted(s) \subseteq os_ready_mask

\* A signal goes to the most urgent waiter: when one of two waiters that are
\* still blocked is granted, it is not the less urgent one.
MostUrgentGranted ==
    [][\A s \in Sem : \A p, q \in tasks_blocked[s] :
          p \in Granted(s)' /\ q \in tasks_blocked'[s] => q < p]_all_vars

\* "false if timeout occured" (semaphore.c:111): a sleeping waiter that is woken
\* without being granted, and so will return false, is woken by the very tick its
\* timeout is due.
WaitFailsOnlyOnTimeout ==
    [][\A s \in Sem : \A p \in tasks_blocked[s] \cap tasks_blocked'[s] :
          p \in os_delay_mask \cap os_ready_mask'
             => os_tick_counter' # os_tick_counter /\ wake[p] = os_tick_counter']_all_vars

\* For the tasks, the semaphores and the scheduler together are semaphores that
\* keep their promises: a token signalled is taken once, by a task that finds it
\* to spare or by the waiter it was promised to (semaphore.c:79-88, :113-203).
\* The mapping forgets the counts; it is TokensConserved that finds them again.
Promised == {t \in Task : \E s \in Sem : t \in Granted(s)}

Semaphores == INSTANCE CountingSemaphore WITH
    Max        <- OS_TASK_MAX,
    Clock      <- TICK_MOD,
    Naps       <- Delays,
    Wakeable   <- AlarmTask,
    Nobody     <- NULL,
    Client     <- Task,
    Semaphore  <- Sem,
    Binary     <- Sem \ Counting,
    Initial    <- InitialCount,
    Limit      <- CountBound,
    Patience   <- Timeouts,
    Disturbing <- StopsWaiters,
    running    <- os_task_current,
    ready      <- os_ready_mask,
    due        <- [p \in os_delay_mask |-> wake[p]],
    now        <- os_tick_counter,
    alive      <- {p \in Priority : os_tasks[p] # NULL},
    late       <- unsched,
    switching  <- pendsv,
    visit      <- waiting,
    promised   <- Promised
IsCountingSemaphore == Semaphores!SemaphoreSpec

\* A wait returns: the most urgent task is never stuck in os_semaphore_wait,
\* signal or no signal.
MostUrgentTask == OS_GET_HIGHEST_PRIO_TASK_FROM_MASK(Task)
WaitEnds == waiting[MostUrgentTask] # NULL ~> waiting[MostUrgentTask] = NULL

=============================================================================
