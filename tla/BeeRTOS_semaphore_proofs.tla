----------------------- MODULE BeeRTOS_semaphore_proofs -----------------------
(***************************************************************************)
(* Proofs about the semaphores, for any number of tasks and semaphores.    *)
(* Tasks start only tasks that exist (RestartDeleted is FALSE).  They may  *)
(* stop and start those that wait for a semaphore, except where a theorem  *)
(* is about the sleep of the waiters (StopsWaiters is FALSE).              *)
(***************************************************************************)
EXTENDS BeeRTOS_semaphore, BeeRTOS_scheduler_proofs, FiniteSetTheorems

SemTypes ==
    /\ count \in [Sem -> 0 .. CountBound]
    /\ tasks_blocked \in [Sem -> SUBSET (Priority \ {OS_TASK_IDLE})]
    /\ waiting \in [Task -> Sem \cup {NULL}]
    /\ tokens \in [Sem -> Int]

SemInv ==
    /\ SemTypes
    /\ BlockedAreWaiting
    /\ NoWaitWithTokens
    /\ TokensConserved

-----------------------------------------------------------------------------
(***************************************************************************)
(* The steps of the semaphores are steps of the scheduler.                 *)
(***************************************************************************)
\* The task a signal releases.
LEMMA Chosen ==
    ASSUME KernelInv, SemInv, NEW s \in Sem, tasks_blocked[s] # {}
    PROVE  \E p \in tasks_blocked[s] :
              /\ \A q \in tasks_blocked[s] : q <= p
              /\ p \in Priority \ {OS_TASK_IDLE}
              /\ p = OS_GET_HIGHEST_PRIO_TASK_FROM_MASK(tasks_blocked[s])
              /\ os_tasks[p] = p /\ p \in Task /\ priority[p] = p /\ waiting[p] = s
<1> DEFINE h == OS_GET_HIGHEST_PRIO_TASK_FROM_MASK(tasks_blocked[s])
<1>1. tasks_blocked[s] \subseteq Priority \ {OS_TASK_IDLE}
  BY DEF SemInv, SemTypes
<1>2. h \in tasks_blocked[s] /\ \A q \in tasks_blocked[s] : q <= h
  BY <1>1, HighestBit
<1> HIDE DEF h
<1>3. os_tasks[h] = h /\ waiting[h] = s /\ h # NULL
  BY <1>1, <1>2, NullAssumption DEF SemInv, BlockedAreWaiting
<1>4. h \in Task /\ priority[h] = h
  <2>1. h \in Task
    BY <1>1, <1>2, <1>3 DEF KernelInv, TypeInv, TypeOK
  <2> QED BY <2>1 DEF KernelInv, TypeInv
<1> QED BY <1>1, <1>2, <1>3, <1>4 DEF h

\* What a signal with a waiter does.
LEMMA Releases ==
    ASSUME KernelInv, SemInv, NEW s \in Sem, tasks_blocked[s] # {},
           os_sem_unlock_waiting_task(s)
    PROVE  \E p \in tasks_blocked[s] :
              /\ \A q \in tasks_blocked[s] : q <= p
              /\ p \in Task /\ waiting[p] = s
              /\ tasks_blocked' = [tasks_blocked EXCEPT ![s] = @ \ {p}]
              /\ MakeReady({p}) /\ UNCHANGED os_tasks
              /\ \E id \in TaskId : PriorityOf(id) = p /\ os_task_release(id)
<1>1. PICK p \in tasks_blocked[s] :
              /\ \A q \in tasks_blocked[s] : q <= p
              /\ p \in Priority \ {OS_TASK_IDLE}
              /\ p = OS_GET_HIGHEST_PRIO_TASK_FROM_MASK(tasks_blocked[s])
              /\ os_tasks[p] = p /\ p \in Task /\ priority[p] = p /\ waiting[p] = s
  BY Chosen
<1>2. /\ tasks_blocked' = [tasks_blocked EXCEPT ![s] = @ \ {p}]
      /\ os_task_release(OS_GET_TASK_ID_FROM_PRIORITY(p))
  BY <1>1 DEF os_sem_unlock_waiting_task
<1>3. MakeReady({p}) /\ UNCHANGED os_tasks
  BY <1>1, <1>2, IdOfTask DEF os_task_release
<1> QED BY <1>1, <1>2, <1>3, IdOfTask

LEMMA SemStepIsKernelStep ==
    ASSUME KernelInv, SemInv, [SemNext]_all_vars
    PROVE  [Next]_vars
<1>1. CASE (PendSV_Handler \/ SysTick) /\ UNCHANGED sem_vars
  BY <1>1 DEF Next
<1>2. CASE KernelCall
  <2>1. \A t \in Task \ {OS_TASK_IDLE} : OS_GET_TASK_ID_FROM_PRIORITY(t) \in TaskId
    BY IdOfTask, ConstantFacts
  <2> QED BY <1>2, <2>1 DEF KernelCall, Next
<1>3. ASSUME NEW s \in Sem, NEW timeout \in Timeouts, os_semaphore_wait(s, timeout)
      PROVE  [Next]_vars
  <2>1. CASE TakeToken(s) \/ DoNotWait(s, timeout)
    BY <2>1 DEF TakeToken, DoNotWait, all_vars
  <2>2. CASE Block(s, timeout)
    <3>1. timeout \in Delays
      BY <2>2, SemAssumption DEF Block
    <3> QED BY <2>2, <3>1 DEF Block, Next
  <2> QED BY <1>3, <2>1, <2>2 DEF os_semaphore_wait
<1>4. ASSUME NEW s \in Sem, os_semaphore_signal(s) PROVE [Next]_vars
  <2>1. CASE UNCHANGED vars
    BY <2>1
  <2>2. CASE tasks_blocked[s] # {} /\ os_sem_unlock_waiting_task(s)
    <3>1. \E id \in TaskId : os_task_release(id)
      BY <2>2, Releases
    <3> QED BY <3>1 DEF Next
  <2> QED BY <1>4, <2>1, <2>2 DEF os_semaphore_signal
<1>5. ASSUME NEW t \in Task, WaitReturns(t) PROVE [Next]_vars
  BY <1>5 DEF WaitReturns, os_semaphore_wait_return
<1>6. CASE UNCHANGED all_vars
  BY <1>6 DEF all_vars
<1> QED BY <1>1, <1>2, <1>3, <1>4, <1>5, <1>6 DEF SemNext

-----------------------------------------------------------------------------
(***************************************************************************)
(* What the scheduler's steps leave of a waiter: its slot, whatever other  *)
(* tasks call; and, if they leave it alone, its place in the masks.        *)
(***************************************************************************)
Spared(t) ==
    /\ t \in os_ready_mask => t \in os_ready_mask'
    /\ t \in os_ready_mask \cup os_delay_mask => t \in os_ready_mask' \cup os_delay_mask'

Waiters == {t \in Task : waiting[t] # NULL}

SchedulerMoves ==
    \/ (PendSV_Handler \/ SysTick) /\ UNCHANGED sem_vars
    \/ KernelCall
    \/ UNCHANGED all_vars

\* A task that deletes itself or delays is not inside a wait.
LEMMA CallerNoWaiter ==
    ASSUME KernelInv, Calling
    PROVE  /\ os_task_current \in Task /\ os_task_current \notin Waiters
           /\ priority[os_task_current] = os_task_current
BY Caller DEF Calling, Waiters

LEMMA WaitersKeepSlots ==
    ASSUME KernelInv, SchedulerMoves
    PROVE  \A t \in Waiters : os_tasks'[t] = os_tasks[t]
<1>1. CASE PendSV_Handler \/ SysTick \/ UNCHANGED all_vars
  BY <1>1 DEF PendSV_Handler, SysTick, SysTick_Handler, all_vars, vars
<1>2. CASE KernelCall
  <2>1. CASE \/ \E id : os_task_start(id) \/ os_task_stop(id) \/ os_task_release(id)
             \/ \E n \in Delays : os_delay(n)
    BY <2>1 DEF os_task_start, os_task_stop, os_task_release, os_delay
  <2>2. CASE os_task_delete
    <3>1. os_tasks \in [Priority -> Task \cup {NULL}] /\ Waiters \subseteq Priority
      BY ConstantFacts DEF KernelInv, TypeInv, TypeOK, Waiters
    <3>2. Calling
      BY <1>2 DEF KernelCall
    <3> QED BY <2>2, <3>1, <3>2, CallerNoWaiter DEF os_task_delete
  <2> QED BY <1>2, <2>1, <2>2 DEF KernelCall
<1> QED BY <1>1, <1>2 DEF SchedulerMoves

LEMMA WaitersSpared ==
    ASSUME StopsWaiters = FALSE, KernelInv, SchedulerMoves
    PROVE  \A t \in Waiters : Spared(t)
<1> SUFFICES ASSUME NEW t \in Waiters PROVE Spared(t)
  OBVIOUS
<1>0. t \in Task /\ waiting[t] # NULL
  BY DEF Waiters
<1>1. CASE PendSV_Handler \/ UNCHANGED all_vars
  BY <1>1 DEF PendSV_Handler, masks, all_vars, vars, Spared
<1>2. CASE SysTick
  <2>1. \E ps : MakeReady(ps)
    BY <1>2 DEF SysTick, SysTick_Handler, os_tick, os_task_tick
  <2> QED BY <2>1 DEF MakeReady, Spared
<1>3. ASSUME NEW u \in Task \ {OS_TASK_IDLE}, waiting[u] = NULL,
             NEW id, id = OS_GET_TASK_ID_FROM_PRIORITY(u),
             os_task_start(id) \/ os_task_stop(id) \/ os_task_release(id)
      PROVE  Spared(t)
  <2>1. PriorityOf(id) = u /\ u # t
    BY <1>0, <1>3, IdOfTask, ConstantFacts
  <2> QED BY <1>3, <2>1 DEF os_task_start, os_task_stop, os_task_release, MakeReady,
                            Suspend, Spared
<1>4. ASSUME Calling, os_task_delete \/ (\E n \in Delays : os_delay(n)) PROVE Spared(t)
  BY <1>4, CallerNoWaiter DEF os_task_delete, os_delay, Suspend, Sleep, Spared
<1>5. CASE KernelCall
  BY <1>3, <1>4, <1>5 DEF KernelCall
<1> QED BY <1>1, <1>2, <1>5 DEF SchedulerMoves

LEMMA InsideAreWaiters ==
    ASSUME KernelInv, SemInv, NEW s \in Sem, NEW p \in tasks_blocked[s] \cup Granted(s)
    PROVE  p \in Waiters /\ p \in Priority /\ waiting[p] = s
<1>1. s # NULL
  BY SemAssumption
<1>2. CASE p \in Granted(s)
  BY <1>1, <1>2, ConstantFacts DEF Granted, Waiters
<1>3. CASE p \in tasks_blocked[s]
  <2>1. waiting[p] = s /\ os_tasks[p] = p /\ p \in Priority
    BY <1>3 DEF SemInv, BlockedAreWaiting, SemTypes
  <2>2. p \in Task
    BY <2>1, NullAssumption DEF KernelInv, TypeInv, TypeOK
  <2> QED BY <1>1, <2>1, <2>2 DEF Waiters
<1> QED BY <1>2, <1>3

\* With the semaphores as they were, all that counts is the waiters' slots.
LEMMA SlotsKeep ==
    ASSUME KernelInv, SemInv, UNCHANGED sem_vars,
           \A t \in Waiters : os_tasks'[t] = os_tasks[t]
    PROVE  SemInv' /\ \A s \in Sem : Granted(s)' = Granted(s)
<1>1. UNCHANGED <<count, tasks_blocked, waiting, tokens>>
  BY DEF sem_vars
<1>2. \A s \in Sem : Granted(s)' = Granted(s)
  BY <1>1 DEF Granted
<1>3. SemTypes' /\ NoWaitWithTokens'
  BY <1>1 DEF SemInv, SemTypes, NoWaitWithTokens
<1>4. TokensConserved'
  BY <1>1, <1>2 DEF SemInv, TokensConserved
<1>5. BlockedAreWaiting'
  BY <1>1, InsideAreWaiters DEF SemInv, BlockedAreWaiting
<1> QED BY <1>2, <1>3, <1>4, <1>5 DEF SemInv

LEMMA UnchangedKeeps ==
    ASSUME KernelInv, SemInv, UNCHANGED all_vars
    PROVE  SemInv' /\ (NoWaiterSuspended => NoWaiterSuspended')
<1>1. UNCHANGED <<sem_vars, os_tasks, masks>>
  BY DEF all_vars, vars, masks
<1>2. SemInv' /\ \A s \in Sem : Granted(s)' = Granted(s)
  BY <1>1, SlotsKeep
<1> QED BY <1>1, <1>2 DEF NoWaiterSuspended, sem_vars, masks

LEMMA SchedulerKeeps ==
    ASSUME KernelInv, SemInv, SchedulerMoves
    PROVE  /\ SemInv'
           /\ StopsWaiters = FALSE /\ NoWaiterSuspended => NoWaiterSuspended'
<1>1. UNCHANGED <<count, tasks_blocked, waiting, tokens>>
  BY DEF SchedulerMoves, KernelCall, sem_vars, all_vars
<1>2. SemInv' /\ \A s \in Sem : Granted(s)' = Granted(s)
  BY <1>1, SlotsKeep, WaitersKeepSlots DEF sem_vars
<1>3. ASSUME StopsWaiters = FALSE, NoWaiterSuspended PROVE NoWaiterSuspended'
  <2>1. \A s \in Sem : \A p \in tasks_blocked[s] \cup Granted(s) : Spared(p)
    BY <1>3, InsideAreWaiters, WaitersSpared
  <2> QED BY <1>1, <1>2, <1>3, <2>1 DEF NoWaiterSuspended, Spared
<1> QED BY <1>2, <1>3

LEMMA GrantedFinite ==
    ASSUME NEW s \in Sem
    PROVE  IsFiniteSet(Granted(s)) /\ Cardinality(Granted(s)) \in Nat
<1>1. IsFiniteSet(0 .. OS_TASK_MAX - 1)
  BY TaskMaxAssumption, FS_Interval
<1>2. Granted(s) \subseteq 0 .. OS_TASK_MAX - 1
  BY DEF Granted, Task, Priority
<1>3. IsFiniteSet(Granted(s))
  BY <1>1, <1>2, FS_Subset
<1> QED BY <1>3, FS_CardinalityType

-----------------------------------------------------------------------------
(***************************************************************************)
(* The operations of the semaphores keep the invariant.                    *)
(***************************************************************************)
LEMMA WaitKeeps ==
    ASSUME KernelInv, KernelInv', SemInv,
           NEW s \in Sem, NEW timeout \in Timeouts, os_semaphore_wait(s, timeout)
    PROVE  SemInv' /\ (NoWaiterSuspended => NoWaiterSuspended')
<1>1. CASE TakeToken(s)
  <2>1. /\ count[s] > 0 /\ UNCHANGED <<vars, tasks_blocked, waiting>>
        /\ count' = [count EXCEPT ![s] = count[s] - 1]
        /\ tokens' = [tokens EXCEPT ![s] = tokens[s] - 1]
    BY <1>1 DEF TakeToken
  <2>2. \A r \in Sem : Granted(r)' = Granted(r)
    BY <2>1 DEF Granted
  <2>3. SemTypes'
    BY <2>1, SemAssumption DEF SemInv, SemTypes
  <2>4. TokensConserved'
    <3>1. \A r \in Sem : Cardinality(Granted(r)) \in Nat
      BY GrantedFinite
    <3> QED BY <2>1, <2>2, <3>1 DEF SemInv, SemTypes, TokensConserved
  <2>5. BlockedAreWaiting' /\ NoWaitWithTokens' /\ (NoWaiterSuspended => NoWaiterSuspended')
    BY <2>1, <2>2 DEF SemInv, SemTypes, BlockedAreWaiting, NoWaiterSuspended,
                      NoWaitWithTokens, vars
  <2> QED BY <2>3, <2>4, <2>5 DEF SemInv
<1>2. CASE Block(s, timeout)
  <2> DEFINE t == os_task_current
  <2>1. /\ t \in Task \ {OS_TASK_IDLE} /\ t \in Priority \ {OS_TASK_IDLE}
        /\ priority[t] = t /\ os_tasks[t] = t /\ waiting[t] = NULL
    BY Caller DEF os_semaphore_wait, Calling
  <2>2. /\ count[s] = 0 /\ UNCHANGED <<count, tokens, os_tasks>>
        /\ tasks_blocked' = [tasks_blocked EXCEPT ![s] = tasks_blocked[s] \cup {t}]
        /\ waiting' = [waiting EXCEPT ![t] = s]
        /\ os_ready_mask' = os_ready_mask \ {t}
        /\ os_delay_mask' = os_delay_mask \cup {t}
    BY <1>2, <2>1 DEF Block, os_delay, Sleep
  <2> HIDE DEF t
  <2>3. SemTypes'
    BY <2>1, <2>2 DEF SemInv, SemTypes
  <2>4. \A r \in Sem : t \notin tasks_blocked[r] \cup Granted(r)
    BY <2>1, InsideAreWaiters DEF Waiters
  <2>5. \A r \in Sem : Granted(r)' = Granted(r)
    BY <2>1, <2>2, <2>4 DEF Granted, SemInv, SemTypes
  <2>6. TokensConserved'
    BY <2>2, <2>5 DEF SemInv, TokensConserved
  <2>7. NoWaitWithTokens'
    BY <2>2 DEF SemInv, SemTypes, NoWaitWithTokens
  <2>8. BlockedAreWaiting'
    <3> SUFFICES ASSUME NEW r \in Sem, NEW p \in tasks_blocked'[r]
                 PROVE  os_tasks'[p] = p /\ waiting'[p] = r
      BY DEF BlockedAreWaiting
    <3>1. CASE p = t
      BY <2>1, <2>2, <2>4, <3>1 DEF SemInv, SemTypes
    <3>2. CASE p # t
      <4>1. p \in tasks_blocked[r]
        BY <2>2, <3>2 DEF SemInv, SemTypes
      <4>2. p \in Task /\ waiting[p] = r /\ os_tasks[p] = p
        BY <4>1, InsideAreWaiters DEF Waiters, SemInv, BlockedAreWaiting
      <4> QED BY <2>2, <3>2, <4>2 DEF SemInv, SemTypes
    <3> QED BY <3>1, <3>2
  <2>9. NoWaiterSuspended => NoWaiterSuspended'
    BY <2>2, <2>4, <2>5 DEF SemInv, SemTypes, NoWaiterSuspended
  <2> QED BY <2>3, <2>6, <2>7, <2>8, <2>9 DEF SemInv
<1>3. CASE DoNotWait(s, timeout)
  BY <1>3, UnchangedKeeps DEF DoNotWait
<1> QED BY <1>1, <1>2, <1>3 DEF os_semaphore_wait

LEMMA ReturnKeeps ==
    ASSUME KernelInv, SemInv, NEW s \in Sem, os_semaphore_wait_return(s)
    PROVE  SemInv' /\ (NoWaiterSuspended => NoWaiterSuspended')
<1> DEFINE t == os_task_current
<1>1. t \in Task /\ priority[t] = t
  BY Caller DEF os_semaphore_wait_return
<1>2. /\ waiting[t] = s
      /\ tasks_blocked' = [tasks_blocked EXCEPT ![s] = tasks_blocked[s] \ {t}]
      /\ waiting' = [waiting EXCEPT ![t] = NULL]
      /\ tokens' = [tokens EXCEPT ![s] = IF t \notin tasks_blocked[s]
                                         THEN tokens[s] - 1 ELSE tokens[s]]
      /\ UNCHANGED <<vars, count>>
  BY <1>1 DEF os_semaphore_wait_return, Acquired
<1> HIDE DEF t
<1>3. SemTypes'
  BY <1>1, <1>2 DEF SemInv, SemTypes
<1>4. \A r \in Sem : r # NULL
  BY SemAssumption
<1>5. \A r \in Sem \ {s} : t \notin tasks_blocked[r] \cup Granted(r)
  BY <1>2, InsideAreWaiters
<1>6. \A r \in Sem : Granted(r)' = Granted(r) \ {t}
  BY <1>1, <1>2, <1>4, <1>5 DEF Granted, SemInv, SemTypes
<1>7. TokensConserved'
  <2> SUFFICES ASSUME NEW r \in Sem
               PROVE  tokens'[r] = count'[r] + Cardinality(Granted(r)')
    BY DEF TokensConserved
  <2>1. tokens[r] = count[r] + Cardinality(Granted(r)) /\ Cardinality(Granted(r)) \in Nat
    BY GrantedFinite DEF SemInv, TokensConserved
  <2>2. t \in Granted(r) <=> r = s /\ t \notin tasks_blocked[s]
    BY <1>1, <1>2, <1>5 DEF Granted
  <2>3. Cardinality(Granted(r) \ {t})
          = IF t \in Granted(r) THEN Cardinality(Granted(r)) - 1 ELSE Cardinality(Granted(r))
    BY GrantedFinite, FS_RemoveElement
  <2>4. Granted(r)' = Granted(r) \ {t}
    BY <1>6
  <2>5. count[r] \in Int /\ count' = count /\ tokens \in [Sem -> Int]
    BY <1>2, SemAssumption DEF SemInv, SemTypes
  <2>6. tokens'[r] = IF t \in Granted(r) THEN tokens[r] - 1 ELSE tokens[r]
    BY <1>2, <2>2, <2>5
  <2> QED BY <2>1, <2>3, <2>4, <2>5, <2>6
<1>8. NoWaitWithTokens'
  BY <1>2 DEF SemInv, SemTypes, NoWaitWithTokens
<1>9. BlockedAreWaiting'
  <2> SUFFICES ASSUME NEW r \in Sem, NEW p \in tasks_blocked'[r]
               PROVE  os_tasks'[p] = p /\ waiting'[p] = r
    BY DEF BlockedAreWaiting
  <2>1. p \in tasks_blocked[r] /\ p # t
    BY <1>2, <1>5 DEF SemInv, SemTypes
  <2>2. p \in Task /\ waiting[p] = r /\ os_tasks[p] = p
    BY <2>1, InsideAreWaiters DEF Waiters, SemInv, BlockedAreWaiting
  <2> QED BY <1>2, <2>1, <2>2 DEF SemInv, SemTypes, vars
<1>10. NoWaiterSuspended => NoWaiterSuspended'
  BY <1>2, <1>6 DEF SemInv, SemTypes, NoWaiterSuspended, vars
<1> QED BY <1>3, <1>7, <1>8, <1>9, <1>10 DEF SemInv

LEMMA SignalKeeps ==
    ASSUME KernelInv, SemInv, NEW s \in Sem, os_semaphore_signal(s)
    PROVE  SemInv' /\ (NoWaiterSuspended => NoWaiterSuspended')
<1>0. /\ \A r \in Sem : Cardinality(Granted(r)) \in Nat
      /\ count[s] < CountBound /\ UNCHANGED waiting
  BY GrantedFinite DEF os_semaphore_signal
<1>1. ASSUME tasks_blocked[s] # {}, os_sem_unlock_waiting_task(s),
             tokens' = [tokens EXCEPT ![s] = tokens[s] + 1], UNCHANGED count
      PROVE  SemInv' /\ (NoWaiterSuspended => NoWaiterSuspended')
  <2>1. PICK p \in tasks_blocked[s] :
              /\ \A q \in tasks_blocked[s] : q <= p
              /\ p \in Task /\ waiting[p] = s
              /\ tasks_blocked' = [tasks_blocked EXCEPT ![s] = @ \ {p}]
              /\ MakeReady({p}) /\ UNCHANGED os_tasks
              /\ \E id \in TaskId : PriorityOf(id) = p /\ os_task_release(id)
    BY <1>1, Releases
  <2>2. SemTypes'
    BY <1>0, <1>1, <2>1 DEF SemInv, SemTypes
  <2>3. /\ p \notin Granted(s) /\ Granted(s)' = Granted(s) \cup {p}
        /\ \A r \in Sem \ {s} : Granted(r)' = Granted(r)
    BY <1>0, <2>1 DEF Granted, SemInv, SemTypes
  <2>4. TokensConserved'
    <3> SUFFICES ASSUME NEW r \in Sem
                 PROVE  tokens'[r] = count'[r] + Cardinality(Granted(r)')
      BY DEF TokensConserved
    <3>1. Cardinality(Granted(s) \cup {p}) = Cardinality(Granted(s)) + 1
      BY <2>3, GrantedFinite, FS_AddElement
    <3>2. /\ tokens[r] = count[r] + Cardinality(Granted(r))
          /\ tokens \in [Sem -> Int] /\ count[r] \in Int
      BY SemAssumption DEF SemInv, SemTypes, TokensConserved
    <3>3. CASE r = s
      <4>1. Cardinality(Granted(r)') = Cardinality(Granted(r)) + 1
        BY <2>3, <3>1, <3>3
      <4>2. tokens'[r] = tokens[r] + 1 /\ count'[r] = count[r]
        BY <1>1, <3>2, <3>3
      <4> QED BY <1>0, <3>2, <4>1, <4>2
    <3>4. CASE r # s
      <4>1. Granted(r)' = Granted(r)
        BY <2>3, <3>4
      <4>2. tokens'[r] = tokens[r] /\ count'[r] = count[r]
        BY <1>1, <3>2, <3>4
      <4> QED BY <3>2, <4>1, <4>2
    <3> QED BY <3>3, <3>4
  <2>5. NoWaitWithTokens' /\ BlockedAreWaiting'
    BY <1>0, <1>1, <2>1 DEF SemInv, SemTypes, NoWaitWithTokens, BlockedAreWaiting
  <2>6. NoWaiterSuspended => NoWaiterSuspended'
    BY <2>1, <2>3 DEF SemInv, SemTypes, NoWaiterSuspended, MakeReady
  <2> QED BY <2>2, <2>4, <2>5, <2>6 DEF SemInv
<1>2. ASSUME tasks_blocked[s] = {}, UNCHANGED <<vars, tasks_blocked>>,
             count' = [count EXCEPT ![s] = count[s] + 1],
             tokens' = [tokens EXCEPT ![s] = tokens[s] + 1]
      PROVE  SemInv' /\ (NoWaiterSuspended => NoWaiterSuspended')
  <2>1. \A r \in Sem : Granted(r)' = Granted(r)
    BY <1>0, <1>2 DEF Granted
  <2>2. SemTypes'
    BY <1>0, <1>2, SemAssumption DEF SemInv, SemTypes
  <2>3. TokensConserved'
    BY <1>0, <1>2, <2>1, SemAssumption DEF SemInv, SemTypes, TokensConserved
  <2>4. NoWaitWithTokens' /\ BlockedAreWaiting' /\ (NoWaiterSuspended => NoWaiterSuspended')
    BY <1>0, <1>2, <2>1 DEF SemInv, SemTypes, NoWaitWithTokens, BlockedAreWaiting,
                            NoWaiterSuspended, vars
  <2> QED BY <2>2, <2>3, <2>4 DEF SemInv
<1>3. CASE UNCHANGED all_vars
  BY <1>3, UnchangedKeeps
<1> QED BY <1>1, <1>2, <1>3 DEF os_semaphore_signal, all_vars, sem_vars

LEMMA SemInitial == SemInit => SemInv /\ NoWaiterSuspended
<1> SUFFICES ASSUME SemInit PROVE SemInv /\ NoWaiterSuspended
  OBVIOUS
<1>1. SemTypes
  BY SemAssumption DEF SemInit, SemTypes
<1>2. \A s \in Sem : Granted(s) = {}
  BY SemAssumption DEF SemInit, Granted
<1>3. TokensConserved
  BY <1>2, FS_EmptySet, SemAssumption DEF SemInit, TokensConserved
<1> QED BY <1>1, <1>2, <1>3
        DEF SemInit, SemInv, BlockedAreWaiting, NoWaiterSuspended, NoWaitWithTokens

LEMMA SemStep ==
    ASSUME KernelInv, KernelInv', SemInv, [SemNext]_all_vars
    PROVE  /\ SemInv'
           /\ StopsWaiters = FALSE /\ NoWaiterSuspended => NoWaiterSuspended'
<1>1. CASE SchedulerMoves
  BY <1>1, SchedulerKeeps
<1>2. CASE \E s \in Sem : \E timeout \in Timeouts : os_semaphore_wait(s, timeout)
  BY <1>2, WaitKeeps
<1>3. CASE \E s \in Sem : os_semaphore_signal(s)
  BY <1>3, SignalKeeps
<1>4. CASE \E t \in Task : WaitReturns(t)
  BY <1>4, ReturnKeeps DEF WaitReturns
<1> QED BY <1>1, <1>2, <1>3, <1>4 DEF SemNext, SchedulerMoves

LEMMA SemInvariant ==
    ASSUME RestartDeleted = FALSE
    PROVE  SemSpec => []KernelInv /\ []SemInv /\ [][Next]_vars
<1> DEFINE Inv == KernelInv /\ SemInv
<1>1. SemInit => Inv
  BY SemInitial, TypeInit, SchedInit DEF SemInit, KernelInv
<1>2. Inv /\ [SemNext]_all_vars => [Next]_vars
  BY SemStepIsKernelStep
<1>3. KernelInv /\ [Next]_vars => KernelInv'
  BY TypeStep, SchedStep DEF KernelInv
<1>4. Inv /\ KernelInv' /\ [SemNext]_all_vars => SemInv'
  BY SemStep
<1>5. Inv => KernelInv /\ SemInv
  OBVIOUS
<1>6. Inv /\ [SemNext]_all_vars => Inv'
  BY <1>2, <1>3, <1>4
<1> HIDE DEF Inv
<1> QED BY <1>1, <1>2, <1>5, <1>6, PTL DEF SemSpec

-----------------------------------------------------------------------------
\* Whatever is proved of the scheduler holds while tasks use semaphores: every
\* step of os_semaphore_wait and os_semaphore_signal is, for the scheduler, a
\* call of os_delay or os_task_release, or nothing (semaphore.c:79-88, :135).
THEOREM SemaphoresUseTheScheduler ==
    ASSUME RestartDeleted = FALSE
    PROVE  SemSpec => Spec
<1>1. SemInit => Init
  BY DEF SemInit
<1> QED BY <1>1, SemInvariant, PTL DEF SemSpec, Spec

\* Counts stay within their bound, masks hold tasks' priorities, and a task waits
\* for one semaphore at most.
THEOREM SemTypeCorrect ==
    ASSUME RestartDeleted = FALSE
    PROVE  SemSpec => []SemTypeOK
<1>1. KernelInv /\ SemInv => SemTypeOK
  BY DEF KernelInv, TypeInv, SemInv, SemTypes, SemTypeOK
<1> QED BY <1>1, SemInvariant, PTL

\* No interleaving of signals, timeouts and waits loses or makes up a token.
THEOREM TokensAreConserved ==
    ASSUME RestartDeleted = FALSE
    PROVE  SemSpec => []TokensConserved
<1>1. SemInv => TokensConserved
  BY DEF SemInv
<1> QED BY <1>1, SemInvariant, PTL

\* A bit of tasks_blocked stands for a task in its own slot that waits for that
\* very semaphore: a signal never releases anybody else (semaphore.c:81-86).
THEOREM BlockedAreWaitingAlways ==
    ASSUME RestartDeleted = FALSE
    PROVE  SemSpec => []BlockedAreWaiting
<1>1. SemInv => BlockedAreWaiting
  BY DEF SemInv
<1> QED BY <1>1, SemInvariant, PTL

\* Every task inside a wait sleeps or is ready: none is lost to the scheduler.
THEOREM WaitersAreSafe ==
    ASSUME RestartDeleted = FALSE, StopsWaiters = FALSE
    PROVE  SemSpec => []NoWaiterSuspended
<1>1. SemInit => NoWaiterSuspended
  BY SemInitial
<1>2. KernelInv /\ KernelInv' /\ SemInv /\ NoWaiterSuspended /\ [SemNext]_all_vars
         => NoWaiterSuspended'
  BY SemStep
<1> QED BY <1>1, <1>2, SemInvariant, PTL DEF SemSpec

\* Nobody sleeps on a semaphore that has tokens.
THEOREM TokensAreNotHeldBack ==
    ASSUME RestartDeleted = FALSE
    PROVE  SemSpec => []NoWaitWithTokens
<1>1. SemInv => NoWaitWithTokens
  BY DEF SemInv
<1> QED BY <1>1, SemInvariant, PTL

\* A signal passes no waiter by for a less urgent one (semaphore.c:81-83).
THEOREM GrantsByUrgency ==
    ASSUME RestartDeleted = FALSE
    PROVE  SemSpec => MostUrgentGranted
<1> DEFINE ByUrgency == \A s \in Sem : \A p, q \in tasks_blocked[s] :
                           p \in Granted(s)' /\ q \in tasks_blocked'[s] => q < p
<1>1. ASSUME KernelInv, SemInv, [SemNext]_all_vars PROVE [ByUrgency]_all_vars
  <2> SUFFICES ASSUME NEW s \in Sem, NEW p \in tasks_blocked[s], NEW q \in tasks_blocked[s],
                      p \in Granted(s)', q \in tasks_blocked'[s], SemNext
               PROVE  q < p
    BY <1>1
  <2>1. waiting'[p] = s /\ p \notin tasks_blocked'[s] /\ s # NULL /\ p \in Task
    BY SemAssumption DEF Granted
  <2>2. \A r \in Sem, timeout \in Timeouts : ~os_semaphore_wait(r, timeout)
    BY <1>1, <2>1 DEF os_semaphore_wait, TakeToken, Block, DoNotWait, all_vars, sem_vars,
                      SemInv, SemTypes
  <2>3. \A t \in Task : ~WaitReturns(t)
    <3> SUFFICES ASSUME NEW r \in Sem, os_semaphore_wait_return(r) PROVE FALSE
      BY DEF WaitReturns
    <3>1. os_task_current \in Task /\ priority[os_task_current] = os_task_current
      BY <1>1, Caller DEF os_semaphore_wait_return
    <3>2. os_task_current = p
      BY <1>1, <2>1, <3>1 DEF os_semaphore_wait_return, SemInv, SemTypes
    <3> QED BY <1>1, <2>1, <3>1, <3>2 DEF os_semaphore_wait_return, SemInv, SemTypes
  <2>4. PICK r \in Sem : os_semaphore_signal(r)
    BY <2>1, <2>2, <2>3 DEF SemNext, KernelCall, sem_vars
  <2>5. tasks_blocked[r] # {} /\ os_sem_unlock_waiting_task(r)
    BY <2>1, <2>4 DEF os_semaphore_signal
  <2>6. PICK h \in tasks_blocked[r] :
              /\ \A u \in tasks_blocked[r] : u <= h
              /\ tasks_blocked' = [tasks_blocked EXCEPT ![r] = @ \ {h}]
    BY <1>1, <2>5, Releases
  <2>7. r = s /\ h = p
    BY <1>1, <2>1, <2>6 DEF SemInv, SemTypes
  <2>8. q <= p /\ q # p /\ p \in Int /\ q \in Int
    BY <1>1, <2>1, <2>6, <2>7, ConstantFacts DEF SemInv, SemTypes
  <2> QED BY <2>8
<1> QED BY <1>1, SemInvariant, PTL DEF SemSpec, MostUrgentGranted

\* A wait that fails has lasted its whole timeout: but for a signal, only the
\* tick at which the timeout is due wakes a waiter (semaphore.c:111).  A waiter
\* that is the alarm task could be woken by an alarm: there is none here.
THEOREM WaitsLastTheirTimeout ==
    ASSUME RestartDeleted = FALSE, StopsWaiters = FALSE, AlarmTask = {}
    PROVE  SemSpec => WaitFailsOnlyOnTimeout
<1> DEFINE Fails == \A s \in Sem : \A p \in tasks_blocked[s] \cap tasks_blocked'[s] :
                       p \in os_delay_mask \cap os_ready_mask'
                          => os_tick_counter' # os_tick_counter /\ wake[p] = os_tick_counter'
<1>1. ASSUME KernelInv, KernelInv', SemInv, [SemNext]_all_vars, [DelaysEndOnTime]_vars
      PROVE  [Fails]_all_vars
  <2> SUFFICES ASSUME NEW s \in Sem, NEW p \in tasks_blocked[s] \cap tasks_blocked'[s],
                      p \in os_delay_mask \cap os_ready_mask', SemNext
               PROVE  os_tick_counter' # os_tick_counter /\ wake[p] = os_tick_counter'
    BY <1>1
  <2>1. p \notin os_ready_mask /\ p \notin os_delay_mask'
    BY <1>1 DEF KernelInv, SchedInv, ReadyOrDelayed
  <2>2. CASE SysTick
    <3>1. os_tick_counter' # os_tick_counter
      BY <1>1, <2>2, TickMoves DEF KernelInv, TypeInv
    <3>2. DelaysEndOnTime
      BY <1>1, <3>1 DEF vars
    <3> QED BY <2>1, <3>1, <3>2 DEF DelaysEndOnTime
  <2>3. CASE ~SysTick
    <3>1. waiting[p] = s /\ p \in Waiters
      BY <1>1, InsideAreWaiters
    <3>2. ~(PendSV_Handler /\ UNCHANGED sem_vars)
      BY <2>1 DEF PendSV_Handler, masks
    <3>3. ~KernelCall
      <4> SUFFICES ASSUME KernelCall PROVE FALSE
        OBVIOUS
      <4>1. \A u \in Task \ {OS_TASK_IDLE} :
               PriorityOf(OS_GET_TASK_ID_FROM_PRIORITY(u)) = u
        BY IdOfTask, ConstantFacts
      <4>2. /\ os_task_delete => p \notin os_ready_mask'
            /\ \A n \in Delays : os_delay(n) => p \notin os_ready_mask'
        BY <2>1 DEF os_task_delete, os_delay, Suspend, Sleep
      <4>3. ASSUME NEW u \in Task \ {OS_TASK_IDLE}, waiting[u] = NULL,
                   NEW id, id = OS_GET_TASK_ID_FROM_PRIORITY(u),
                   os_task_start(id) \/ os_task_stop(id) \/ os_task_release(id)
            PROVE  FALSE
        <5>1. PriorityOf(id) = u /\ u # p
          BY <3>1, <4>1, <4>3 DEF Waiters
        <5> QED BY <2>1, <4>3, <5>1 DEF os_task_start, os_task_stop, os_task_release,
                                        MakeReady, Suspend
      <4> QED BY <4>2, <4>3 DEF KernelCall
    <3>4. \A r \in Sem, timeout \in Timeouts : ~os_semaphore_wait(r, timeout)
      BY <2>1 DEF os_semaphore_wait, TakeToken, Block, DoNotWait, all_vars, vars, os_delay, Sleep
    <3>5. \A t \in Task : ~WaitReturns(t)
      BY <2>1 DEF WaitReturns, os_semaphore_wait_return, vars
    <3>6. PICK r \in Sem : os_semaphore_signal(r)
      BY <2>3, <3>2, <3>3, <3>4, <3>5 DEF SemNext
    <3>7. tasks_blocked[r] # {} /\ os_sem_unlock_waiting_task(r)
      BY <2>1, <3>6 DEF os_semaphore_signal, vars
    <3>8. PICK h \in tasks_blocked[r] :
              /\ waiting[h] = r
              /\ tasks_blocked' = [tasks_blocked EXCEPT ![r] = @ \ {h}]
              /\ MakeReady({h})
      BY <1>1, <3>7, Releases
    <3>9. h = p
      BY <2>1, <3>8 DEF MakeReady
    <3> QED BY <1>1, <3>1, <3>8, <3>9 DEF SemInv, SemTypes
  <2> QED BY <2>2, <2>3
<1>2. SemSpec => [][DelaysEndOnTime]_vars
  BY SemaphoresUseTheScheduler, DelayEndsOnTimeAlways DEF DelayEndsOnTime, DelaysEndOnTime
<1> QED BY <1>1, <1>2, SemInvariant, PTL DEF SemSpec, WaitFailsOnlyOnTimeout

-----------------------------------------------------------------------------
(***************************************************************************)
(* The semaphores implement CountingSemaphore.  What that specification    *)
(* sees of the counts are the tokens to spare, of the masks who has not    *)
(* been promised one.                                                      *)
(***************************************************************************)
LEMMA PromisedAt ==
    ASSUME NEW s \in Sem
    PROVE  {t \in Promised : waiting[t] = s} = Granted(s)
BY DEF Promised, Granted

LEMMA SpareIsCount ==
    ASSUME SemInv, NEW s \in Sem
    PROVE  Semaphores!Spare(s) = count[s]
<1> DEFINE at == {t \in Promised : waiting[t] = s}
<1>0. Semaphores!Spare(s) = tokens[s] - Cardinality(at)
  BY DEF Semaphores!Spare, Semaphores!Cardinality, Cardinality
<1>1. at = Granted(s)
  BY PromisedAt
<1> HIDE DEF at
<1>2. tokens[s] = count[s] + Cardinality(Granted(s)) /\ Cardinality(Granted(s)) \in Nat
  BY GrantedFinite DEF SemInv, TokensConserved
<1>3. count[s] \in Int
  BY SemAssumption DEF SemInv, SemTypes
<1> QED BY <1>0, <1>1, <1>2, <1>3

LEMMA HopefulAreBlocked ==
    ASSUME KernelInv, SemInv, NEW s \in Sem
    PROVE  Semaphores!Hopeful(s) = tasks_blocked[s]
<1>1. ASSUME NEW p \in tasks_blocked[s] PROVE p \in Task /\ waiting[p] = s /\ p \notin Promised
  BY InsideAreWaiters DEF Waiters, Promised, Granted
<1>2. ASSUME NEW p \in Task, waiting[p] = s, p \notin Promised PROVE p \in tasks_blocked[s]
  BY <1>2 DEF Promised, Granted
<1> QED BY <1>1, <1>2 DEF Semaphores!Hopeful

\* A task that makes a call outside all waits.
LEMMA CallerIsFree ==
    ASSUME KernelInv, Executing
    PROVE  Semaphores!Acts /\ (Calling => Semaphores!Free)
<1>1. Scheduler!Acts
  BY CallerActs DEF KernelInv
<1> QED BY <1>1 DEF Scheduler!Acts, Semaphores!Acts, Semaphores!Free, Calling

LEMMA WaitIsTakeOrWait ==
    ASSUME KernelInv, KernelInv', SemInv, SemInv', NEW s \in Sem, NEW n \in Timeouts,
           os_semaphore_wait(s, n)
    PROVE  [Semaphores!SemaphoreNext]_(Semaphores!semaphore_vars)
<1>1. Semaphores!Free /\ Semaphores!Spare(s) = count[s]
  BY CallerIsFree, SpareIsCount DEF os_semaphore_wait, Calling
<1>2. CASE TakeToken(s)
  <2>1. UNCHANGED <<Promised, vars, waiting>>
    BY <1>2 DEF TakeToken, Promised, Granted
  <2>2. Semaphores!Take(s)
    BY <1>1, <1>2, <2>1 DEF TakeToken, Semaphores!Take, Semaphores!sched_vars, vars, masks
  <2> QED BY <2>2 DEF Semaphores!SemaphoreNext
<1>3. CASE Block(s, n)
  <2> DEFINE t == os_task_current
  <2>1. t \in Task /\ priority[t] = t /\ waiting[t] = NULL
    BY Caller DEF os_semaphore_wait, Calling
  <2>2. n \in Delays /\ n \in Timeouts \ {0} /\ os_delay(n)
    BY <1>3, SemAssumption DEF Block
  <2>3. Scheduler!Nap(n)
    BY <2>2, DelayIsNap DEF KernelInv
  <2>4. Semaphores!Nap(n)
    BY <2>3 DEF Scheduler!Nap, Semaphores!Nap, Scheduler!Acts, Semaphores!Acts,
                Scheduler!Asleep, Semaphores!Asleep, Scheduler!Decide, Semaphores!Decide,
                Scheduler!Best, Semaphores!Best
  <2>5. /\ waiting' = [waiting EXCEPT ![t] = s]
        /\ tasks_blocked' = [tasks_blocked EXCEPT ![s] = @ \cup {t}]
        /\ count[s] = 0 /\ UNCHANGED tokens
    BY <1>3, <2>1 DEF Block
  <2> HIDE DEF t
  <2>6. \A r \in Sem : t \notin tasks_blocked[r] \cup Granted(r)
    BY <2>1, InsideAreWaiters DEF Waiters
  <2>7. \A r \in Sem : Granted(r)' = Granted(r)
    BY <2>1, <2>5, <2>6 DEF Granted, SemInv, SemTypes
  <2>8. UNCHANGED Promised
    BY <2>7 DEF Promised
  <2>9. Semaphores!Wait(s, n)
    BY <1>1, <2>4, <2>5, <2>8 DEF Semaphores!Wait, t
  <2> QED BY <2>2, <2>9 DEF Semaphores!SemaphoreNext
<1>4. CASE DoNotWait(s, n)
  BY <1>4 DEF DoNotWait, all_vars, sem_vars, vars, masks, Promised, Granted,
              Semaphores!semaphore_vars, Semaphores!sched_vars
<1> QED BY <1>2, <1>3, <1>4 DEF os_semaphore_wait

LEMMA SignalIsSignal ==
    ASSUME RestartDeleted = FALSE, KernelInv, KernelInv', SemInv, NEW s \in Sem,
           os_semaphore_signal(s)
    PROVE  [Semaphores!SemaphoreNext]_(Semaphores!semaphore_vars)
<1>1. /\ Semaphores!Free /\ Semaphores!Spare(s) = count[s] /\ count[s] < CountBound
      /\ Semaphores!Hopeful(s) = tasks_blocked[s] /\ UNCHANGED waiting
  BY CallerIsFree, SpareIsCount, HopefulAreBlocked DEF os_semaphore_signal, Calling
<1>2. ASSUME tasks_blocked[s] # {}, os_sem_unlock_waiting_task(s),
             tokens' = [tokens EXCEPT ![s] = @ + 1]
      PROVE  Semaphores!Signal(s)
  <2>1. PICK p \in tasks_blocked[s] :
              /\ \A q \in tasks_blocked[s] : q <= p
              /\ p \in Task /\ waiting[p] = s
              /\ tasks_blocked' = [tasks_blocked EXCEPT ![s] = @ \ {p}]
              /\ \E id \in TaskId : PriorityOf(id) = p /\ os_task_release(id)
    BY <1>2, Releases
  <2>2. Scheduler!Release(p)
    BY <2>1, ReleaseIsRelease DEF KernelInv
  <2>3. Semaphores!Release(p)
    BY <2>2 DEF Scheduler!Release, Semaphores!Release, Scheduler!Acts, Semaphores!Acts,
                Scheduler!Wakes, Semaphores!Wakes, Scheduler!Asleep, Semaphores!Asleep,
                Scheduler!Decide, Semaphores!Decide, Scheduler!Best, Semaphores!Best
  <2>4. /\ Granted(s)' = Granted(s) \cup {p}
        /\ \A r \in Sem \ {s} : Granted(r)' = Granted(r)
    BY <1>1, <2>1 DEF Granted, SemInv, SemTypes
  <2>5. Promised' = Promised \cup {p}
    BY <2>1, <2>4 DEF Promised
  <2> QED BY <1>1, <1>2, <2>1, <2>3, <2>5 DEF Semaphores!Signal
<1>3. ASSUME tasks_blocked[s] = {}, count[s] = 0 \/ s \in Counting,
             tokens' = [tokens EXCEPT ![s] = @ + 1], UNCHANGED <<vars, tasks_blocked>>
      PROVE  Semaphores!Signal(s)
  BY <1>1, <1>3 DEF Semaphores!Signal, Semaphores!sched_vars, vars, masks, Promised, Granted
<1>4. ASSUME UNCHANGED <<vars, tasks_blocked, tokens>>
      PROVE  UNCHANGED Semaphores!semaphore_vars
  BY <1>1, <1>4 DEF Semaphores!semaphore_vars, Semaphores!sched_vars, vars, masks,
                    Promised, Granted
<1> QED BY <1>2, <1>3, <1>4 DEF os_semaphore_signal, Semaphores!SemaphoreNext

LEMMA ReturnIsLeave ==
    ASSUME KernelInv, SemInv, NEW s \in Sem, os_semaphore_wait_return(s)
    PROVE  Semaphores!Leave(s)
<1> DEFINE t == os_task_current
<1>1. t \in Task /\ priority[t] = t /\ waiting[t] = s /\ s # NULL /\ Semaphores!Acts
  BY Caller, CallerIsFree, SemAssumption DEF os_semaphore_wait_return
<1>2. /\ tasks_blocked' = [tasks_blocked EXCEPT ![s] = @ \ {t}]
      /\ waiting' = [waiting EXCEPT ![t] = NULL]
      /\ tokens' = [tokens EXCEPT ![s] = IF t \notin tasks_blocked[s] THEN @ - 1 ELSE @]
      /\ UNCHANGED vars
  BY <1>1 DEF os_semaphore_wait_return, Acquired
<1> HIDE DEF t
<1>3. t \in Promised <=> t \notin tasks_blocked[s]
  BY <1>1 DEF Promised, Granted
<1>4. \A r \in Sem \ {s} : t \notin tasks_blocked[r] \cup Granted(r)
  BY <1>1, InsideAreWaiters
<1>5. \A r \in Sem : Granted(r)' = Granted(r) \ {t}
  BY <1>1, <1>2, <1>4, SemAssumption DEF Granted, SemInv, SemTypes
<1>6. Promised' = Promised \ {t}
  BY <1>5 DEF Promised
<1>7. tokens' = [tokens EXCEPT ![s] = IF t \in Promised THEN @ - 1 ELSE @]
  BY <1>2, <1>3
<1>8. UNCHANGED Semaphores!sched_vars
  BY <1>2 DEF vars, masks, Semaphores!sched_vars
<1> QED BY <1>1, <1>2, <1>6, <1>7, <1>8 DEF Semaphores!Leave, t

LEMMA KernelCallIsElsewhere ==
    ASSUME RestartDeleted = FALSE, KernelInv, KernelInv', SemInv, KernelCall
    PROVE  Semaphores!Elsewhere
<1>1. Semaphores!Free
  BY CallerIsFree DEF Calling, KernelCall
<1>2. UNCHANGED <<tokens, waiting, Promised>>
  BY DEF KernelCall, sem_vars, Promised, Granted
<1>3. ASSUME NEW u \in Task \ {OS_TASK_IDLE},
             NEW id, id = OS_GET_TASK_ID_FROM_PRIORITY(u),
             os_task_start(id) \/ os_task_stop(id) \/ os_task_release(id)
      PROVE  Semaphores!Start(u) \/ Semaphores!Stop(u) \/ Semaphores!Release(u)
  <2>1. id \in TaskId /\ PriorityOf(id) = u
    BY <1>3, IdOfTask, ConstantFacts
  <2>2. Scheduler!Start(u) \/ Scheduler!Stop(u) \/ Scheduler!Release(u)
    BY <1>3, <2>1, StartIsStart, StopIsStop, ReleaseIsRelease DEF KernelInv
  <2> QED BY <2>2
          DEF Scheduler!Start, Semaphores!Start, Scheduler!Stop, Semaphores!Stop,
              Scheduler!Release, Semaphores!Release,
              Scheduler!Acts, Semaphores!Acts, Scheduler!Leaves, Semaphores!Leaves,
              Scheduler!Wakes, Semaphores!Wakes, Scheduler!Asleep, Semaphores!Asleep,
              Scheduler!Decide, Semaphores!Decide, Scheduler!Best, Semaphores!Best
<1>4. CASE os_task_delete
  <2>1. Scheduler!Delete
    BY <1>4, DeleteIsDelete DEF KernelInv
  <2>2. Semaphores!Delete
    BY <2>1 DEF Scheduler!Delete, Semaphores!Delete, Scheduler!Acts, Semaphores!Acts,
                Scheduler!Leaves, Semaphores!Leaves, Scheduler!Asleep, Semaphores!Asleep,
                Scheduler!Decide, Semaphores!Decide, Scheduler!Best, Semaphores!Best
  <2> QED BY <1>1, <1>2, <2>2 DEF Semaphores!Elsewhere
<1>5. ASSUME NEW n \in Delays, os_delay(n) PROVE Semaphores!Nap(n)
  <2>1. Scheduler!Nap(n)
    BY <1>5, DelayIsNap DEF KernelInv
  <2> QED BY <2>1 DEF Scheduler!Nap, Semaphores!Nap, Scheduler!Acts, Semaphores!Acts,
                      Scheduler!Asleep, Semaphores!Asleep, Scheduler!Decide,
                      Semaphores!Decide, Scheduler!Best, Semaphores!Best
<1> QED BY <1>1, <1>2, <1>3, <1>4, <1>5 DEF KernelCall, Semaphores!Elsewhere, OS_TASK_IDLE

LEMMA SemaphoreStep ==
    ASSUME RestartDeleted = FALSE, KernelInv, KernelInv', DelayCounts, PendedIsDecided,
           SemInv, SemInv', [SemNext]_all_vars
    PROVE  [Semaphores!SemaphoreNext]_(Semaphores!semaphore_vars)
<1>1. CASE (PendSV_Handler \/ SysTick) /\ UNCHANGED sem_vars
  <2>1. UNCHANGED <<tokens, waiting, Promised>>
    BY <1>1 DEF sem_vars, Promised, Granted
  <2>2. Scheduler!Tick \/ Scheduler!Switch
    BY <1>1, TickIsTick, SwitchIsSwitch DEF SysTick, KernelInv
  <2>3. Semaphores!Tick \/ Semaphores!Switch
    BY <2>2 DEF Scheduler!Tick, Semaphores!Tick, Scheduler!Switch, Semaphores!Switch,
                Scheduler!Wakes, Semaphores!Wakes, Scheduler!Asleep, Semaphores!Asleep,
                Scheduler!Decide, Semaphores!Decide, Scheduler!Best, Semaphores!Best
  <2> QED BY <2>1, <2>3 DEF Semaphores!SemaphoreNext
<1>2. CASE KernelCall
  BY <1>2, KernelCallIsElsewhere DEF Semaphores!SemaphoreNext
<1>3. CASE \E s \in Sem : \E n \in Timeouts : os_semaphore_wait(s, n)
  BY <1>3, WaitIsTakeOrWait
<1>4. CASE \E s \in Sem : os_semaphore_signal(s)
  BY <1>4, SignalIsSignal
<1>5. CASE \E t \in Task : WaitReturns(t)
  BY <1>5, ReturnIsLeave DEF WaitReturns, Semaphores!SemaphoreNext
<1>6. CASE UNCHANGED all_vars
  BY <1>6 DEF all_vars, sem_vars, vars, masks, Promised, Granted,
              Semaphores!semaphore_vars, Semaphores!sched_vars
<1> QED BY <1>1, <1>2, <1>3, <1>4, <1>5, <1>6 DEF SemNext

\* The kernel with its semaphores is a scheduler with semaphores whose signals
\* are promises kept, for every number of tasks and semaphores, binary and
\* counting, and every timeout, even if tasks stop and start one another inside
\* a wait: every critical section of os_semaphore_wait and os_semaphore_signal
\* is one abstract step (semaphore.c:76-88, :113-203).
THEOREM ImplementsCountingSemaphore ==
    ASSUME RestartDeleted = FALSE
    PROVE  SemSpec => IsCountingSemaphore
<1>1. SemInit => PendedIsDecided
  BY DEF SemInit, Init, PendedIsDecided
<1>2. PendedIsDecided /\ [Next]_vars => PendedIsDecided'
  BY PendedStep
<1>3. SemInit => Semaphores!SemaphoreInit
  <2> SUFFICES ASSUME SemInit PROVE Semaphores!SemaphoreInit
    OBVIOUS
  <2>1. Scheduler!SchedulerInit
    BY SchedulerInitial DEF SemInit
  <2>2. Semaphores!SchedulerInit
    BY <2>1 DEF Scheduler!SchedulerInit, Semaphores!SchedulerInit
  <2>3. Promised = {}
    BY SemAssumption DEF SemInit, Promised, Granted
  <2> QED BY <2>2, <2>3 DEF SemInit, Semaphores!SemaphoreInit
<1>4. /\ KernelInv /\ KernelInv' /\ DelayCounts /\ PendedIsDecided /\ SemInv /\ SemInv'
      /\ [SemNext]_all_vars
      => [Semaphores!SemaphoreNext]_(Semaphores!semaphore_vars)
  BY SemaphoreStep
<1>5. SemSpec => []DelayCounts
  BY SemaphoresUseTheScheduler, DelayCountsAlways
<1> QED BY <1>1, <1>2, <1>3, <1>4, <1>5, SemInvariant, PTL
        DEF SemSpec, IsCountingSemaphore, Semaphores!SemaphoreSpec
=============================================================================
