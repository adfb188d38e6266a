------------------------ MODULE BeeRTOS_message_proofs ------------------------
(***************************************************************************)
(* Proofs about the messages, for any number of tasks and messages, any    *)
(* timeouts and any rings.  Tasks start only tasks that exist              *)
(* (RestartDeleted is FALSE).                                              *)
(***************************************************************************)
EXTENDS BeeRTOS_message, BeeRTOS_scheduler_proofs, BeeRTOS_queue_proofs, FiniteSetTheorems

WaitTypes ==
    /\ waiting_tasks \in [Side -> [Message -> SUBSET (Priority \ {OS_TASK_IDLE})]]
    /\ inside \in [Task -> (Side \X Message) \cup {NULL}]

WaitInv == WaitTypes /\ WaitersAreInside

LEMMA OppositeSide == \A side \in Side : Opposite(side) \in Side /\ Opposite(side) # side
BY DEF Side, Opposite

LEMMA WaitIsNotNull == \A side \in Side, m \in Message : <<side, m>> # NULL
BY MessageAssumption

\* A waiter of a mask is a task in its own slot.
LEMMA WaiterIsTask ==
    ASSUME KernelInv, WaitInv, NEW side \in Side, NEW m \in Message,
           NEW p \in waiting_tasks[side][m]
    PROVE  /\ p \in Task /\ p \in Priority \ {OS_TASK_IDLE}
           /\ os_tasks[p] = p /\ priority[p] = p /\ inside[p] = <<side, m>>
<1>1. p \in Priority \ {OS_TASK_IDLE} /\ os_tasks[p] = p /\ inside[p] = <<side, m>>
  BY DEF WaitInv, WaitTypes, WaitersAreInside
<1>2. p \in Task
  BY <1>1, NullAssumption DEF KernelInv, TypeInv, TypeOK
<1> QED BY <1>1, <1>2 DEF KernelInv, TypeInv

\* What os_message_release_waiting_task does.
LEMMA Releases ==
    ASSUME KernelInv, WaitInv, NEW side \in Side, NEW m \in Message,
           waiting_tasks[side][m] # {}, os_message_release_waiting_task(side, m)
    PROVE  \E p \in waiting_tasks[side][m] :
              /\ \A q \in waiting_tasks[side][m] : q <= p
              /\ waiting_tasks' = [waiting_tasks EXCEPT ![side][m] = @ \ {p}]
              /\ overtaken' = (overtaken \cup OthersInside(Opposite(side), m)) \ {p}
              /\ MakeReady({p}) /\ UNCHANGED os_tasks
              /\ \E id \in TaskId : PriorityOf(id) = p /\ os_task_release(id)
<1> DEFINE h == OS_GET_HIGHEST_PRIO_TASK_FROM_MASK(waiting_tasks[side][m])
<1>1. waiting_tasks[side][m] \subseteq Priority \ {OS_TASK_IDLE}
  BY DEF WaitInv, WaitTypes
<1>2. h \in waiting_tasks[side][m] /\ \A q \in waiting_tasks[side][m] : q <= h
  BY <1>1, HighestBit
<1>3. /\ waiting_tasks' = [waiting_tasks EXCEPT ![side][m] = @ \ {priority[os_tasks[h]]}]
      /\ os_task_release(OS_GET_TASK_ID_FROM_PRIORITY(priority[os_tasks[h]]))
      /\ overtaken' = (overtaken \cup OthersInside(Opposite(side), m)) \ {os_tasks[h]}
  BY DEF os_message_release_waiting_task
<1> HIDE DEF h
<1>4. os_tasks[h] = h /\ priority[h] = h
  BY <1>2, WaiterIsTask
<1>5. OS_GET_TASK_ID_FROM_PRIORITY(h) \in TaskId
      /\ PriorityOf(OS_GET_TASK_ID_FROM_PRIORITY(h)) = h
  BY <1>1, <1>2, IdOfTask
<1>6. MakeReady({h}) /\ UNCHANGED os_tasks
  BY <1>3, <1>4, <1>5 DEF os_task_release
<1> QED BY <1>2, <1>3, <1>4, <1>5, <1>6

-----------------------------------------------------------------------------
LEMMA MessageStepIsKernelStep ==
    ASSUME KernelInv, WaitInv, [MessageNext]_all_vars
    PROVE  [Next]_vars
<1>1. CASE (PendSV_Handler \/ SysTick) /\ UNCHANGED <<message_vars, answer>>
  BY <1>1 DEF Next
<1>2. CASE KernelCall
  <2>1. \A t \in Task \ {OS_TASK_IDLE} : OS_GET_TASK_ID_FROM_PRIORITY(t) \in TaskId
    BY IdOfTask, ConstantFacts
  <2> QED BY <1>2, <2>1 DEF KernelCall, Next
<1>3. ASSUME NEW side \in Side, NEW m \in Message, NEW timeout \in Timeouts,
             os_message_call(side, m, timeout)
      PROVE  [Next]_vars
  <2>1. CASE Served(side, m)
    <3>1. CASE UNCHANGED vars
      BY <3>1
    <3>2. CASE /\ waiting_tasks[Opposite(side)][m] # {}
               /\ os_message_release_waiting_task(Opposite(side), m)
      <4>1. PICK other \in Side : other = Opposite(side)
        BY OppositeSide
      <4>2. \E id \in TaskId : os_task_release(id)
        BY <3>2, <4>1, Releases
      <4> QED BY <4>2 DEF Next
    <3> QED BY <2>1, <3>1, <3>2 DEF Served
  <2>2. CASE Block(side, m, timeout)
    <3>1. timeout \in Delays
      BY <2>2, MessageAssumption DEF Block
    <3> QED BY <2>2, <3>1 DEF Block, Next
  <2>3. CASE DoNotWait(side, m, timeout)
    BY <2>3 DEF DoNotWait
  <2> QED BY <1>3, <2>1, <2>2, <2>3 DEF os_message_call
<1>4. ASSUME NEW t \in Task, WaitReturns(t) PROVE [Next]_vars
  BY <1>4 DEF WaitReturns, os_message_handle_timeout_return
<1>5. CASE UNCHANGED all_vars
  BY <1>5 DEF all_vars
<1> QED BY <1>1, <1>2, <1>3, <1>4, <1>5
        DEF MessageNext, os_message_send, os_message_receive, Side

-----------------------------------------------------------------------------
(***************************************************************************)
(* Only os_task_delete clears a slot, and it is not called from a wait.    *)
(***************************************************************************)
LEMMA SlotsKeep ==
    ASSUME KernelInv, WaitInv,
           \/ (PendSV_Handler \/ SysTick) /\ UNCHANGED <<message_vars, answer>>
           \/ KernelCall
           \/ UNCHANGED all_vars
    PROVE  WaitInv'
<1>1. UNCHANGED <<waiting_tasks, inside>>
  BY DEF KernelCall, all_vars, message_vars
<1>2. \A t \in Task : inside[t] # NULL => os_tasks'[t] = os_tasks[t]
  <2> SUFFICES ASSUME NEW t \in Task, inside[t] # NULL PROVE os_tasks'[t] = os_tasks[t]
    OBVIOUS
  <2>1. CASE Calling /\ os_task_delete
    <3>1. /\ os_task_current # t /\ priority[os_task_current] = os_task_current
      BY <2>1, Caller DEF Calling
    <3>2. os_tasks \in [Priority -> Task \cup {NULL}] /\ t \in Priority
      BY ConstantFacts DEF KernelInv, TypeInv, TypeOK
    <3> QED BY <2>1, <3>1, <3>2 DEF os_task_delete
  <2>2. CASE UNCHANGED os_tasks
    BY <2>2
  <2> QED BY <2>1, <2>2 DEF KernelCall, all_vars, vars, PendSV_Handler, SysTick,
                            SysTick_Handler, os_task_stop, os_task_release, os_delay
<1>3. WaitersAreInside'
  <2> SUFFICES ASSUME NEW side \in Side, NEW m \in Message,
                      NEW p \in waiting_tasks[side][m]
               PROVE  os_tasks'[p] = p /\ inside[p] = <<side, m>>
    BY <1>1 DEF WaitersAreInside
  <2> QED BY <1>2, WaiterIsTask, WaitIsNotNull
<1> QED BY <1>1, <1>3 DEF WaitInv, WaitTypes

LEMMA CallKeeps ==
    ASSUME KernelInv, WaitInv, NEW side \in Side, NEW m \in Message,
           NEW timeout \in Timeouts, os_message_call(side, m, timeout)
    PROVE  WaitInv'
<1>1. CASE Block(side, m, timeout)
  <2> DEFINE t == os_task_current
  <2>1. /\ t \in Task /\ t \in Priority \ {OS_TASK_IDLE}
        /\ priority[t] = t /\ os_tasks[t] = t /\ inside[t] = NULL
    BY Caller DEF os_message_call, Calling
  <2>2. /\ waiting_tasks' = [waiting_tasks EXCEPT ![side][m] = @ \cup {t}]
        /\ inside' = [inside EXCEPT ![t] = <<side, m>>]
        /\ UNCHANGED os_tasks
    BY <1>1, <2>1 DEF Block, os_delay
  <2> HIDE DEF t
  <2>3. WaitTypes'
    <3>1. waiting_tasks' \in [Side -> [Message -> SUBSET (Priority \ {OS_TASK_IDLE})]]
      BY <2>1, <2>2 DEF WaitInv, WaitTypes
    <3>2. inside' \in [Task -> (Side \X Message) \cup {NULL}]
      BY <2>1, <2>2 DEF WaitInv, WaitTypes
    <3> QED BY <3>1, <3>2 DEF WaitTypes
  <2>4. WaitersAreInside'
    <3> SUFFICES ASSUME NEW s \in Side, NEW n \in Message, NEW p \in waiting_tasks'[s][n]
                 PROVE  os_tasks'[p] = p /\ inside'[p] = <<s, n>>
      BY DEF WaitersAreInside
    <3>1. CASE p = t
      <4>1. t \notin waiting_tasks[s][n]
        <5>1. t \in waiting_tasks[s][n] => inside[t] = <<s, n>>
          BY WaiterIsTask
        <5>2. <<s, n>> # NULL
          BY WaitIsNotNull
        <5> QED BY <2>1, <5>1, <5>2
      <4>2. s = side /\ n = m
        BY <2>2, <3>1, <4>1 DEF WaitInv, WaitTypes
      <4> QED BY <2>1, <2>2, <3>1, <4>2 DEF WaitInv, WaitTypes
    <3>2. CASE p # t
      <4>1. p \in waiting_tasks[s][n]
        BY <2>2, <3>2 DEF WaitInv, WaitTypes
      <4> QED BY <2>2, <3>2, <4>1, WaiterIsTask DEF WaitInv, WaitTypes
    <3> QED BY <3>1, <3>2
  <2> QED BY <2>3, <2>4 DEF WaitInv
<1>2. CASE Served(side, m)
  <2>1. CASE UNCHANGED <<vars, waiting_tasks>>
    BY <1>2, <2>1 DEF Served, vars, WaitInv, WaitTypes, WaitersAreInside
  <2>2. CASE /\ waiting_tasks[Opposite(side)][m] # {}
             /\ os_message_release_waiting_task(Opposite(side), m)
    <3>1. PICK other \in Side : other = Opposite(side)
      BY OppositeSide
    <3>2. PICK p \in waiting_tasks[other][m] :
              /\ waiting_tasks' = [waiting_tasks EXCEPT ![other][m] = @ \ {p}]
              /\ UNCHANGED os_tasks
      BY <2>2, <3>1, Releases
    <3>3. UNCHANGED inside
      BY <1>2 DEF Served
    <3>4. \A s \in Side, n \in Message : waiting_tasks'[s][n] \subseteq waiting_tasks[s][n]
      BY <3>2 DEF WaitInv, WaitTypes
    <3>5. WaitTypes'
      BY <3>2, <3>3 DEF WaitInv, WaitTypes
    <3> QED BY <3>2, <3>3, <3>4, <3>5 DEF WaitInv, WaitersAreInside
  <2> QED BY <1>2, <2>1, <2>2 DEF Served
<1>3. CASE DoNotWait(side, m, timeout)
  BY <1>3 DEF DoNotWait, vars, message_vars, WaitInv, WaitTypes, WaitersAreInside
<1> QED BY <1>1, <1>2, <1>3 DEF os_message_call

LEMMA ReturnKeeps ==
    ASSUME KernelInv, WaitInv, NEW side \in Side, NEW m \in Message,
           os_message_handle_timeout_return(side, m)
    PROVE  WaitInv'
<1> DEFINE t == os_task_current
<1>1. t \in Task /\ priority[t] = t
  BY Caller DEF os_message_handle_timeout_return
<1>2. /\ inside[t] = <<side, m>>
      /\ waiting_tasks' = [waiting_tasks EXCEPT ![side][m] = @ \ {t}]
      /\ inside' = [inside EXCEPT ![t] = NULL]
      /\ UNCHANGED os_tasks
  BY <1>1 DEF os_message_handle_timeout_return, vars
<1> HIDE DEF t
<1>3. WaitTypes'
  BY <1>1, <1>2 DEF WaitInv, WaitTypes
<1>4. WaitersAreInside'
  <2> SUFFICES ASSUME NEW s \in Side, NEW n \in Message, NEW p \in waiting_tasks'[s][n]
               PROVE  os_tasks'[p] = p /\ inside'[p] = <<s, n>>
    BY DEF WaitersAreInside
  <2>1. p \in waiting_tasks[s][n]
    BY <1>2 DEF WaitInv, WaitTypes
  <2>2. p \in Task /\ os_tasks[p] = p /\ inside[p] = <<s, n>>
    BY <2>1, WaiterIsTask
  <2>3. p # t
    <3>1. p = t => s = side /\ n = m
      BY <1>2, <2>2
    <3> QED BY <1>2, <3>1 DEF WaitInv, WaitTypes
  <2> QED BY <1>2, <2>2, <2>3 DEF WaitInv, WaitTypes
<1> QED BY <1>3, <1>4 DEF WaitInv

LEMMA WaitStep ==
    ASSUME KernelInv, WaitInv, [MessageNext]_all_vars
    PROVE  WaitInv'
<1>1. CASE \/ (PendSV_Handler \/ SysTick) /\ UNCHANGED <<message_vars, answer>>
           \/ KernelCall
           \/ UNCHANGED all_vars
  BY <1>1, SlotsKeep
<1>2. CASE \E side \in Side, m \in Message, timeout \in Timeouts :
              os_message_call(side, m, timeout)
  BY <1>2, CallKeeps
<1>3. CASE \E t \in Task : WaitReturns(t)
  BY <1>3, ReturnKeeps DEF WaitReturns
<1> QED BY <1>1, <1>2, <1>3
        DEF MessageNext, os_message_send, os_message_receive, Side

LEMMA WaitInvariant ==
    ASSUME RestartDeleted = FALSE
    PROVE  MessageSpec => []KernelInv /\ []WaitInv /\ [][Next]_vars
<1> DEFINE Inv == KernelInv /\ WaitInv
<1>1. MessageInit => Inv
  BY TypeInit, SchedInit
     DEF MessageInit, KernelInv, WaitInv, WaitTypes, WaitersAreInside
<1>2. Inv /\ [MessageNext]_all_vars => [Next]_vars
  BY MessageStepIsKernelStep
<1>3. KernelInv /\ [Next]_vars => KernelInv'
  BY TypeStep, SchedStep DEF KernelInv
<1>4. Inv /\ [MessageNext]_all_vars => WaitInv'
  BY WaitStep
<1>5. Inv /\ [MessageNext]_all_vars => Inv'
  BY <1>2, <1>3, <1>4
<1>6. Inv => KernelInv /\ WaitInv
  OBVIOUS
<1> HIDE DEF Inv
<1> QED BY <1>1, <1>2, <1>5, <1>6, PTL DEF MessageSpec

-----------------------------------------------------------------------------
\* Whatever is proved of the scheduler holds while tasks wait for messages: each
\* step of os_message_send and os_message_receive is, for the scheduler, a call
\* of os_delay or os_task_release, or nothing (message.c:54-95).
THEOREM MessagesUseTheScheduler ==
    ASSUME RestartDeleted = FALSE
    PROVE  MessageSpec => Spec
<1>1. MessageInit => Init
  BY DEF MessageInit
<1> QED BY <1>1, WaitInvariant, PTL DEF MessageSpec, Spec

\* No stale bit: the masks of a message hold tasks inside that very wait, alive
\* and in their own slots.
THEOREM WaitersAreInsideAlways ==
    ASSUME RestartDeleted = FALSE
    PROVE  MessageSpec => []WaitersAreInside
<1>1. WaitInv => WaitersAreInside
  BY DEF WaitInv
<1> QED BY <1>1, WaitInvariant, PTL

\* A release passes no waiter by for a less urgent one (message.c:58-62).
THEOREM ReleasesByUrgency ==
    ASSUME RestartDeleted = FALSE
    PROVE  MessageSpec => MostUrgentReleased
<1> DEFINE ByUrgency ==
             \A side \in Side, m \in Message : \A p, q \in waiting_tasks[side][m] :
                p \in ReleasedTo(side, m)' /\ q \in waiting_tasks'[side][m] => q < p
<1>1. ASSUME KernelInv, WaitInv, [MessageNext]_all_vars PROVE [ByUrgency]_all_vars
  <2> SUFFICES ASSUME NEW side \in Side, NEW m \in Message,
                      NEW p \in waiting_tasks[side][m], NEW q \in waiting_tasks[side][m],
                      p \in ReleasedTo(side, m)', q \in waiting_tasks'[side][m], MessageNext
               PROVE  q < p
    BY <1>1
  <2>1. /\ inside'[p] = <<side, m>> /\ p \notin waiting_tasks'[side][m]
        /\ <<side, m>> # NULL /\ p \in Task
    BY WaitIsNotNull DEF ReleasedTo
  <2>2. \A t \in Task : ~WaitReturns(t)
    <3> SUFFICES ASSUME NEW s \in Side, NEW n \in Message,
                        os_message_handle_timeout_return(s, n)
                 PROVE  FALSE
      BY DEF WaitReturns
    <3>1. os_task_current \in Task /\ priority[os_task_current] = os_task_current
      BY <1>1, Caller DEF os_message_handle_timeout_return
    <3>2. os_task_current = p
      BY <1>1, <2>1, <3>1 DEF os_message_handle_timeout_return, WaitInv, WaitTypes
    <3> QED BY <1>1, <2>1, <3>1, <3>2
            DEF os_message_handle_timeout_return, WaitInv, WaitTypes
  <2>3. ~(UNCHANGED waiting_tasks)
    BY <2>1
  <2>4. PICK s \in Side, n \in Message, timeout \in Timeouts : os_message_call(s, n, timeout)
    BY <2>2, <2>3 DEF MessageNext, os_message_send, os_message_receive, Side, KernelCall,
                      message_vars
  <2>5. ~Block(s, n, timeout) /\ ~DoNotWait(s, n, timeout)
    BY <1>1, <2>1 DEF Block, DoNotWait, message_vars, WaitInv, WaitTypes
  <2>6. PICK other \in Side :
          waiting_tasks[other][n] # {} /\ os_message_release_waiting_task(other, n)
    BY <2>3, <2>4, <2>5, OppositeSide DEF os_message_call, Served
  <2>7. PICK h \in waiting_tasks[other][n] :
              /\ \A u \in waiting_tasks[other][n] : u <= h
              /\ waiting_tasks' = [waiting_tasks EXCEPT ![other][n] = @ \ {h}]
    BY <1>1, <2>6, Releases
  <2>8. other = side /\ n = m /\ h = p
    BY <1>1, <2>1, <2>7 DEF WaitInv, WaitTypes
  <2>9. q <= p /\ q # p /\ p \in Int /\ q \in Int
    BY <1>1, <2>1, <2>7, <2>8, ConstantFacts DEF WaitInv, WaitTypes
  <2> QED BY <2>9
<1> QED BY <1>1, WaitInvariant, PTL DEF MessageSpec, MostUrgentReleased

\* A waiter that nobody releases sleeps until the tick its timeout is due: the
\* ticks, calls and releases before it are for others (cfg.h:114).  One that is
\* the alarm task could be woken by an alarm: there is none here.
THEOREM SleepsLastTheirTimeout ==
    ASSUME RestartDeleted = FALSE, AlarmTask = {}
    PROVE  MessageSpec => SleepLastsTimeout
<1> DEFINE Lasts == \A side \in Side, m \in Message :
                    \A p \in waiting_tasks[side][m] \cap waiting_tasks'[side][m] :
                       p \in os_delay_mask \cap os_ready_mask'
                          => os_tick_counter' # os_tick_counter /\ wake[p] = os_tick_counter'
<1>1. ASSUME KernelInv, KernelInv', WaitInv, [MessageNext]_all_vars, [DelaysEndOnTime]_vars
      PROVE  [Lasts]_all_vars
  <2> SUFFICES ASSUME NEW side \in Side, NEW m \in Message,
                      NEW p \in waiting_tasks[side][m] \cap waiting_tasks'[side][m],
                      p \in os_delay_mask \cap os_ready_mask', MessageNext
               PROVE  os_tick_counter' # os_tick_counter /\ wake[p] = os_tick_counter'
    BY <1>1
  <2>1. p \notin os_ready_mask /\ p \notin os_delay_mask'
    BY <1>1 DEF KernelInv, SchedInv, ReadyOrDelayed
  <2>2. p \in Task /\ inside[p] = <<side, m>> /\ inside[p] # NULL
    <3>1. p \in Task /\ inside[p] = <<side, m>>
      BY <1>1, WaiterIsTask
    <3>2. <<side, m>> # NULL
      BY WaitIsNotNull
    <3> QED BY <3>1, <3>2
  <2>3. CASE SysTick
    <3>1. os_tick_counter' # os_tick_counter
      BY <1>1, <2>3, TickMoves DEF KernelInv, TypeInv
    <3>2. DelaysEndOnTime
      BY <1>1, <3>1 DEF vars
    <3> QED BY <2>1, <3>1, <3>2 DEF DelaysEndOnTime
  <2>4. CASE ~SysTick
    <3>1. ~(PendSV_Handler /\ UNCHANGED <<message_vars, answer>>) /\ ~(UNCHANGED vars)
      BY <2>1 DEF PendSV_Handler, masks, vars
    <3>2. ~KernelCall
      <4>1. /\ os_task_delete => p \notin os_ready_mask'
            /\ \A n \in Delays : os_delay(n) => p \notin os_ready_mask'
        BY <2>1 DEF os_task_delete, os_delay, Suspend, Sleep
      <4>2. ASSUME NEW u \in Task \ {OS_TASK_IDLE}, inside[u] = NULL,
                   NEW id, id = OS_GET_TASK_ID_FROM_PRIORITY(u),
                   os_task_stop(id) \/ os_task_release(id)
            PROVE  FALSE
        <5>1. PriorityOf(id) = u /\ u # p
          BY <2>2, <4>2, IdOfTask, ConstantFacts
        <5> QED BY <2>1, <4>2, <5>1 DEF os_task_stop, os_task_release, MakeReady, Suspend
      <4> QED BY <4>1, <4>2 DEF KernelCall
    <3>3. \A t \in Task : ~WaitReturns(t)
      BY <3>1 DEF WaitReturns, os_message_handle_timeout_return
    <3>4. PICK s \in Side, n \in Message, timeout \in Timeouts : os_message_call(s, n, timeout)
      BY <2>4, <3>1, <3>2, <3>3 DEF MessageNext, os_message_send, os_message_receive, Side
    <3>5. ~Block(s, n, timeout) /\ ~DoNotWait(s, n, timeout)
      BY <2>1, <3>1 DEF Block, DoNotWait, os_delay, Sleep
    <3>6. PICK other \in Side :
            waiting_tasks[other][n] # {} /\ os_message_release_waiting_task(other, n)
      BY <3>1, <3>4, <3>5, OppositeSide DEF os_message_call, Served
    <3>7. PICK h \in waiting_tasks[other][n] :
                /\ waiting_tasks' = [waiting_tasks EXCEPT ![other][n] = @ \ {h}]
                /\ MakeReady({h})
      BY <1>1, <3>6, Releases
    <3>8. h = p
      BY <2>1, <3>7 DEF MakeReady
    <3>9. <<other, n>> = <<side, m>>
      BY <1>1, <2>2, <3>7, <3>8, WaiterIsTask
    <3>10. p \notin waiting_tasks'[other][n]
      BY <1>1, <3>7, <3>8 DEF WaitInv, WaitTypes
    <3> QED BY <3>9, <3>10
  <2> QED BY <2>3, <2>4
<1>2. MessageSpec => [][DelaysEndOnTime]_vars
  BY MessagesUseTheScheduler, DelayEndsOnTimeAlways DEF DelayEndsOnTime, DelaysEndOnTime
<1> QED BY <1>1, <1>2, WaitInvariant, PTL DEF MessageSpec, SleepLastsTimeout

-----------------------------------------------------------------------------
(***************************************************************************)
(* What the rings hold: the numbers from received to sent, of which there  *)
(* are never as many as numbers.                                           *)
(***************************************************************************)
DataTypes ==
    /\ sent \in [Message -> Item]
    /\ received \in [Message -> Item]
    /\ overtaken \subseteq Task

Next1(n) == (n + 1) % Items

Ordered(m) ==
    LET carried(n) == Bytes(n, ItemSize[m])
        r == received[m]
    IN \/ Contents(m) = <<>> /\ sent[m] = r
       \/ Contents(m) = <<carried(r)>> /\ sent[m] = Next1(r) /\ Items > 1
       \/ /\ Contents(m) = <<carried(r), carried(Next1(r))>>
          /\ sent[m] = Next1(Next1(r)) /\ Items > 2

DataInv == RingInv /\ DataTypes /\ \A m \in Message : Ordered(m)

LEMMA NumberFacts ==
    /\ Items \in Nat /\ Items > 0
    /\ \A n : n \in Item <=> n \in 0 .. Items - 1
    /\ \A n \in Item : Next1(n) \in Item
    /\ \A n \in Item : Next1(n) = IF n = Items - 1 THEN 0 ELSE n + 1
<1>1. Items \in Nat /\ Items > 0 /\ Item = 0 .. Items - 1
  BY MessageAssumption
<1>2. ASSUME NEW n \in Item
      PROVE  Next1(n) = IF n = Items - 1 THEN 0 ELSE n + 1
  <2>1. CASE n = Items - 1
    <3>1. n + 1 = Items /\ Items \in Items .. 2 * Items - 1
      BY <1>1, <2>1
    <3>2. Items % Items = Items - Items
      BY <1>1, <3>1, RingWraps
    <3> QED BY <1>1, <2>1, <3>1, <3>2 DEF Next1
  <2>2. CASE n # Items - 1
    <3>1. n + 1 \in 0 .. Items - 1
      BY <1>1, <2>2
    <3>2. (n + 1) % Items = n + 1
      BY <1>1, <3>1, RingStays
    <3> QED BY <2>2, <3>2 DEF Next1
  <2> QED BY <2>1, <2>2
<1>3. ASSUME NEW n \in Item PROVE Next1(n) \in Item
  BY <1>1, <1>2
<1> QED BY <1>1, <1>2, <1>3

\* The distance from r to the number j places on is j, if there are more than j.
LEMMA NumberDistance ==
    ASSUME NEW r \in Item
    PROVE  /\ (Items + r - r) % Items = 0
           /\ Items > 1 => (Items + Next1(r) - r) % Items = 1
           /\ Items > 2 => (Items + Next1(Next1(r)) - r) % Items = 2
           /\ (r + 1 - 1) % Items = r
           /\ (r + 2 - 1) % Items = Next1(r)
<1>1. Items \in Nat /\ Items > 0 /\ r \in Nat /\ r < Items
  BY NumberFacts
<1>2. ASSUME NEW j \in 0 .. Items - 1, NEW s \in Nat,
             s = IF r + j >= Items THEN r + j - Items ELSE r + j
      PROVE  (Items + s - r) % Items = j
  <2>1. CASE r + j >= Items
    <3>1. Items + s - r = j
      BY <1>1, <1>2, <2>1
    <3> QED BY <1>1, <3>1, RingStays
  <2>2. CASE ~(r + j >= Items)
    <3>1. Items + s - r = Items + j /\ Items + j \in Items .. 2 * Items - 1
      BY <1>1, <1>2, <2>2
    <3>2. (Items + j) % Items = (Items + j) - Items
      BY <1>1, <3>1, RingWraps
    <3> QED BY <1>1, <3>1, <3>2
  <2> QED BY <2>1, <2>2
<1>3. (Items + r - r) % Items = 0
  <2>1. 0 \in 0 .. Items - 1 /\ r = IF r + 0 >= Items THEN r + 0 - Items ELSE r + 0
    BY <1>1
  <2> QED BY <1>1, <1>2, <2>1
<1>4. ASSUME Items > 1 PROVE (Items + Next1(r) - r) % Items = 1
  <2>1. /\ 1 \in 0 .. Items - 1 /\ Next1(r) \in Nat
        /\ Next1(r) = IF r + 1 >= Items THEN r + 1 - Items ELSE r + 1
    BY <1>1, <1>4, NumberFacts
  <2> QED BY <1>2, <2>1
<1>5. ASSUME Items > 2 PROVE (Items + Next1(Next1(r)) - r) % Items = 2
  <2>1. PICK n \in Item : n = Next1(r)
    BY NumberFacts
  <2>2. n = IF r = Items - 1 THEN 0 ELSE r + 1
    BY <2>1, NumberFacts
  <2>3. Next1(n) = IF n = Items - 1 THEN 0 ELSE n + 1
    BY NumberFacts
  <2>4. PICK s \in Nat : s = Next1(n)
    BY <1>1, NumberFacts
  <2>5. 2 \in 0 .. Items - 1 /\ s = IF r + 2 >= Items THEN r + 2 - Items ELSE r + 2
    BY <1>1, <1>5, <2>2, <2>3, <2>4
  <2>6. (Items + s - r) % Items = 2
    BY <1>2, <2>5
  <2> QED BY <2>1, <2>4, <2>6
<1>6. (r + 1 - 1) % Items = r
  <2>1. r + 1 - 1 = r /\ r \in 0 .. Items - 1
    BY <1>1
  <2> QED BY <1>1, <2>1, RingStays
<1>7. (r + 2 - 1) % Items = Next1(r)
  <2>1. r + 2 - 1 = r + 1
    BY <1>1
  <2> QED BY <2>1 DEF Next1
<1> QED BY <1>3, <1>4, <1>5, <1>6, <1>7

LEMMA OrderedDelivers ==
    ASSUME DataInv
    PROVE  DeliveredInOrder
<1> SUFFICES ASSUME NEW m \in Message
             PROVE  Contents(m) = [n \in 1 .. (Items + sent[m] - received[m]) % Items |->
                          Bytes((received[m] + n - 1) % Items, ItemSize[m])]
  BY DEF DeliveredInOrder
<1> DEFINE carried(n) == Bytes(n, ItemSize[m])
           r == received[m]
           k == (Items + sent[m] - r) % Items
           nth(n) == carried((r + n - 1) % Items)
           Queued == [n \in 1 .. k |-> nth(n)]
<1>1. r \in Item /\ Ordered(m)
  BY DEF DataInv, DataTypes
<1>2. /\ sent[m] = r => k = 0
      /\ sent[m] = Next1(r) /\ Items > 1 => k = 1
      /\ sent[m] = Next1(Next1(r)) /\ Items > 2 => k = 2
  BY <1>1, NumberDistance
<1>3. nth(1) = carried(r) /\ nth(2) = carried(Next1(r))
  BY <1>1, NumberDistance
<1>4. \/ Contents(m) = <<>> /\ sent[m] = r
      \/ Contents(m) = <<carried(r)>> /\ sent[m] = Next1(r) /\ Items > 1
      \/ /\ Contents(m) = <<carried(r), carried(Next1(r))>>
         /\ sent[m] = Next1(Next1(r)) /\ Items > 2
  BY <1>1 DEF Ordered
<1> HIDE DEF carried, r, k, nth
<1>5. k = 0 => Queued = <<>>
  OBVIOUS
<1>6. k = 1 => Queued = <<carried(r)>>
  BY <1>3
<1>7. k = 2 => Queued = <<carried(r), carried(Next1(r))>>
  BY <1>3
<1>8. Contents(m) = Queued
  BY <1>2, <1>4, <1>5, <1>6, <1>7
<1> QED BY <1>8 DEF carried, r, k, nth

-----------------------------------------------------------------------------
(***************************************************************************)
(* What the two sides may still do: free places and messages.  An          *)
(* operation of one side takes one from it and gives one to the other.     *)
(***************************************************************************)
Available(side, m) ==
    IF side = "send" THEN Accepted(m) - Len(Contents(m)) ELSE Len(Contents(m))

LEMMA AvailableCanDo ==
    ASSUME RingInv, NEW side \in Side, NEW m \in Message
    PROVE  /\ Available(side, m) \in Nat
           /\ CanDo(side, m) <=> Available(side, m) > 0
<1>1. /\ Len(Contents(m)) \in 0 .. Accepted(m)
      /\ Len(Contents(m)) = Accepted(m) <=> ~os_queue_can_push(m, ItemSize[m])
      /\ Len(Contents(m)) = 0 <=> ~os_queue_can_pop(m, ItemSize[m])
      /\ Accepted(m) \in Nat
  BY LengthInRange, Lengths DEF Message, Accepted
<1>2. CASE side = "send"
  <2>1. Available(side, m) = Accepted(m) - Len(Contents(m))
    BY <1>2 DEF Available
  <2>2. CanDo(side, m) <=> os_queue_can_push(m, ItemSize[m])
    BY <1>2 DEF CanDo
  <2>3. Available(side, m) > 0 <=> Len(Contents(m)) # Accepted(m)
    BY <1>1, <2>1
  <2>4. Available(side, m) \in Nat
    BY <1>1, <2>1
  <2> QED BY <1>1, <2>2, <2>3, <2>4
<1>3. CASE side = "receive"
  <2>1. Available(side, m) = Len(Contents(m))
    BY <1>3 DEF Available
  <2>2. CanDo(side, m) <=> os_queue_can_pop(m, ItemSize[m])
    BY <1>3 DEF CanDo
  <2>3. Available(side, m) > 0 <=> Len(Contents(m)) # 0
    BY <1>1, <2>1
  <2>4. Available(side, m) \in Nat
    BY <1>1, <2>1
  <2> QED BY <1>1, <2>2, <2>3, <2>4
<1> QED BY <1>2, <1>3 DEF Side

LEMMA SendKeeps ==
    ASSUME DataInv, NEW m \in Message, Push(m, sent[m], ItemSize[m]),
           sent' = [sent EXCEPT ![m] = (@ + 1) % Items], UNCHANGED received,
           overtaken' \subseteq Task
    PROVE  /\ DataInv'
           /\ Len(Contents(m))' = Len(Contents(m)) + 1
           /\ \A n \in Message \ {m} : Contents(n)' = Contents(n)
<1> DEFINE carried(n) == Bytes(n, ItemSize[m])
<1>0. PICK r \in Item, s \in Item : r = received[m] /\ s = sent[m]
  BY DEF DataInv, DataTypes
<1>1. sent'[m] = Next1(s) /\ received'[m] = r /\ Next1(s) \in Item
  BY <1>0, NumberFacts DEF DataInv, DataTypes, Next1
<1>2. /\ RingInv'
      /\ \A n \in Message \ {m} : Contents(n)' = Contents(n)
  BY <1>0, Pushes DEF Message, DataInv
<1>3. Size[m] < Items * ItemSize[m] /\ ItemSize[m] \in Nat /\ Items \in Nat /\ ItemSize[m] > 0
  BY MessageAssumption, SizeFacts DEF Message
<1>4. ASSUME Contents(m) = <<>>, Contents(m)' = <<carried(s)>>, Size[m] >= ItemSize[m]
      PROVE  Ordered(m)' /\ Len(Contents(m))' = Len(Contents(m)) + 1
  <2>1. r = s
    BY <1>0, <1>4 DEF DataInv, Ordered
  <2>2. Items > 1
    <3> SUFFICES ASSUME Items = 0 \/ Items = 1 PROVE FALSE
      BY <1>3
    <3>1. Size[m] \in Nat /\ Items * ItemSize[m] <= ItemSize[m]
      BY <1>3, SizeFacts DEF Message
    <3> QED BY <1>3, <1>4, <3>1
  <2>3. Ordered(m)'
    BY <1>1, <1>4, <2>1, <2>2 DEF Ordered
  <2>4. Len(Contents(m)') = 1 /\ Len(Contents(m)) = 0
    BY <1>4
  <2> QED BY <2>3, <2>4
<1>5. ASSUME NEW e, Contents(m) = <<e>>, Contents(m)' = <<e, carried(s)>>,
             Size[m] = 2 * ItemSize[m]
      PROVE  Ordered(m)' /\ Len(Contents(m))' = Len(Contents(m)) + 1
  <2>1. e = carried(r) /\ s = Next1(r)
    <3>1. \/ Contents(m) = <<>>
          \/ Contents(m) = <<carried(r)>> /\ s = Next1(r)
          \/ Contents(m) = <<carried(r), carried(Next1(r))>>
      BY <1>0 DEF DataInv, Ordered
    <3> HIDE DEF carried
    <3>2. Contents(m) # <<>> /\ Contents(m) # <<carried(r), carried(Next1(r))>>
      BY <1>5
    <3> QED BY <1>5, <3>1, <3>2
  <2>2. Items > 2
    <3> SUFFICES ASSUME Items \in 0 .. 2 PROVE FALSE
      BY <1>3
    <3>1. CASE Items = 0
      BY <1>3, <1>5, <3>1
    <3>2. CASE Items = 1
      BY <1>3, <1>5, <3>2
    <3>3. CASE Items = 2
      BY <1>3, <1>5, <3>3
    <3> QED BY <3>1, <3>2, <3>3
  <2>3. Ordered(m)'
    BY <1>1, <1>5, <2>1, <2>2 DEF Ordered
  <2>4. Len(Contents(m)') = 2 /\ Len(Contents(m)) = 1
    BY <1>5
  <2> QED BY <2>3, <2>4
<1>6. Ordered(m)' /\ Len(Contents(m))' = Len(Contents(m)) + 1
  <2>1. \/ Contents(m) = <<>> /\ Contents(m)' = <<carried(s)>> /\ Size[m] >= ItemSize[m]
        \/ /\ \E e : Contents(m) = <<e>> /\ Contents(m)' = <<e, carried(s)>>
           /\ Size[m] = 2 * ItemSize[m]
    BY <1>0, PushAddsOne DEF Message, DataInv
  <2>2. CASE \E e : /\ Contents(m) = <<e>> /\ Contents(m)' = <<e, carried(s)>>
                    /\ Size[m] = 2 * ItemSize[m]
    BY <1>5, <2>2
  <2> QED BY <1>4, <2>1, <2>2
<1>7. \A n \in Message \ {m} : Ordered(n)'
  <2>1. \A n \in Message \ {m} : sent'[n] = sent[n] /\ received'[n] = received[n]
    BY DEF DataInv, DataTypes
  <2> QED BY <1>2, <2>1 DEF DataInv, Ordered
<1>8. DataTypes'
  BY <1>0, <1>1 DEF DataInv, DataTypes, Next1
<1> QED BY <1>2, <1>6, <1>7, <1>8 DEF DataInv

LEMMA ReceiveKeeps ==
    ASSUME DataInv, NEW m \in Message, Pop(m, ItemSize[m]),
           received' = [received EXCEPT ![m] = (@ + 1) % Items], UNCHANGED sent,
           overtaken' \subseteq Task
    PROVE  /\ DataInv'
           /\ Len(Contents(m))' = Len(Contents(m)) - 1
           /\ \A n \in Message \ {m} : Contents(n)' = Contents(n)
<1> DEFINE carried(n) == Bytes(n, ItemSize[m])
<1>0. PICK r \in Item, s \in Item : r = received[m] /\ s = sent[m]
  BY DEF DataInv, DataTypes
<1>1. received'[m] = Next1(r) /\ sent'[m] = s /\ Next1(r) \in Item
  BY <1>0, NumberFacts DEF DataInv, DataTypes, Next1
<1>2. /\ RingInv'
      /\ \A n \in Message \ {m} : Contents(n)' = Contents(n)
  BY <1>0, Pops DEF Message, DataInv
<1>3. ASSUME NEW e, Contents(m) = <<e>>, Contents(m)' = <<>>
      PROVE  Ordered(m)' /\ Len(Contents(m))' = Len(Contents(m)) - 1
  <2>1. s = Next1(r)
    BY <1>0, <1>3 DEF DataInv, Ordered
  <2>2. Len(Contents(m)') = 0 /\ Len(Contents(m)) = 1
    BY <1>3
  <2> QED BY <1>1, <1>3, <2>1, <2>2 DEF Ordered
<1>4. ASSUME NEW e, NEW f, Contents(m) = <<e, f>>, Contents(m)' = <<f>>
      PROVE  Ordered(m)' /\ Len(Contents(m))' = Len(Contents(m)) - 1
  <2>1. f = carried(Next1(r)) /\ s = Next1(Next1(r)) /\ Items > 2
    BY <1>0, <1>4 DEF DataInv, Ordered
  <2>2. Len(Contents(m)') = 1 /\ Len(Contents(m)) = 2
    BY <1>4
  <2>3. Items > 1
    BY <2>1, NumberFacts
  <2>4. Ordered(m)'
    BY <1>1, <1>4, <2>1, <2>3 DEF Ordered
  <2> QED BY <2>2, <2>4
<1>5. Ordered(m)' /\ Len(Contents(m))' = Len(Contents(m)) - 1
  <2>1. \/ \E e : Contents(m) = <<e>> /\ Contents(m)' = <<>>
        \/ \E e, f : Contents(m) = <<e, f>> /\ Contents(m)' = <<f>>
    BY PopTakesOne DEF Message, DataInv
  <2> QED BY <1>3, <1>4, <2>1
<1>6. \A n \in Message \ {m} : Ordered(n)'
  <2>1. \A n \in Message \ {m} : sent'[n] = sent[n] /\ received'[n] = received[n]
    BY DEF DataInv, DataTypes
  <2> QED BY <1>2, <2>1 DEF DataInv, Ordered
<1>7. DataTypes'
  BY <1>0, <1>1 DEF DataInv, DataTypes, Next1
<1> QED BY <1>2, <1>5, <1>6, <1>7 DEF DataInv

LEMMA OperationKeeps ==
    ASSUME DataInv, NEW side \in Side, NEW m \in Message, QueueOp(side, m),
           overtaken' \subseteq Task
    PROVE  /\ DataInv'
           /\ Available(side, m)' = Available(side, m) - 1
           /\ Available(Opposite(side), m)' = Available(Opposite(side), m) + 1
           /\ \A s \in Side, n \in Message \ {m} : Available(s, n)' = Available(s, n)
<1>1. Accepted(m) \in Nat /\ Len(Contents(m)) \in Nat
  BY LengthInRange DEF Accepted, DataInv, Message
<1>2. CASE side = "send"
  <2>1. /\ DataInv'
        /\ Len(Contents(m))' = Len(Contents(m)) + 1
        /\ \A n \in Message \ {m} : Contents(n)' = Contents(n)
    BY <1>2, SendKeeps DEF QueueOp
  <2> QED BY <1>1, <1>2, <2>1 DEF Available, Opposite, Accepted
<1>3. CASE side = "receive"
  <2>1. /\ DataInv'
        /\ Len(Contents(m))' = Len(Contents(m)) - 1
        /\ \A n \in Message \ {m} : Contents(n)' = Contents(n)
    BY <1>3, ReceiveKeeps DEF QueueOp
  <2> QED BY <1>1, <1>3, <2>1 DEF Available, Opposite, Accepted
<1> QED BY <1>2, <1>3 DEF Side

LEMMA DataStays ==
    ASSUME DataInv, UNCHANGED <<ring_vars, sent, received>>, overtaken' \subseteq Task
    PROVE  /\ DataInv'
           /\ \A side \in Side, m \in Message : Available(side, m)' = Available(side, m)
<1>1. RingInv' /\ \A m \in Message : Contents(m)' = Contents(m)
  BY RingKept DEF DataInv, Message
<1> QED BY <1>1 DEF DataInv, DataTypes, Ordered, Available, Accepted

-----------------------------------------------------------------------------
(***************************************************************************)
(* The waiters of a side that were released and not overtaken are never    *)
(* more than what is available to them.                                    *)
(***************************************************************************)
Due(side, m) == ReleasedTo(side, m) \ overtaken

DueInv == \A side \in Side, m \in Message :
              Cardinality(Due(side, m)) <= Available(side, m)

LEMMA TasksFinite == \A S \in SUBSET Task : IsFiniteSet(S) /\ Cardinality(S) \in Nat
<1> SUFFICES ASSUME NEW S \in SUBSET Task
             PROVE  IsFiniteSet(S) /\ Cardinality(S) \in Nat
  OBVIOUS
<1>1. IsFiniteSet(0 .. OS_TASK_MAX - 1)
  BY TaskMaxAssumption, FS_Interval
<1>2. S \subseteq 0 .. OS_TASK_MAX - 1
  BY DEF Task, Priority
<1>3. IsFiniteSet(S)
  BY <1>1, <1>2, FS_Subset
<1> QED BY <1>3, FS_CardinalityType

LEMMA DueTasks == \A side \in Side, m \in Message : Due(side, m) \subseteq Task
BY DEF Due, ReleasedTo

\* Fewer are due, and as much is available.
LEMMA FewerDue ==
    ASSUME RingInv, DueInv, NEW s \in Side, NEW n \in Message,
           Due(s, n)' \subseteq Due(s, n), Available(s, n)' \in Int,
           Available(s, n)' >= Available(s, n)
    PROVE  Cardinality(Due(s, n)') <= Available(s, n)'
<1> DEFINE D == Due(s, n)
           E == Due(s, n)'
<1>1. D \subseteq Task /\ E \subseteq D
  BY DueTasks
<1> HIDE DEF D, E
<1>2. Cardinality(E) <= Cardinality(D) /\ Cardinality(D) \in Nat /\ Cardinality(E) \in Nat
  BY <1>1, TasksFinite, FS_Subset
<1>3. Cardinality(D) <= Available(s, n) /\ Available(s, n) \in Int
  BY AvailableCanDo DEF DueInv, D
<1>4. Cardinality(E) <= Available(s, n)'
  BY <1>2, <1>3
<1> QED BY <1>4 DEF E

\* One more is due, and one more is available.
LEMMA OneMoreDue ==
    ASSUME RingInv, DueInv, NEW s \in Side, NEW n \in Message, NEW p \in Task,
           Due(s, n)' \subseteq Due(s, n) \cup {p}, Available(s, n)' = Available(s, n) + 1
    PROVE  Cardinality(Due(s, n)') <= Available(s, n)'
<1> DEFINE D == Due(s, n)
           E == Due(s, n)'
<1>1. D \subseteq Task /\ E \subseteq D \cup {p} /\ D \cup {p} \in SUBSET Task
  BY DueTasks
<1> HIDE DEF D, E
<1>2. /\ Cardinality(E) <= Cardinality(D \cup {p})
      /\ Cardinality(D \cup {p}) \in Nat /\ Cardinality(E) \in Nat /\ Cardinality(D) \in Nat
  BY <1>1, TasksFinite, FS_Subset
<1>3. Cardinality(D \cup {p}) <= Cardinality(D) + 1
  <2>1. Cardinality(D \cup {p}) = IF p \in D THEN Cardinality(D) ELSE Cardinality(D) + 1
    BY <1>1, TasksFinite, FS_AddElement
  <2> QED BY <1>2, <2>1
<1>4. Cardinality(D) <= Available(s, n) /\ Available(s, n) \in Int
  BY AvailableCanDo DEF DueInv, D
<1>5. Cardinality(E) <= Available(s, n) + 1
  BY <1>2, <1>3, <1>4
<1> QED BY <1>5 DEF E

\* One less is due, and one less is available.
LEMMA OneLessDue ==
    ASSUME RingInv, DueInv, NEW s \in Side, NEW n \in Message, NEW p \in Due(s, n),
           Due(s, n)' \subseteq Due(s, n) \ {p}, Available(s, n)' = Available(s, n) - 1
    PROVE  Cardinality(Due(s, n)') <= Available(s, n)'
<1> DEFINE D == Due(s, n)
           E == Due(s, n)'
<1>1. D \subseteq Task /\ E \subseteq D \ {p} /\ D \ {p} \in SUBSET Task /\ p \in D
  BY DueTasks
<1> HIDE DEF D, E
<1>2. /\ Cardinality(E) <= Cardinality(D \ {p})
      /\ Cardinality(D \ {p}) \in Nat /\ Cardinality(E) \in Nat /\ Cardinality(D) \in Nat
  BY <1>1, TasksFinite, FS_Subset
<1>3. Cardinality(D \ {p}) = Cardinality(D) - 1
  BY <1>1, TasksFinite, FS_RemoveElement
<1>4. Cardinality(D) <= Available(s, n) /\ Available(s, n) \in Int
  BY AvailableCanDo DEF DueInv, D
<1>5. Cardinality(E) <= Available(s, n) - 1
  BY <1>2, <1>3, <1>4
<1> QED BY <1>5 DEF E

AvailableNat == \A side \in Side, m \in Message : Available(side, m) \in Nat

LEMMA AvailableStaysNat == (RingInv => AvailableNat) /\ (RingInv' => AvailableNat')
<1>1. RingInv => AvailableNat
  BY AvailableCanDo DEF AvailableNat
<1> QED BY <1>1, PTL

LEMMA NobodyDue ==
    ASSUME RingInv', NEW s \in Side, NEW n \in Message, Due(s, n)' = {}
    PROVE  Cardinality(Due(s, n)') <= Available(s, n)'
<1>1. Available(s, n)' \in Nat
  BY AvailableStaysNat DEF AvailableNat
<1>2. Cardinality(Due(s, n)') = 0
  BY FS_EmptySet
<1> QED BY <1>1, <1>2

LEMMA DueNotInVain ==
    ASSUME RingInv, DueInv
    PROVE  ReleasedNotInVain
<1> SUFFICES ASSUME NEW side \in Side, NEW m \in Message,
                    NEW t \in ReleasedTo(side, m), t \notin overtaken
             PROVE  CanDo(side, m)
  BY DEF ReleasedNotInVain
<1> DEFINE D == Due(side, m)
<1>1. D \subseteq Task /\ t \in D
  BY DueTasks DEF Due
<1> HIDE DEF D
<1>2. Cardinality(D) \in Nat /\ Cardinality(D) # 0
  BY <1>1, TasksFinite, FS_EmptySet
<1>3. Cardinality(D) <= Available(side, m) /\ Available(side, m) \in Nat
  BY AvailableCanDo DEF DueInv, D
<1>4. Available(side, m) > 0
  BY <1>2, <1>3
<1> QED BY <1>4, AvailableCanDo

-----------------------------------------------------------------------------
(***************************************************************************)
(* Every step keeps DataInv and DueInv.                                    *)
(***************************************************************************)
LEMMA OthersPass ==
    ASSUME DataInv, DueInv, UNCHANGED message_vars
    PROVE  DataInv' /\ DueInv'
<1>1. overtaken' \subseteq Task
  BY DEF message_vars, DataInv, DataTypes
<1>2. DataInv' /\ \A s \in Side, n \in Message : Available(s, n)' = Available(s, n)
  BY <1>1, DataStays DEF message_vars
<1>3. \A s \in Side, n \in Message : Due(s, n)' = Due(s, n)
  BY DEF message_vars, Due, ReleasedTo
<1> QED BY <1>2, <1>3 DEF DueInv

\* A task that begins to wait is not due.
LEMMA BlockPasses ==
    ASSUME KernelInv, WaitInv, DataInv, DueInv, NEW side \in Side, NEW m \in Message,
           NEW timeout \in Timeouts, Calling, Block(side, m, timeout)
    PROVE  DataInv' /\ DueInv'
<1> DEFINE t == os_task_current
<1>1. t \in Task /\ priority[t] = t /\ inside[t] = NULL
  BY Caller DEF Calling
<1>2. /\ waiting_tasks' = [waiting_tasks EXCEPT ![side][m] = @ \cup {t}]
      /\ inside' = [inside EXCEPT ![t] = <<side, m>>]
      /\ UNCHANGED <<ring_vars, sent, received, overtaken>>
  BY <1>1 DEF Block
<1> HIDE DEF t
<1>3. overtaken' \subseteq Task
  BY <1>2 DEF DataInv, DataTypes
<1>4. DataInv' /\ \A s \in Side, n \in Message : Available(s, n)' = Available(s, n)
  BY <1>2, <1>3, DataStays
<1>5. \A s \in Side, n \in Message : Due(s, n)' \subseteq Due(s, n)
  <2> SUFFICES ASSUME NEW s \in Side, NEW n \in Message, NEW p \in Due(s, n)'
               PROVE  p \in Due(s, n)
    OBVIOUS
  <2>1. /\ p \in Task /\ inside'[p] = <<s, n>> /\ p \notin waiting_tasks'[s][n]
        /\ p \notin overtaken
    BY <1>2 DEF Due, ReleasedTo
  <2>2. p # t
    <3>1. p = t => s = side /\ n = m
      BY <1>1, <1>2, <2>1 DEF WaitInv, WaitTypes
    <3> QED BY <1>2, <2>1, <3>1 DEF WaitInv, WaitTypes
  <2>3. inside[p] = <<s, n>> /\ p \notin waiting_tasks[s][n]
    BY <1>2, <2>1, <2>2 DEF WaitInv, WaitTypes
  <2> QED BY <2>1, <2>3 DEF Due, ReleasedTo
<1>6. DueInv'
  <2> SUFFICES ASSUME NEW s \in Side, NEW n \in Message
               PROVE  Cardinality(Due(s, n)') <= Available(s, n)'
    BY DEF DueInv
  <2>1. Available(s, n) \in Int /\ Available(s, n)' = Available(s, n)
    BY <1>4, AvailableCanDo DEF DataInv
  <2>2. Available(s, n)' \in Int /\ Available(s, n)' >= Available(s, n)
    BY <2>1
  <2> QED BY <1>5, <2>2, FewerDue DEF DataInv
<1> QED BY <1>4, <1>6

\* Who is served at once gets in before all that wait on its own side, and
\* makes at most one on the other side due.
LEMMA ServedPasses ==
    ASSUME KernelInv, WaitInv, DataInv, DueInv, NEW side \in Side, NEW m \in Message,
           Calling, Served(side, m)
    PROVE  DataInv' /\ DueInv'
<1>0. PICK other \in Side : other = Opposite(side) /\ other # side /\ Opposite(other) = side
  BY DEF Side, Opposite
<1>1. /\ os_task_current \in Task /\ inside[os_task_current] = NULL
      /\ UNCHANGED inside
  BY Caller DEF Calling, Served
<1>2. PICK ps \in SUBSET Task :
        /\ \A p, q \in ps : p = q
        /\ \A p \in ps : p \in waiting_tasks[other][m] /\ inside[p] = <<other, m>>
        /\ waiting_tasks' = [waiting_tasks EXCEPT ![other][m] = @ \ ps]
        /\ overtaken' = (overtaken \cup OthersInside(side, m)) \ ps
  <2>1. CASE waiting_tasks[other][m] # {} /\ os_message_release_waiting_task(other, m)
    <3>1. PICK p \in waiting_tasks[other][m] :
            /\ waiting_tasks' = [waiting_tasks EXCEPT ![other][m] = @ \ {p}]
            /\ overtaken' = (overtaken \cup OthersInside(side, m)) \ {p}
      BY <1>0, <2>1, Releases
    <3>2. p \in Task /\ inside[p] = <<other, m>>
      BY WaiterIsTask
    <3> QED BY <3>1, <3>2
  <2>2. CASE overtaken' = overtaken \cup OthersInside(side, m) /\ UNCHANGED waiting_tasks
    <3>1. waiting_tasks' = [waiting_tasks EXCEPT ![other][m] = @ \ {}]
      BY <2>2 DEF WaitInv, WaitTypes
    <3>2. overtaken' = (overtaken \cup OthersInside(side, m)) \ {}
      BY <2>2
    <3> WITNESS {} \in SUBSET Task
    <3> QED BY <3>1, <3>2, Zenon
  <2> QED BY <1>0, <2>1, <2>2 DEF Served
<1>3. overtaken' \subseteq Task
  BY <1>2 DEF OthersInside, DataInv, DataTypes
<1>4. /\ DataInv'
      /\ Available(other, m)' = Available(other, m) + 1
      /\ \A s \in Side, n \in Message \ {m} : Available(s, n)' = Available(s, n)
  BY <1>0, <1>3, OperationKeeps DEF Served
<1>5. Due(side, m)' = {}
  <2> SUFFICES ASSUME NEW p \in Due(side, m)' PROVE FALSE
    OBVIOUS
  <2>1. p \in Task /\ inside[p] = <<side, m>> /\ p \notin overtaken'
    BY <1>1 DEF Due, ReleasedTo
  <2>2. p # os_task_current /\ p \in OthersInside(side, m)
    BY <1>1, <2>1, WaitIsNotNull DEF OthersInside
  <2>3. p \notin ps
    BY <1>0, <1>2, <2>1
  <2> QED BY <1>2, <2>1, <2>2, <2>3
<1>6. Due(other, m)' \subseteq Due(other, m) \cup ps
  <2> SUFFICES ASSUME NEW p \in Due(other, m)', p \notin ps PROVE p \in Due(other, m)
    OBVIOUS
  <2> QED BY <1>1, <1>2 DEF Due, ReleasedTo, WaitInv, WaitTypes
<1>7. \A s \in Side, n \in Message \ {m} : Due(s, n)' \subseteq Due(s, n)
  <2> SUFFICES ASSUME NEW s \in Side, NEW n \in Message \ {m}, NEW p \in Due(s, n)'
               PROVE  p \in Due(s, n)
    OBVIOUS
  <2>1. p \in Task /\ inside[p] = <<s, n>> /\ p \notin overtaken'
        /\ p \notin waiting_tasks'[s][n]
    BY <1>1 DEF Due, ReleasedTo
  <2>2. p \notin ps
    BY <1>2, <2>1
  <2>3. p \notin waiting_tasks[s][n]
    BY <1>2, <2>1 DEF WaitInv, WaitTypes
  <2> QED BY <1>2, <2>1, <2>2, <2>3 DEF Due, ReleasedTo
<1>8. DueInv'
  <2> SUFFICES ASSUME NEW s \in Side, NEW n \in Message
               PROVE  Cardinality(Due(s, n)') <= Available(s, n)'
    BY DEF DueInv
  <2>0. RingInv /\ RingInv' /\ Available(s, n) \in Int
    BY <1>4, AvailableCanDo DEF DataInv
  <2>1. CASE n # m
    <3>1. Available(s, n)' \in Int /\ Available(s, n)' >= Available(s, n)
      BY <1>4, <2>0, <2>1
    <3> QED BY <1>7, <2>0, <2>1, <3>1, FewerDue
  <2>2. CASE n = m /\ s = side
    BY <1>5, <2>0, <2>2, NobodyDue
  <2>3. CASE n = m /\ s = other
    <3>1. CASE ps = {}
      <4>1. Available(s, n)' \in Int /\ Available(s, n)' >= Available(s, n)
        BY <1>4, <2>0, <2>3
      <4> QED BY <1>6, <2>0, <2>3, <3>1, <4>1, FewerDue
    <3>2. CASE ps # {}
      <4>1. PICK p \in Task : ps = {p}
        BY <1>2, <3>2
      <4> QED BY <1>4, <1>6, <2>0, <2>3, <4>1, OneMoreDue
    <3> QED BY <3>1, <3>2
  <2> QED BY <1>0, <2>1, <2>2, <2>3 DEF Side
<1> QED BY <1>4, <1>8

\* A released waiter that returns with what it was released for is due no more;
\* one that was not due gets in before all others of its side.
LEMMA ReturnPasses ==
    ASSUME KernelInv, WaitInv, DataInv, DueInv, NEW side \in Side, NEW m \in Message,
           os_message_handle_timeout_return(side, m)
    PROVE  DataInv' /\ DueInv'
<1> DEFINE t == os_task_current
<1>0. PICK other \in Side : other = Opposite(side) /\ other # side
  BY OppositeSide
<1>1. /\ t \in Task /\ priority[t] = t /\ inside[t] = <<side, m>>
      /\ waiting_tasks' = [waiting_tasks EXCEPT ![side][m] = @ \ {t}]
      /\ inside' = [inside EXCEPT ![t] = NULL]
  BY Caller DEF os_message_handle_timeout_return
<1>2. Bypassed(side, m) \subseteq Task
  BY DEF Bypassed, OthersInside
<1>3. overtaken' \subseteq Task /\ overtaken \ {t} \subseteq overtaken'
  BY <1>2 DEF os_message_handle_timeout_return, DataInv, DataTypes
<1>4. ASSUME NEW s \in Side, NEW n \in Message
      PROVE  Due(s, n)' \subseteq Due(s, n) \ {t}
  <2> SUFFICES ASSUME NEW p \in Due(s, n)' PROVE p \in Due(s, n) /\ p # t
    OBVIOUS
  <2>1. /\ p \in Task /\ inside'[p] = <<s, n>> /\ p \notin waiting_tasks'[s][n]
        /\ p \notin overtaken'
    BY DEF Due, ReleasedTo
  <2> HIDE DEF t
  <2>2. p # t
    BY <1>1, <2>1, WaitIsNotNull DEF WaitInv, WaitTypes
  <2>3. inside[p] = <<s, n>> /\ p \notin waiting_tasks[s][n] /\ p \notin overtaken
    BY <1>1, <1>3, <2>1, <2>2 DEF WaitInv, WaitTypes
  <2> QED BY <2>1, <2>2, <2>3 DEF Due, ReleasedTo
<1>5. CASE QueueOp(side, m) /\ overtaken' = (overtaken \cup Bypassed(side, m)) \ {t}
  <2>1. /\ DataInv'
        /\ Available(side, m)' = Available(side, m) - 1
        /\ Available(other, m)' = Available(other, m) + 1
        /\ \A s \in Side, n \in Message \ {m} : Available(s, n)' = Available(s, n)
    BY <1>0, <1>3, <1>5, OperationKeeps
  <2>2. t \notin Due(side, m) => Due(side, m)' = {}
    <3> SUFFICES ASSUME t \notin Due(side, m), NEW p \in Due(side, m)' PROVE FALSE
      OBVIOUS
    <3>1. t \in waiting_tasks[side][m] \cup overtaken
      BY <1>1 DEF Due, ReleasedTo
    <3>2. p \in Due(side, m) /\ p # t /\ p \notin overtaken'
      BY <1>4 DEF Due
    <3>3. p \in OthersInside(side, m) /\ Bypassed(side, m) = OthersInside(side, m)
      BY <3>1, <3>2 DEF Due, ReleasedTo, OthersInside, Bypassed
    <3> QED BY <1>5, <3>2, <3>3
  <2> HIDE DEF t
  <2>3. DueInv'
    <3> SUFFICES ASSUME NEW s \in Side, NEW n \in Message
                 PROVE  Cardinality(Due(s, n)') <= Available(s, n)'
      BY DEF DueInv
    <3>0. RingInv /\ RingInv' /\ Available(s, n) \in Int /\ Due(s, n)' \subseteq Due(s, n) \ {t}
      BY <1>4, <2>1, AvailableCanDo DEF DataInv
    <3>1. CASE n # m \/ s = other
      <4>1. Available(s, n)' \in Int /\ Available(s, n)' >= Available(s, n)
        BY <2>1, <3>0, <3>1
      <4> QED BY <3>0, <4>1, FewerDue
    <3>2. CASE n = m /\ s = side
      <4>1. CASE t \in Due(side, m)
        BY <2>1, <3>0, <3>2, <4>1, OneLessDue
      <4>2. CASE t \notin Due(side, m)
        BY <2>2, <3>0, <3>2, <4>2, NobodyDue
      <4> QED BY <4>1, <4>2
    <3> QED BY <1>0, <3>1, <3>2 DEF Side
  <2> QED BY <2>1, <2>3
<1>6. CASE UNCHANGED <<ring_vars, sent, received>>
  <2>1. DataInv' /\ \A s \in Side, n \in Message : Available(s, n)' = Available(s, n)
    BY <1>3, <1>6, DataStays
  <2>2. DueInv'
    <3> SUFFICES ASSUME NEW s \in Side, NEW n \in Message
                 PROVE  Cardinality(Due(s, n)') <= Available(s, n)'
      BY DEF DueInv
    <3>1. Available(s, n) \in Int /\ Available(s, n)' = Available(s, n)
      BY <2>1, AvailableCanDo DEF DataInv
    <3>2. Available(s, n)' \in Int /\ Available(s, n)' >= Available(s, n)
      BY <3>1
    <3> QED BY <1>4, <3>2, FewerDue DEF DataInv
  <2> QED BY <2>1, <2>2
<1> QED BY <1>5, <1>6 DEF os_message_handle_timeout_return

LEMMA DataStep ==
    ASSUME KernelInv, WaitInv, DataInv, DueInv, [MessageNext]_all_vars
    PROVE  DataInv' /\ DueInv'
<1>1. CASE UNCHANGED message_vars
  BY <1>1, OthersPass
<1>2. ASSUME NEW side \in Side, NEW m \in Message, NEW timeout \in Timeouts,
             os_message_call(side, m, timeout)
      PROVE  DataInv' /\ DueInv'
  BY <1>1, <1>2, BlockPasses, ServedPasses DEF os_message_call, DoNotWait
<1>3. CASE \E t \in Task : WaitReturns(t)
  BY <1>3, ReturnPasses DEF WaitReturns
<1> QED BY <1>1, <1>2, <1>3
        DEF MessageNext, KernelCall, os_message_send, os_message_receive, Side, all_vars

LEMMA DataInitial == MessageInit => DataInv /\ DueInv
<1> SUFFICES ASSUME MessageInit PROVE DataInv /\ DueInv
  OBVIOUS
<1>1. RingInv /\ \A m \in Message : Contents(m) = <<>>
  BY RingStarts DEF MessageInit, QueueInit, Message
<1>2. 0 \in Item
  BY NumberFacts
<1>3. DataInv
  BY <1>1, <1>2 DEF MessageInit, DataInv, DataTypes, Ordered
<1>4. \A side \in Side, m \in Message : Due(side, m) = {}
  BY WaitIsNotNull DEF MessageInit, Due, ReleasedTo
<1>5. DueInv
  <2> SUFFICES ASSUME NEW side \in Side, NEW m \in Message
               PROVE  Cardinality(Due(side, m)) <= Available(side, m)
    BY DEF DueInv
  <2>1. Available(side, m) \in Nat
    BY <1>1, AvailableCanDo
  <2>2. Cardinality(Due(side, m)) = 0
    BY <1>4, FS_EmptySet
  <2> QED BY <2>1, <2>2
<1> QED BY <1>3, <1>5

LEMMA DataInvariant ==
    ASSUME RestartDeleted = FALSE
    PROVE  MessageSpec => []DataInv /\ []DueInv
<1> DEFINE Inv == DataInv /\ DueInv
<1>1. MessageInit => Inv
  BY DataInitial
<1>2. KernelInv /\ WaitInv /\ Inv /\ [MessageNext]_all_vars => Inv'
  BY DataStep
<1>3. Inv => DataInv /\ DueInv
  OBVIOUS
<1> HIDE DEF Inv
<1> QED BY <1>1, <1>2, <1>3, WaitInvariant, PTL DEF MessageSpec

-----------------------------------------------------------------------------
\* Masks hold tasks' priorities, rings hold messages or bytes nobody wrote yet,
\* and all indices stay inside the rings.
THEOREM MessageTypeCorrect ==
    ASSUME RestartDeleted = FALSE
    PROVE  MessageSpec => []MessageTypeOK
<1>1. KernelInv /\ WaitInv /\ DataInv => MessageTypeOK
  BY DEF KernelInv, TypeInv, WaitInv, WaitTypes, DataInv, DataTypes, RingInv, RingTypes,
         Offset, QueueTypeOK, MessageTypeOK
<1> QED BY <1>1, WaitInvariant, DataInvariant, PTL

\* Whatever a send reported as sent is received exactly once, whole and in
\* order, through every wait, timeout and wrap of the ring (message.c:89, :192).
THEOREM DeliveredInOrderAlways ==
    ASSUME RestartDeleted = FALSE
    PROVE  MessageSpec => []DeliveredInOrder
<1>1. DataInv => DeliveredInOrder
  BY OrderedDelivers
<1> QED BY <1>1, DataInvariant, PTL

\* A released waiter that nobody of its side got in before can be served when it
\* tries again: no release is for nothing (message.c:58-62, :89).
THEOREM ReleasedNotInVainAlways ==
    ASSUME RestartDeleted = FALSE
    PROVE  MessageSpec => []ReleasedNotInVain
<1>1. DataInv /\ DueInv => ReleasedNotInVain
  BY DueNotInVain DEF DataInv
<1> QED BY <1>1, DataInvariant, PTL

-----------------------------------------------------------------------------
(***************************************************************************)
(* The messages implement BlockingChannel.  What that specification sees   *)
(* of the rings are their contents, of the masks who waits.                *)
(***************************************************************************)
LEMMA WhoWaits ==
    ASSUME KernelInv, WaitInv, NEW side \in Side, NEW m \in Message
    PROVE  Channels!Queueing(side, m) = waiting_tasks[side][m]
<1>1. ASSUME NEW t \in waiting_tasks[side][m] PROVE t \in Channels!Queueing(side, m)
  <2>1. t \in Task /\ t # OS_TASK_IDLE /\ inside[t] = <<side, m>>
    BY WaiterIsTask
  <2>2. t \in Uncalled
    BY DEF Uncalled
  <2> QED BY <2>1, <2>2 DEF Channels!Queueing, Visits
<1>2. ASSUME NEW t \in Channels!Queueing(side, m) PROVE t \in waiting_tasks[side][m]
  <2>1. t \in Uncalled /\ Visits[t] = <<side, m>>
    BY DEF Channels!Queueing
  <2>2. PICK s \in Side, n \in Message : t \in waiting_tasks[s][n]
    BY <2>1 DEF Uncalled
  <2>3. t \in Task /\ t # OS_TASK_IDLE /\ inside[t] = <<s, n>>
    BY <2>2, WaiterIsTask
  <2>4. <<s, n>> = <<side, m>>
    BY <2>1, <2>3 DEF Visits
  <2> QED BY <2>2, <2>4
<1> QED BY <1>1, <1>2

LEMMA PossibleIsCanDo ==
    ASSUME RingInv, NEW side \in Side, NEW m \in Message
    PROVE  Channels!Possible(side, m) <=> CanDo(side, m)
<1>1. /\ Len(Contents(m)) \in 0 .. Accepted(m) /\ Accepted(m) \in Nat
      /\ Len(Contents(m)) = 0 <=> Contents(m) = <<>>
      /\ Len(Contents(m)) = Accepted(m) <=> ~os_queue_can_push(m, ItemSize[m])
      /\ Len(Contents(m)) = 0 <=> ~os_queue_can_pop(m, ItemSize[m])
  BY LengthInRange, Lengths DEF Message, Accepted
<1>2. Carried[m] = Contents(m)
  BY DEF Carried
<1>3. Len(Contents(m)) < Accepted(m) <=> Len(Contents(m)) # Accepted(m)
  BY <1>1
<1>4. CASE side = "send"
  BY <1>1, <1>2, <1>3, <1>4 DEF Channels!Possible, Channels!Send, CanDo
<1>5. CASE side = "receive"
  BY <1>1, <1>2, <1>5 DEF Channels!Possible, Channels!Send, CanDo
<1> QED BY <1>4, <1>5 DEF Side

LEMMA RingsRest ==
    ASSUME RingInv, UNCHANGED ring_vars
    PROVE  UNCHANGED Carried
BY RingKept DEF Carried, Message

LEMMA OperationMoves ==
    ASSUME DataInv, NEW side \in Side, NEW m \in Message, QueueOp(side, m)
    PROVE  Channels!Move(side, m)
<1>1. RingInv /\ sent[m] \in Item
  BY DEF DataInv, DataTypes
<1>2. CASE side = "send" /\ Push(m, sent[m], ItemSize[m])
  <2> DEFINE e == Bytes(sent[m], ItemSize[m])
  <2>1. /\ Contents(m)' = Append(Contents(m), e)
        /\ \A n \in Message \ {m} : Contents(n)' = Contents(n)
    BY <1>1, <1>2, Pushes DEF Message
  <2>2. Carried' = [Carried EXCEPT ![m] = Append(@, e)]
    BY <2>1 DEF Carried
  <2>3. e \in Payload
    BY <1>1 DEF Payload
  <2>4. Channels!Possible(side, m)
    BY <1>1, <1>2, PossibleIsCanDo DEF CanDo, Push
  <2> HIDE DEF e
  <2> QED BY <1>2, <2>2, <2>3, <2>4 DEF Channels!Move, Channels!Send
<1>3. CASE side = "receive" /\ Pop(m, ItemSize[m])
  <2>1. /\ Contents(m)' = Tail(Contents(m))
        /\ \A n \in Message \ {m} : Contents(n)' = Contents(n)
    BY <1>1, <1>3, Pops DEF Message
  <2>2. Carried' = [Carried EXCEPT ![m] = Tail(@)]
    BY <2>1 DEF Carried
  <2>3. Channels!Possible(side, m)
    BY <1>1, <1>3, PossibleIsCanDo DEF CanDo, Pop
  <2> QED BY <1>3, <2>2, <2>3 DEF Channels!Move, Channels!Receive
<1> QED BY <1>2, <1>3 DEF QueueOp

\* A task that makes a call outside all waits.
LEMMA CallerIsFree ==
    ASSUME KernelInv, Executing
    PROVE  /\ Channels!Acts
           /\ Visits[os_task_current] = inside[os_task_current]
           /\ Calling => Channels!Free
<1>1. Scheduler!Acts /\ os_task_current \in Task \ {OS_TASK_IDLE}
  BY CallerActs DEF KernelInv
<1> QED BY <1>1 DEF Scheduler!Acts, Channels!Acts, Channels!Free, Visits, Calling

\* Taking one waiter out of its mask takes it out of those nobody called.
LEMMA CallsOne ==
    ASSUME KernelInv, WaitInv, NEW side \in Side, NEW m \in Message,
           NEW p, inside[p] = <<side, m>>,
           waiting_tasks' = [waiting_tasks EXCEPT ![side][m] = @ \ {p}]
    PROVE  Uncalled' = Uncalled \ {p}
<1>1. ASSUME NEW s \in Side, NEW n \in Message
      PROVE  waiting_tasks'[s][n] = waiting_tasks[s][n] \ {p}
  <2>1. CASE s = side /\ n = m
    BY <2>1 DEF WaitInv, WaitTypes
  <2>2. CASE ~(s = side /\ n = m)
    <3>1. p \notin waiting_tasks[s][n]
      <4> SUFFICES ASSUME p \in waiting_tasks[s][n] PROVE FALSE
        OBVIOUS
      <4>1. inside[p] = <<s, n>>
        BY WaiterIsTask
      <4> QED BY <2>2, <4>1
    <3> QED BY <2>2, <3>1 DEF WaitInv, WaitTypes
  <2> QED BY <2>1, <2>2
<1> QED BY <1>1 DEF Uncalled

LEMMA TransferStep ==
    ASSUME RestartDeleted = FALSE, KernelInv, KernelInv', WaitInv, DataInv,
           NEW side \in Side, NEW m \in Message, Calling, Served(side, m)
    PROVE  Channels!Transfer(side, m)
<1>0. PICK other \in Side : other = Opposite(side) /\ other = Channels!Other(side)
  BY DEF Side, Opposite, Channels!Other, Channels!Send, Channels!Receive
<1>1. Channels!Free /\ Channels!Acts
  BY CallerIsFree DEF Calling
<1>2. Channels!Move(side, m)
  BY OperationMoves DEF Served
<1>3. UNCHANGED Visits
  BY DEF Served, Visits
<1>4. Channels!Queueing(other, m) = waiting_tasks[other][m]
  BY WhoWaits
<1>5. CASE waiting_tasks[other][m] # {} /\ os_message_release_waiting_task(other, m)
  <2>1. PICK p \in waiting_tasks[other][m] :
          /\ \A q \in waiting_tasks[other][m] : q <= p
          /\ waiting_tasks' = [waiting_tasks EXCEPT ![other][m] = @ \ {p}]
          /\ \E id \in TaskId : PriorityOf(id) = p /\ os_task_release(id)
    BY <1>5, Releases
  <2>2. Scheduler!Release(p)
    BY <2>1, ReleaseIsRelease DEF KernelInv
  <2>3. Channels!Release(p)
    BY <2>2 DEF Scheduler!Release, Channels!Release, Scheduler!Acts, Channels!Acts,
                Scheduler!Wakes, Channels!Wakes, Scheduler!Asleep, Channels!Asleep,
                Scheduler!Decide, Channels!Decide, Scheduler!Best, Channels!Best
  <2>4. Uncalled' = Uncalled \ {p}
    <3>1. inside[p] = <<other, m>>
      BY WaiterIsTask
    <3> QED BY <2>1, <3>1, CallsOne
  <2> QED BY <1>0, <1>1, <1>2, <1>3, <1>4, <2>1, <2>3, <2>4 DEF Channels!Transfer
<1>6. CASE waiting_tasks[other][m] = {} /\ UNCHANGED <<vars, waiting_tasks>>
  <2>1. UNCHANGED Uncalled /\ UNCHANGED Channels!sched_vars
    BY <1>6 DEF Uncalled, vars, masks, Channels!sched_vars
  <2> QED BY <1>0, <1>1, <1>2, <1>3, <1>4, <1>6, <2>1 DEF Channels!Transfer
<1> QED BY <1>0, <1>5, <1>6 DEF Served

LEMMA BlockIsWait ==
    ASSUME KernelInv, KernelInv', WaitInv, DataInv, NEW side \in Side, NEW m \in Message,
           NEW n \in Timeouts, Calling, Block(side, m, n)
    PROVE  n \in Timeouts \ {0} /\ Channels!Wait(side, m, n)
<1> DEFINE t == os_task_current
<1>1. t \in Task \ {OS_TASK_IDLE} /\ priority[t] = t
  BY Caller DEF Calling
<1>2. Channels!Free /\ ~Channels!Possible(side, m)
  BY CallerIsFree, PossibleIsCanDo DEF Calling, Block, DataInv
<1>3. n \in Delays /\ n # 0 /\ os_delay(n)
  BY MessageAssumption DEF Block
<1>4. Channels!Nap(n)
  <2>1. Scheduler!Nap(n)
    BY <1>3, DelayIsNap DEF KernelInv
  <2> QED BY <2>1 DEF Scheduler!Nap, Channels!Nap, Scheduler!Acts, Channels!Acts,
                      Scheduler!Asleep, Channels!Asleep, Scheduler!Decide, Channels!Decide,
                      Scheduler!Best, Channels!Best
<1>5. /\ waiting_tasks' = [waiting_tasks EXCEPT ![side][m] = @ \cup {t}]
      /\ inside' = [inside EXCEPT ![t] = <<side, m>>]
      /\ UNCHANGED ring_vars
  BY <1>1 DEF Block
<1> HIDE DEF t
<1>6. Visits' = [Visits EXCEPT ![t] = <<side, m>>]
  BY <1>1, <1>5 DEF Visits, WaitInv, WaitTypes
<1>7. Uncalled' = Uncalled \cup {t}
  <2>1. ASSUME NEW s \in Side, NEW c \in Message
        PROVE  waiting_tasks'[s][c] = waiting_tasks[s][c]
                                        \cup (IF s = side /\ c = m THEN {t} ELSE {})
    BY <1>5 DEF WaitInv, WaitTypes
  <2>2. ASSUME NEW p PROVE p \in Uncalled' <=> p \in Uncalled \cup {t}
    <3>1. p \in Uncalled' <=> \E s \in Side, c \in Message : p \in waiting_tasks'[s][c]
      BY DEF Uncalled
    <3>2. p \in Uncalled <=> \E s \in Side, c \in Message : p \in waiting_tasks[s][c]
      BY DEF Uncalled
    <3> QED BY <2>1, <3>1, <3>2
  <2> QED BY <2>2
<1>8. UNCHANGED Carried
  BY <1>5, RingsRest DEF DataInv
<1>9. n \in Timeouts \ {0}
  BY <1>3
<1> QED BY <1>2, <1>4, <1>6, <1>7, <1>8, <1>9 DEF Channels!Wait, t

LEMMA ReturnIsLeave ==
    ASSUME KernelInv, WaitInv, DataInv, NEW side \in Side, NEW m \in Message,
           os_message_handle_timeout_return(side, m)
    PROVE  Channels!Leave(side, m)
<1> DEFINE t == os_task_current
<1>1. t \in Task \ {OS_TASK_IDLE} /\ priority[t] = t /\ inside[t] = <<side, m>>
  BY Caller DEF os_message_handle_timeout_return
<1>2. Channels!Acts /\ Visits[t] = <<side, m>>
  BY <1>1, CallerIsFree DEF os_message_handle_timeout_return
<1>3. Channels!Move(side, m) \/ (~Channels!Possible(side, m) /\ UNCHANGED Carried)
  <2>1. CASE QueueOp(side, m)
    BY <2>1, OperationMoves
  <2>2. CASE ~CanDo(side, m) /\ UNCHANGED ring_vars
    BY <2>2, PossibleIsCanDo, RingsRest DEF DataInv
  <2> QED BY <2>1, <2>2 DEF os_message_handle_timeout_return
<1>4. /\ waiting_tasks' = [waiting_tasks EXCEPT ![side][m] = @ \ {t}]
      /\ inside' = [inside EXCEPT ![t] = NULL]
      /\ UNCHANGED vars
  BY <1>1 DEF os_message_handle_timeout_return
<1> HIDE DEF t
<1>5. Visits' = [Visits EXCEPT ![t] = NULL]
  BY <1>1, <1>4 DEF Visits, WaitInv, WaitTypes
<1>6. Uncalled' = Uncalled \ {t}
  BY <1>1, <1>4, CallsOne
<1>7. UNCHANGED Channels!sched_vars
  BY <1>4 DEF vars, masks, Channels!sched_vars
<1> QED BY <1>2, <1>3, <1>5, <1>6, <1>7 DEF Channels!Leave, t

LEMMA KernelCallIsElsewhere ==
    ASSUME RestartDeleted = FALSE, KernelInv, KernelInv', WaitInv, DataInv, KernelCall
    PROVE  Channels!Elsewhere
<1>1. Channels!Free
  BY CallerIsFree DEF Calling, KernelCall
<1>2. UNCHANGED <<Carried, Visits, Uncalled>>
  BY RingsRest DEF KernelCall, message_vars, Visits, Uncalled, DataInv
<1>3. ASSUME NEW u \in Task \ {OS_TASK_IDLE}, inside[u] = NULL,
             NEW id, id = OS_GET_TASK_ID_FROM_PRIORITY(u),
             os_task_stop(id) \/ os_task_release(id)
      PROVE  Visits[u] = NULL /\ (Channels!Stop(u) \/ Channels!Release(u))
  <2>1. id \in TaskId /\ PriorityOf(id) = u
    BY <1>3, IdOfTask, ConstantFacts
  <2>2. Scheduler!Stop(u) \/ Scheduler!Release(u)
    BY <1>3, <2>1, StopIsStop, ReleaseIsRelease DEF KernelInv
  <2>3. Channels!Stop(u) \/ Channels!Release(u)
    BY <2>2 DEF Scheduler!Stop, Channels!Stop, Scheduler!Release, Channels!Release,
                Scheduler!Acts, Channels!Acts, Scheduler!Leaves, Channels!Leaves,
                Scheduler!Wakes, Channels!Wakes, Scheduler!Asleep, Channels!Asleep,
                Scheduler!Decide, Channels!Decide, Scheduler!Best, Channels!Best
  <2> QED BY <1>3, <2>3 DEF Visits
<1>4. CASE os_task_delete
  <2>1. Scheduler!Delete
    BY <1>4, DeleteIsDelete DEF KernelInv
  <2>2. Channels!Delete
    BY <2>1 DEF Scheduler!Delete, Channels!Delete, Scheduler!Acts, Channels!Acts,
                Scheduler!Leaves, Channels!Leaves, Scheduler!Asleep, Channels!Asleep,
                Scheduler!Decide, Channels!Decide, Scheduler!Best, Channels!Best
  <2> QED BY <1>1, <1>2, <2>2 DEF Channels!Elsewhere
<1>5. ASSUME NEW n \in Delays, os_delay(n) PROVE Channels!Nap(n)
  <2>1. Scheduler!Nap(n)
    BY <1>5, DelayIsNap DEF KernelInv
  <2> QED BY <2>1 DEF Scheduler!Nap, Channels!Nap, Scheduler!Acts, Channels!Acts,
                      Scheduler!Asleep, Channels!Asleep, Scheduler!Decide, Channels!Decide,
                      Scheduler!Best, Channels!Best
<1> QED BY <1>1, <1>2, <1>3, <1>4, <1>5 DEF KernelCall, Channels!Elsewhere

LEMMA ChannelStep ==
    ASSUME RestartDeleted = FALSE, KernelInv, KernelInv', DelayCounts, PendedIsDecided,
           WaitInv, DataInv, [MessageNext]_all_vars
    PROVE  [Channels!ChannelNext]_(Channels!channel_vars)
<1>1. CASE (PendSV_Handler \/ SysTick) /\ UNCHANGED <<message_vars, answer>>
  <2>1. UNCHANGED <<Carried, Visits, Uncalled>>
    BY <1>1, RingsRest DEF message_vars, Visits, Uncalled, DataInv
  <2>2. Scheduler!Tick \/ Scheduler!Switch
    BY <1>1, TickIsTick, SwitchIsSwitch DEF SysTick, KernelInv
  <2>3. Channels!Tick \/ Channels!Switch
    BY <2>2 DEF Scheduler!Tick, Channels!Tick, Scheduler!Switch, Channels!Switch,
                Scheduler!Wakes, Channels!Wakes, Scheduler!Asleep, Channels!Asleep,
                Scheduler!Decide, Channels!Decide, Scheduler!Best, Channels!Best
  <2> QED BY <2>1, <2>3 DEF Channels!ChannelNext
<1>2. CASE KernelCall
  BY <1>2, KernelCallIsElsewhere DEF Channels!ChannelNext
<1>3. ASSUME NEW side \in Side, NEW m \in Message, NEW n \in Timeouts,
             os_message_call(side, m, n)
      PROVE  [Channels!ChannelNext]_(Channels!channel_vars)
  <2>1. side \in {Channels!Send, Channels!Receive}
    BY DEF Side, Channels!Send, Channels!Receive
  <2>2. CASE Served(side, m)
    BY <1>3, <2>1, <2>2, TransferStep DEF os_message_call, Channels!ChannelNext
  <2>3. CASE Block(side, m, n)
    BY <1>3, <2>1, <2>3, BlockIsWait DEF os_message_call, Channels!ChannelNext
  <2>4. CASE DoNotWait(side, m, n)
    <3>1. UNCHANGED <<vars, ring_vars, inside, waiting_tasks>>
      BY <2>4 DEF DoNotWait, message_vars
    <3>2. UNCHANGED <<Carried, Visits, Uncalled>>
      BY <3>1, RingsRest DEF Visits, Uncalled, DataInv
    <3> QED BY <3>1, <3>2 DEF vars, masks, Channels!channel_vars, Channels!sched_vars
  <2> QED BY <1>3, <2>2, <2>3, <2>4 DEF os_message_call
<1>4. ASSUME NEW side \in Side, NEW m \in Message, os_message_handle_timeout_return(side, m)
      PROVE  Channels!ChannelNext
  <2>1. side \in {Channels!Send, Channels!Receive}
    BY DEF Side, Channels!Send, Channels!Receive
  <2> QED BY <1>4, <2>1, ReturnIsLeave DEF Channels!ChannelNext
<1>5. CASE UNCHANGED all_vars
  <2>1. UNCHANGED <<vars, ring_vars, inside, waiting_tasks>>
    BY <1>5 DEF all_vars, message_vars
  <2>2. UNCHANGED <<Carried, Visits, Uncalled>>
    BY <2>1, RingsRest DEF Visits, Uncalled, DataInv
  <2> QED BY <2>1, <2>2 DEF vars, masks, Channels!channel_vars, Channels!sched_vars
<1> QED BY <1>1, <1>2, <1>3, <1>4, <1>5
        DEF MessageNext, WaitReturns, os_message_send, os_message_receive, Side

\* The kernel with its messages is a scheduler with bounded channels, for every
\* number of tasks and messages, all lengths and all timeouts: every critical
\* section of os_message_send, os_message_receive and os_message_handle_timeout
\* is one abstract step (message.c:54-95, :128-215).
THEOREM ImplementsBlockingChannel ==
    ASSUME RestartDeleted = FALSE
    PROVE  MessageSpec => IsBlockingChannel
<1>1. MessageInit => PendedIsDecided
  BY DEF MessageInit, Init, PendedIsDecided
<1>2. PendedIsDecided /\ [Next]_vars => PendedIsDecided'
  BY PendedStep
<1>3. MessageInit => Channels!ChannelInit
  <2> SUFFICES ASSUME MessageInit PROVE Channels!ChannelInit
    OBVIOUS
  <2>1. Scheduler!SchedulerInit
    BY SchedulerInitial DEF MessageInit
  <2>2. Channels!SchedulerInit
    BY <2>1 DEF Scheduler!SchedulerInit, Channels!SchedulerInit
  <2>3. Carried = [m \in Message |-> <<>>]
    BY RingStarts DEF MessageInit, QueueInit, Carried, Message
  <2>4. Visits = [t \in Task \ {OS_TASK_IDLE} |-> NULL] /\ Uncalled = {}
    BY DEF MessageInit, Visits, Uncalled
  <2> QED BY <2>2, <2>3, <2>4 DEF Channels!ChannelInit
<1>4. /\ KernelInv /\ KernelInv' /\ DelayCounts /\ PendedIsDecided /\ WaitInv /\ DataInv
      /\ [MessageNext]_all_vars
      => [Channels!ChannelNext]_(Channels!channel_vars)
  BY ChannelStep
<1>5. MessageSpec => []DelayCounts
  BY MessagesUseTheScheduler, DelayCountsAlways
<1> QED BY <1>1, <1>2, <1>3, <1>4, <1>5, WaitInvariant, DataInvariant, PTL
        DEF MessageSpec, IsBlockingChannel, Channels!ChannelSpec
=============================================================================
