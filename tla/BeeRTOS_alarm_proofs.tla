------------------------- MODULE BeeRTOS_alarm_proofs -------------------------
(***************************************************************************)
(* Proofs about the alarms, for any number of tasks and alarms, all        *)
(* periods and every width of the kernel's counters.                       *)
(***************************************************************************)
EXTENDS BeeRTOS_alarm, BeeRTOS_task_proofs

AlarmTypes ==
    /\ period \in [Alarm -> Periods \cup {0}]
    /\ periodic \in [Alarm -> BOOLEAN]
    /\ remaining_time \in [Alarm -> Nat]
    /\ \A a \in Alarm : remaining_time[a] <= period[a]
    /\ os_alarm_active_mask \subseteq Alarm
    /\ os_alarm_pending_mask \subseteq Alarm
    /\ at \in {"top", "loop", "callback"}
    /\ mask \subseteq Alarm
    /\ at = "callback" => mask # {}
    /\ cancelling \in [Task -> Alarm \cup {NULL}]
    /\ owed \in [Alarm -> 0 .. ExpiryBound]
    /\ raced \subseteq Alarm

\* An alarm that counts, waits or is served has been given a period.
HasPeriod == \A a \in os_alarm_active_mask \cup mask : period[a] > 0

\* The counter of an alarm that is not raced rests at 0 while it is pending: the
\* next tick leaves it, and the code after the callback finds it there.
PendingRests == \A a \in os_alarm_pending_mask \ raced : remaining_time[a] = 0

AlarmInv ==
    /\ AlarmTypes
    /\ HasPeriod
    /\ PendingIsActive
    /\ PendingRests
    /\ CountingOrPending
    /\ OneCallbackPerExpiry

LEMMA PeriodFacts ==
    /\ \A n \in Periods : n \in Nat /\ n > 0
    /\ ExpiryBound \in Nat /\ ExpiryBound > 1
    /\ Alarm \subseteq Int
BY AlarmAssumption DEF Alarm

LEMMA CountersAreNats ==
    ASSUME AlarmTypes, NEW a \in Alarm
    PROVE  period[a] \in Nat /\ remaining_time[a] \in 0 .. period[a]
<1>1. period[a] \in Periods \cup {0}
  BY DEF AlarmTypes
<1>2. period[a] \in Nat
  BY <1>1, PeriodFacts
<1> QED BY <1>2 DEF AlarmTypes

\* The alarm the loop works on is one of the mask's.
LEMMA ServedInMask ==
    ASSUME mask \subseteq Alarm, mask # {}
    PROVE  Served \in mask
<1>1. \A m : m \subseteq Alarm /\ m # {} =>
         OS_GET_HIGHEST_PRIO_TASK_FROM_MASK(m) \in m
  <2> SUFFICES ASSUME NEW m, m \subseteq Alarm, m # {}
               PROVE  OS_GET_HIGHEST_PRIO_TASK_FROM_MASK(m) \in m
    OBVIOUS
  <2>1. PICK x \in {n \in Nat : ALARM_ID_MAX - n \in m} :
          \A y \in {n \in Nat : ALARM_ID_MAX - n \in m} : x <= y
    <3>1. PICK a \in m : TRUE
      OBVIOUS
    <3>2. a \in 0 .. ALARM_ID_MAX - 1 /\ ALARM_ID_MAX \in Nat
      BY <3>1, AlarmAssumption DEF Alarm
    <3>3. ALARM_ID_MAX - a \in {n \in Nat : ALARM_ID_MAX - n \in m}
      <4>1. ALARM_ID_MAX - (ALARM_ID_MAX - a) = a /\ ALARM_ID_MAX - a \in Nat
        BY <3>2
      <4> QED BY <4>1
    <3> QED BY <3>3, NatMinimum
  <2>2. ASSUME NEW q \in m PROVE q <= ALARM_ID_MAX - x
    <3>1. q \in 0 .. ALARM_ID_MAX - 1 /\ ALARM_ID_MAX \in Nat
      BY AlarmAssumption DEF Alarm
    <3>2. ALARM_ID_MAX - (ALARM_ID_MAX - q) = q /\ ALARM_ID_MAX - q \in Nat
      BY <3>1
    <3>3. x <= ALARM_ID_MAX - q
      BY <2>1, <3>2
    <3> QED BY <2>1, <3>1, <3>3
  <2> QED BY <2>1, <2>2 DEF OS_GET_HIGHEST_PRIO_TASK_FROM_MASK
<1> QED BY <1>1 DEF Served

-----------------------------------------------------------------------------
(***************************************************************************)
(* The steps of the alarms are steps of the scheduler.                     *)
(***************************************************************************)
LEMMA AlarmStepIsKernelStep ==
    ASSUME [AlarmNext]_all_vars
    PROVE  [Next]_vars
<1>1. CASE AlarmSysTick
  BY <1>1 DEF AlarmSysTick, SysTick, Next
<1>2. CASE KernelCall
  <2>1. \A t \in Task \ {OS_TASK_IDLE} : OS_GET_TASK_ID_FROM_PRIORITY(t) \in TaskId
    BY IdOfTask, ConstantFacts
  <2> QED BY <1>2, <2>1 DEF KernelCall, Next
<1>3. CASE StopItself
  <2>1. OS_ALARM_TASK \in TaskId
    <3>1. (CHOOSE p \in AlarmTask : TRUE) \in Priority \ {OS_TASK_IDLE}
      BY AlarmAssumption, SlotsAssumption, ConstantFacts
    <3> QED BY <3>1, IdOfTask DEF OS_ALARM_TASK
  <2> QED BY <1>3, <2>1 DEF StopItself, Next
<1>4. CASE PendSV_Handler
  BY <1>4 DEF Next
<1>5. CASE \/ TakeMask \/ CallbackBegins \/ CallbackEnds \/ UNCHANGED all_vars
           \/ \E a \in Alarm :
                \/ \E n \in Periods, is_periodic \in BOOLEAN : os_alarm_start(a, n, is_periodic)
                \/ os_alarm_cancel_check(a)
                \/ os_alarm_cancel(a)
  BY <1>5 DEF TakeMask, CallbackBegins, CallbackEnds, os_alarm_start,
              os_alarm_cancel_check, os_alarm_cancel, all_vars
<1> QED BY <1>1, <1>2, <1>3, <1>4, <1>5 DEF AlarmNext, AlarmTaskStep

-----------------------------------------------------------------------------
(***************************************************************************)
(* The operations keep the invariant.                                      *)
(***************************************************************************)
LEMMA UntouchedKeeps ==
    ASSUME AlarmInv, UNCHANGED alarm_vars
    PROVE  AlarmInv'
BY DEF AlarmInv, AlarmTypes, HasPeriod, PendingIsActive, PendingRests, CountingOrPending,
       OneCallbackPerExpiry, InCallback, Served, alarm_vars, alarms

LEMMA StartKeeps ==
    ASSUME AlarmInv, NEW a \in Alarm, NEW n \in Periods, NEW is_periodic \in BOOLEAN,
           os_alarm_start(a, n, is_periodic)
    PROVE  AlarmInv'
<1> USE PeriodFacts DEF AlarmInv
<1>1. /\ period' = [period EXCEPT ![a] = n]
      /\ periodic' = [periodic EXCEPT ![a] = is_periodic]
      /\ remaining_time' = [remaining_time EXCEPT ![a] = n]
      /\ os_alarm_active_mask' = os_alarm_active_mask \cup {a}
      /\ raced' = IF a \in os_alarm_pending_mask \cup mask THEN raced \cup {a} ELSE raced \ {a}
      /\ owed' = [owed EXCEPT ![a] = 0]
      /\ UNCHANGED <<os_alarm_pending_mask, at, mask, cancelling>>
  BY DEF os_alarm_start, Touch
<1>2. AlarmTypes'
  BY <1>1 DEF AlarmTypes
<1>3. HasPeriod' /\ PendingIsActive' /\ PendingRests'
  BY <1>1 DEF AlarmTypes, HasPeriod, PendingIsActive, PendingRests
<1>4. CountingOrPending'
  BY <1>1 DEF AlarmTypes, CountingOrPending
<1>5. OneCallbackPerExpiry'
  BY <1>1 DEF AlarmTypes, OneCallbackPerExpiry, InCallback, Served
<1> QED BY <1>2, <1>3, <1>4, <1>5

LEMMA CancelKeeps ==
    ASSUME AlarmInv, NEW a \in Alarm, os_alarm_cancel(a)
    PROVE  AlarmInv'
<1> USE PeriodFacts DEF AlarmInv
<1>1. /\ remaining_time' = [remaining_time EXCEPT ![a] = 0]
      /\ os_alarm_active_mask' = os_alarm_active_mask \ {a}
      /\ os_alarm_pending_mask' = os_alarm_pending_mask \ {a}
      /\ raced' = IF a \in os_alarm_pending_mask \cup mask THEN raced \cup {a} ELSE raced \ {a}
      /\ owed' = [owed EXCEPT ![a] = 0]
      /\ cancelling' = [cancelling EXCEPT ![os_task_current] = NULL]
      /\ UNCHANGED <<period, periodic, at, mask>>
  BY DEF os_alarm_cancel, Touch
<1>2. AlarmTypes'
  <2>1. \A b \in Alarm : remaining_time'[b] \in 0 .. period[b] /\ period[b] \in Nat
    BY <1>1, CountersAreNats DEF AlarmTypes
  <2>2. /\ remaining_time' \in [Alarm -> Nat]
        /\ \A b \in Alarm : remaining_time'[b] <= period'[b]
    BY <1>1, <2>1 DEF AlarmTypes
  <2>3. owed' \in [Alarm -> 0 .. ExpiryBound]
    BY <1>1 DEF AlarmTypes
  <2>4. cancelling' \in [Task -> Alarm \cup {NULL}]
    BY <1>1 DEF AlarmTypes
  <2> QED BY <1>1, <2>2, <2>3, <2>4 DEF AlarmTypes
<1>3. HasPeriod' /\ PendingIsActive' /\ PendingRests'
  BY <1>1 DEF AlarmTypes, HasPeriod, PendingIsActive, PendingRests
<1>4. CountingOrPending'
  BY <1>1 DEF AlarmTypes, CountingOrPending
<1>5. OneCallbackPerExpiry'
  BY <1>1 DEF AlarmTypes, OneCallbackPerExpiry, InCallback, Served
<1> QED BY <1>2, <1>3, <1>4, <1>5

LEMMA CancelCheckKeeps ==
    ASSUME AlarmInv, NEW a \in Alarm, os_alarm_cancel_check(a)
    PROVE  AlarmInv'
<1>1. /\ cancelling' = [cancelling EXCEPT ![os_task_current] = a]
      /\ UNCHANGED <<alarms, at, mask, owed, raced>>
  BY DEF os_alarm_cancel_check
<1> QED BY <1>1 DEF AlarmInv, AlarmTypes, HasPeriod, PendingIsActive, PendingRests,
        CountingOrPending, OneCallbackPerExpiry, InCallback, Served, alarms

LEMMA AlarmTickKeeps ==
    ASSUME AlarmInv, AlarmSysTick
    PROVE  AlarmInv'
<1> USE PeriodFacts DEF AlarmInv
<1>1. /\ remaining_time' = [b \in Alarm |-> IF b \in Counting THEN remaining_time[b] - 1
                                            ELSE remaining_time[b]]
      /\ os_alarm_pending_mask' = os_alarm_pending_mask \cup Expiring
      /\ owed' = [b \in Alarm |-> IF b \in Expiring \ raced THEN Smaller(owed[b] + 1)
                                  ELSE owed[b]]
      /\ UNCHANGED <<period, periodic, os_alarm_active_mask, at, mask, cancelling, raced>>
  BY DEF AlarmSysTick, os_alarm_tick
<1>2. /\ Counting = {b \in os_alarm_active_mask : remaining_time[b] > 0}
      /\ Expiring = {b \in os_alarm_active_mask : remaining_time[b] = 1}
  BY DEF Counting, Expiring, AlarmTypes
<1>3. AlarmTypes'
  <2>1. \A b \in Alarm : remaining_time'[b] \in 0 .. period[b] /\ period[b] \in Nat
    BY <1>1, <1>2, CountersAreNats DEF AlarmTypes
  <2>2. /\ remaining_time' \in [Alarm -> Nat]
        /\ \A b \in Alarm : remaining_time'[b] <= period'[b]
    BY <1>1, <2>1
  <2>3. owed' \in [Alarm -> 0 .. ExpiryBound]
    BY <1>1 DEF AlarmTypes, Smaller
  <2>4. os_alarm_pending_mask' \subseteq Alarm
    BY <1>1, <1>2 DEF AlarmTypes
  <2> QED BY <1>1, <2>2, <2>3, <2>4 DEF AlarmTypes
<1>4. HasPeriod' /\ PendingIsActive'
  BY <1>1, <1>2 DEF AlarmTypes, HasPeriod, PendingIsActive
<1>5. PendingRests'
  <2> SUFFICES ASSUME NEW b \in os_alarm_pending_mask' \ raced
               PROVE  remaining_time'[b] = 0
    BY <1>1 DEF PendingRests
  <2>1. b \in Alarm /\ remaining_time[b] \in {0, 1}
    BY <1>1, <1>2 DEF AlarmTypes, PendingRests
  <2>2. remaining_time[b] = 1 => b \in Expiring
    BY <1>1, <2>1 DEF PendingRests
  <2> QED BY <1>1, <1>2, <2>1, <2>2
<1>6. CountingOrPending'
  BY <1>1, <1>2 DEF AlarmTypes, CountingOrPending
<1>7. OneCallbackPerExpiry'
  <2> SUFFICES ASSUME NEW b \in Alarm \ raced
               PROVE  /\ b \in mask => b \in os_alarm_pending_mask'
                      /\ owed'[b] = IF b \in os_alarm_pending_mask' /\ ~InCallback(b)
                                    THEN 1 ELSE 0
    BY <1>1 DEF OneCallbackPerExpiry, InCallback, Served
  <2>1. /\ b \in mask => b \in os_alarm_pending_mask
        /\ owed[b] = IF b \in os_alarm_pending_mask /\ ~InCallback(b) THEN 1 ELSE 0
    BY DEF OneCallbackPerExpiry
  <2>2. CASE b \in Expiring
    <3>1. b \notin os_alarm_pending_mask
      BY <1>2, <2>2 DEF PendingRests
    <3>2. ~InCallback(b)
      BY <2>1, <3>1, ServedInMask DEF InCallback, AlarmTypes
    <3>3. owed'[b] = Smaller(0 + 1)
      BY <1>1, <2>1, <2>2, <3>1
    <3> QED BY <1>1, <2>1, <2>2, <3>2, <3>3 DEF Smaller
  <2>3. CASE b \notin Expiring
    BY <1>1, <2>1, <2>3
  <2> QED BY <2>2, <2>3
<1> QED BY <1>3, <1>4, <1>5, <1>6, <1>7

LEMMA AlarmTaskKeeps ==
    ASSUME AlarmInv, AlarmTaskStep
    PROVE  AlarmInv'
<1> USE PeriodFacts DEF AlarmInv
<1>1. CASE TakeMask \/ StopItself
  <2>1. /\ UNCHANGED <<alarms, cancelling, owed, raced>>
        /\ at # "callback" /\ at' \in {"top", "loop"}
        /\ mask' \subseteq os_alarm_pending_mask
    BY <1>1 DEF TakeMask, StopItself
  <2> QED BY <2>1 DEF AlarmTypes, HasPeriod, PendingIsActive, PendingRests,
          CountingOrPending, OneCallbackPerExpiry, InCallback, alarms
<1>2. CASE CallbackBegins
  <2>1. /\ at = "loop" /\ mask # {} /\ at' = "callback"
        /\ owed' = [owed EXCEPT ![Served] = IF owed[Served] > 0 THEN owed[Served] - 1 ELSE 0]
        /\ UNCHANGED <<alarms, mask, cancelling, raced>>
    BY <1>2 DEF CallbackBegins
  <2>2. Served \in mask /\ Served \in Alarm /\ Served' = Served
    BY <2>1, ServedInMask DEF AlarmTypes, Served
  <2>3. AlarmTypes'
    BY <2>1, <2>2 DEF AlarmTypes, alarms
  <2>4. HasPeriod' /\ PendingIsActive' /\ PendingRests' /\ CountingOrPending'
    BY <2>1 DEF AlarmTypes, HasPeriod, PendingIsActive, PendingRests, CountingOrPending, alarms
  <2>5. OneCallbackPerExpiry'
    BY <2>1, <2>2 DEF AlarmTypes, OneCallbackPerExpiry, InCallback, alarms
  <2> QED BY <2>3, <2>4, <2>5
<1> QED BY <1>1, <1>2 DEF AlarmTaskStep

LEMMA CallbackEndsKeeps ==
    ASSUME AlarmInv, CallbackEnds
    PROVE  AlarmInv'
<1> USE PeriodFacts DEF AlarmInv
<1>1. PICK a \in mask : a = Served
  BY ServedInMask DEF CallbackEnds, Calling, AlarmTypes
<1>2. /\ at = "callback" /\ at' = "loop" /\ a \in Alarm
      /\ os_alarm_pending_mask' = os_alarm_pending_mask \ {a}
      /\ mask' = mask \ {a}
      /\ UNCHANGED <<period, periodic, cancelling, owed, raced>>
      /\ \/ /\ remaining_time' = [remaining_time EXCEPT ![a] = period[a]]
            /\ os_alarm_active_mask' = os_alarm_active_mask \cup {a}
         \/ /\ os_alarm_active_mask' = os_alarm_active_mask \ {a}
            /\ UNCHANGED remaining_time
  BY <1>1 DEF CallbackEnds, Calling, AlarmTypes
<1>3. period[a] \in Nat /\ period[a] > 0
  BY <1>1, <1>2 DEF HasPeriod, AlarmTypes
<1>4. a \notin raced => a \in os_alarm_pending_mask /\ remaining_time[a] = 0 /\ owed[a] = 0
  BY <1>1, <1>2 DEF OneCallbackPerExpiry, PendingRests, InCallback
<1>5. AlarmTypes'
  <2>1. \A b \in Alarm : remaining_time'[b] \in 0 .. period[b] /\ period[b] \in Nat
    BY <1>2, <1>3, CountersAreNats DEF AlarmTypes
  <2>2. /\ remaining_time' \in [Alarm -> Nat]
        /\ \A b \in Alarm : remaining_time'[b] <= period'[b]
    BY <1>2, <2>1 DEF AlarmTypes
  <2> QED BY <1>1, <1>2, <2>2 DEF AlarmTypes
<1>6. HasPeriod' /\ PendingIsActive' /\ PendingRests'
  BY <1>2, <1>3 DEF AlarmTypes, HasPeriod, PendingIsActive, PendingRests
<1>7. CountingOrPending'
  BY <1>2, <1>3, <1>4 DEF AlarmTypes, CountingOrPending
<1>8. OneCallbackPerExpiry'
  BY <1>1, <1>2, <1>4 DEF AlarmTypes, OneCallbackPerExpiry, InCallback
<1> QED BY <1>5, <1>6, <1>7, <1>8

LEMMA AlarmInitial == AlarmInit => AlarmInv
BY PeriodFacts DEF AlarmInit, AlarmInv, AlarmTypes, HasPeriod, PendingIsActive, PendingRests,
   CountingOrPending, OneCallbackPerExpiry

LEMMA AlarmStep ==
    ASSUME AlarmInv, [AlarmNext]_all_vars
    PROVE  AlarmInv'
<1>1. CASE UNCHANGED alarm_vars
  BY <1>1, UntouchedKeeps
<1>2. CASE AlarmSysTick
  BY <1>2, AlarmTickKeeps
<1>3. CASE AlarmTaskStep
  BY <1>3, AlarmTaskKeeps
<1>4. CASE CallbackEnds
  BY <1>4, CallbackEndsKeeps
<1>5. CASE \E a \in Alarm :
             \/ \E n \in Periods, is_periodic \in BOOLEAN : os_alarm_start(a, n, is_periodic)
             \/ os_alarm_cancel_check(a)
             \/ os_alarm_cancel(a)
  BY <1>5, StartKeeps, CancelCheckKeeps, CancelKeeps
<1> QED BY <1>1, <1>2, <1>3, <1>4, <1>5 DEF AlarmNext, KernelCall, all_vars

LEMMA AlarmInvariant == AlarmSpec => []AlarmInv
BY AlarmInitial, AlarmStep, PTL DEF AlarmSpec

-----------------------------------------------------------------------------
\* Whatever is proved of the scheduler holds while the alarm task and its
\* callbacks run: it is one more task, woken by the tick and stopped by itself
\* (alarm.c:227, :282).
THEOREM AlarmsUseTheScheduler == AlarmSpec => Spec
<1>1. AlarmInit => Init
  BY DEF AlarmInit
<1>2. [AlarmNext]_all_vars => [Next]_vars
  BY AlarmStepIsKernelStep
<1> QED BY <1>1, <1>2, PTL DEF AlarmSpec, Spec

THEOREM AlarmTypeCorrect == AlarmSpec => []AlarmTypeOK
<1>1. AlarmInv /\ TypeOK => AlarmTypeOK
  BY DEF AlarmInv, AlarmTypes, AlarmTypeOK
<1> QED BY <1>1, AlarmInvariant, AlarmsUseTheScheduler, TypeCorrect, PTL

\* No order of starts, cancels, ticks and callbacks leaves an alarm pending that
\* the tick would not look at.
THEOREM PendingAreActive == AlarmSpec => []PendingIsActive
<1>1. AlarmInv => PendingIsActive
  BY DEF AlarmInv
<1> QED BY <1>1, AlarmInvariant, PTL

\* No alarm falls between the two masks.
THEOREM NoAlarmForgotten == AlarmSpec => []CountingOrPending
<1>1. AlarmInv => CountingOrPending
  BY DEF AlarmInv
<1> QED BY <1>1, AlarmInvariant, PTL

\* Each expiry that no start or cancel races gives one callback.
THEOREM ExpiriesAreServedOnce == AlarmSpec => []OneCallbackPerExpiry
<1>1. AlarmInv => OneCallbackPerExpiry
  BY DEF AlarmInv
<1> QED BY <1>1, AlarmInvariant, PTL
=============================================================================
