---------------------------- MODULE BeeRTOS_alarm ----------------------------
(***************************************************************************)
(* The alarms (BeeRTOS_alarm.c) over the scheduler.  Three parties share   *)
(* the two masks: the tick counts the active alarms down and marks those   *)
(* that expire as pending; the alarm task works through a copy of the      *)
(* pending mask, calls the callbacks and then re-arms or disarms; tasks    *)
(* and callbacks start and cancel alarms at any moment.                    *)
(*                                                                         *)
(* An alarm started or cancelled between its expiry and the end of its     *)
(* callback is "raced" until it is next started or cancelled at a quiet    *)
(* moment: what the code promises of the others is exact.                  *)
(***************************************************************************)
EXTENDS BeeRTOS_task

CONSTANTS
    ALARM_ID_MAX,    \* number of alarms
    Periods,         \* period arguments of os_alarm_start; 0 would never expire
    ExpiryBound      \* what the history counts of one alarm's unserved expiries

Alarm == 0 .. ALARM_ID_MAX - 1

ASSUME AlarmAssumption ==
    /\ ALARM_ID_MAX \in Nat \ {0}
    /\ NULL \notin Alarm
    /\ AlarmTask # {}
    /\ \A p, q \in AlarmTask : p = q
    /\ Periods \subseteq Nat \ {0}
    /\ ExpiryBound \in Nat \ {0, 1}

OS_ALARM_TASK == OS_GET_TASK_ID_FROM_PRIORITY(CHOOSE p \in AlarmTask : TRUE)

VARIABLES
    period, periodic, remaining_time,              \* fields of os_alarms[a]
    os_alarm_active_mask, os_alarm_pending_mask,
    at, mask,        \* where os_alarm_task is, and its local mask
    cancelling,      \* task -> the alarm it is inside os_alarm_cancel for, or NULL
    owed,            \* history: expiries of an alarm whose callback has not begun
    raced            \* history: see above

alarms     == <<period, periodic, remaining_time, os_alarm_active_mask, os_alarm_pending_mask>>
alarm_vars == <<alarms, at, mask, cancelling, owed, raced>>
all_vars   == <<vars, alarm_vars>>

-----------------------------------------------------------------------------
(***************************************************************************)
(* Starting and cancelling, from a task or from a callback.                *)
(***************************************************************************)
ByAlarmTask == Executing /\ os_task_current \in AlarmTask

Calling ==
    /\ Executing
    /\ ByAlarmTask => at = "callback"
    /\ cancelling[os_task_current] = NULL

\* History only: whether the call hits an expiry that is not fully served.
Touch(a) ==
    /\ raced' = IF a \in os_alarm_pending_mask \cup mask THEN raced \cup {a} ELSE raced \ {a}
    /\ owed' = [owed EXCEPT ![a] = 0]

Mut_os_alarm_start_NotCounting(a, n, is_periodic) ==
    /\ Calling
    /\ period' = [period EXCEPT ![a] = n]
    /\ periodic' = [periodic EXCEPT ![a] = is_periodic]
    /\ os_alarm_active_mask' = os_alarm_active_mask \cup {a}
    /\ Touch(a)
    /\ UNCHANGED <<vars, remaining_time, os_alarm_pending_mask, at, mask, cancelling>>

os_alarm_start(a, n, is_periodic) ==
    /\ Calling
    /\ period' = [period EXCEPT ![a] = n]
    /\ periodic' = [periodic EXCEPT ![a] = is_periodic]
    /\ remaining_time' = [remaining_time EXCEPT ![a] = n]
    /\ os_alarm_active_mask' = os_alarm_active_mask \cup {a}
    /\ Touch(a)
    /\ UNCHANGED <<vars, os_alarm_pending_mask, at, mask, cancelling>>

\* The assertion, read with interrupts on: the client cancels an active alarm.
os_alarm_cancel_check(a) ==
    /\ Calling
    /\ a \in os_alarm_active_mask
    /\ cancelling' = [cancelling EXCEPT ![os_task_current] = a]
    /\ UNCHANGED <<vars, alarms, at, mask, owed, raced>>

Mut_os_alarm_cancel_KeepsPending(a) ==
    /\ Executing
    /\ cancelling[os_task_current] = a
    /\ remaining_time' = [remaining_time EXCEPT ![a] = 0]
    /\ os_alarm_active_mask' = os_alarm_active_mask \ {a}
    /\ cancelling' = [cancelling EXCEPT ![os_task_current] = NULL]
    /\ Touch(a)
    /\ UNCHANGED <<vars, period, periodic, os_alarm_pending_mask, at, mask>>

os_alarm_cancel(a) ==
    /\ Executing
    /\ cancelling[os_task_current] = a
    /\ remaining_time' = [remaining_time EXCEPT ![a] = 0]
    /\ os_alarm_active_mask' = os_alarm_active_mask \ {a}
    /\ os_alarm_pending_mask' = os_alarm_pending_mask \ {a}
    /\ cancelling' = [cancelling EXCEPT ![os_task_current] = NULL]
    /\ Touch(a)
    /\ UNCHANGED <<vars, period, periodic, at, mask>>

-----------------------------------------------------------------------------
(***************************************************************************)
(* The tick: os_alarm_tick between os_task_tick and the end of os_tick.    *)
(***************************************************************************)
Mut_Counting_AllActive == os_alarm_active_mask

Counting == {a \in os_alarm_active_mask : remaining_time[a] > 0}

Expiring == {a \in Counting : remaining_time[a] = 1}

Smaller(n) == IF n < ExpiryBound THEN n ELSE ExpiryBound

os_alarm_tick ==
    /\ remaining_time' =
          [a \in Alarm |-> IF a \in Counting THEN remaining_time[a] - 1 ELSE remaining_time[a]]
    /\ os_alarm_pending_mask' = os_alarm_pending_mask \cup Expiring
    /\ owed' = [a \in Alarm |-> IF a \in Expiring \ raced THEN Smaller(owed[a] + 1) ELSE owed[a]]

Mut_AlarmSysTick_OnExpiryOnly ==
    /\ os_alarm_tick
    /\ SysTick_Handler(IF Expiring # {} THEN AlarmTask ELSE {})
    /\ UNCHANGED <<period, periodic, os_alarm_active_mask, at, mask, cancelling, raced>>

AlarmSysTick ==
    /\ os_alarm_tick
    /\ SysTick_Handler(IF os_alarm_active_mask # {} /\ os_alarm_pending_mask' # {}
                       THEN AlarmTask ELSE {})
    /\ UNCHANGED <<period, periodic, os_alarm_active_mask, at, mask, cancelling, raced>>

-----------------------------------------------------------------------------
(***************************************************************************)
(* os_alarm_task.                                                          *)
(***************************************************************************)
TakeMask ==
    /\ ByAlarmTask
    /\ at = "top"
    /\ mask' = os_alarm_pending_mask
    /\ at' = "loop"
    /\ UNCHANGED <<vars, alarms, cancelling, owed, raced>>

\* The alarm the loop works on: the highest bit of the local mask.
Served == OS_GET_HIGHEST_PRIO_TASK_FROM_MASK(mask)

CallbackBegins ==
    /\ ByAlarmTask
    /\ at = "loop"
    /\ mask # {}
    /\ at' = "callback"
    /\ owed' = [owed EXCEPT ![Served] = IF @ > 0 THEN @ - 1 ELSE 0]
    /\ UNCHANGED <<vars, alarms, mask, cancelling, raced>>

Mut_CallbackEnds_ClearsAll ==
    /\ Calling
    /\ ByAlarmTask
    /\ \/ /\ periodic[Served]
          /\ remaining_time' = [remaining_time EXCEPT ![Served] = period[Served]]
          /\ os_alarm_active_mask' = os_alarm_active_mask \cup {Served}
       \/ /\ ~periodic[Served]
          /\ os_alarm_active_mask' = os_alarm_active_mask \ {Served}
          /\ UNCHANGED remaining_time
    /\ os_alarm_pending_mask' = {}
    /\ mask' = mask \ {Served}
    /\ at' = "loop"
    /\ UNCHANGED <<vars, period, periodic, cancelling, owed, raced>>

\* The callback has returned; the critical section after it.
CallbackEnds ==
    /\ Calling
    /\ ByAlarmTask
    /\ \/ /\ periodic[Served]
          /\ remaining_time' = [remaining_time EXCEPT ![Served] = period[Served]]
          /\ os_alarm_active_mask' = os_alarm_active_mask \cup {Served}
       \/ /\ ~periodic[Served]
          /\ os_alarm_active_mask' = os_alarm_active_mask \ {Served}
          /\ UNCHANGED remaining_time
    /\ os_alarm_pending_mask' = os_alarm_pending_mask \ {Served}
    /\ mask' = mask \ {Served}
    /\ at' = "loop"
    /\ UNCHANGED <<vars, period, periodic, cancelling, owed, raced>>

StopItself ==
    /\ ByAlarmTask
    /\ at = "loop"
    /\ mask = {}
    /\ at' = "top"
    /\ os_task_stop(OS_ALARM_TASK)
    /\ UNCHANGED <<alarms, mask, cancelling, owed, raced>>

-----------------------------------------------------------------------------
\* What tasks and callbacks do besides.  No callback deletes the alarm task.
KernelCall ==
    /\ Calling
    /\ \/ \E t \in Task \ {OS_TASK_IDLE} :
             LET id == OS_GET_TASK_ID_FROM_PRIORITY(t)
             IN os_task_stop(id) \/ os_task_release(id)
       \/ ~ByAlarmTask /\ os_task_delete
       \/ \E n \in Delays : os_delay(n)
    /\ UNCHANGED alarm_vars

\* No alarm of this configuration starts by itself.
AlarmInit ==
    /\ Init
    /\ period = [a \in Alarm |-> 0]
    /\ periodic = [a \in Alarm |-> FALSE]
    /\ remaining_time = [a \in Alarm |-> 0]
    /\ os_alarm_active_mask = {}
    /\ os_alarm_pending_mask = {}
    /\ at = "top"
    /\ mask = {}
    /\ cancelling = [t \in Task |-> NULL]
    /\ owed = [a \in Alarm |-> 0]
    /\ raced = {}

AlarmTaskStep == TakeMask \/ CallbackBegins \/ StopItself

AlarmNext ==
    \/ AlarmSysTick
    \/ PendSV_Handler /\ UNCHANGED alarm_vars
    \/ KernelCall
    \/ \E a \in Alarm :
          \/ \E n \in Periods, is_periodic \in BOOLEAN : os_alarm_start(a, n, is_periodic)
          \/ os_alarm_cancel_check(a)
          \/ os_alarm_cancel(a)
    \/ AlarmTaskStep
    \/ CallbackEnds

AlarmSpec == AlarmInit /\ [][AlarmNext]_all_vars

\* The alarm task goes on while it has the processor; a callback may delay, but
\* it returns after finitely many calls.
AlarmFairness ==
    /\ WF_all_vars(AlarmSysTick)
    /\ WF_all_vars(PendSV_Handler /\ UNCHANGED alarm_vars)
    /\ WF_all_vars(AlarmTaskStep)
    /\ WF_all_vars(\E a \in Alarm : ByAlarmTask /\ os_alarm_cancel(a))
    /\ SF_all_vars(CallbackEnds)
AlarmFairSpec == AlarmSpec /\ AlarmFairness

-----------------------------------------------------------------------------
(***************************************************************************)
(* Properties.                                                             *)
(***************************************************************************)
AlarmTypeOK ==
    /\ TypeOK
    /\ period \in [Alarm -> Periods \cup {0}]
    /\ periodic \in [Alarm -> BOOLEAN]
    /\ remaining_time \in [Alarm -> Nat]
    /\ \A a \in Alarm : remaining_time[a] <= period[a]
    /\ os_alarm_active_mask \subseteq Alarm
    /\ os_alarm_pending_mask \subseteq Alarm
    /\ at \in {"top", "loop", "callback"}
    /\ mask \subseteq Alarm
    /\ at = "callback" => mask # {}
    /\ cancelling \in [Task -> Alarm \cup {NULL}]
    /\ owed \in [Alarm -> 0 .. ExpiryBound]
    /\ raced \subseteq Alarm

\* A pending alarm is active, whatever order starts, cancels, ticks and
\* callbacks come in.  os_alarm_tick looks at the pending mask only if the
\* active mask is not empty (alarm.c:202), and only it wakes the alarm task: a
\* pending alarm of an empty active mask would wait for ever.
PendingIsActive == os_alarm_pending_mask \subseteq os_alarm_active_mask

\* An active alarm counts down or is about to be served; and, unless raced, one
\* that counts down is active: none is forgotten between the masks.
InCallback(a) == at = "callback" /\ a = Served
CountingOrPending ==
    \A a \in Alarm :
        /\ a \in os_alarm_active_mask => remaining_time[a] > 0 \/ a \in os_alarm_pending_mask
        /\ a \notin raced =>
              (a \in os_alarm_active_mask <=>
                  remaining_time[a] > 0 \/ a \in os_alarm_pending_mask)

\* Every expiry of an alarm that is not raced leads to one callback: it is owed
\* exactly while its bit is pending and the callback has not begun, and the
\* alarm task's copy of the mask holds no alarm beyond those (alarm.c:247-279).
OneCallbackPerExpiry ==
    \A a \in Alarm \ raced :
        /\ a \in mask => a \in os_alarm_pending_mask
        /\ owed[a] = IF a \in os_alarm_pending_mask /\ ~InCallback(a) THEN 1 ELSE 0

\* A pending alarm is served, as long as no more urgent task is ready: not even
\* an expiry between the alarm task's last look at the mask and its os_task_stop
\* is left behind, nor one that other tasks stop the alarm task at.
MoreUrgentReady == \E p \in os_ready_mask : \A q \in AlarmTask : p > q
PendingIsServed ==
    \A a \in Alarm :
        a \in os_alarm_pending_mask ~> (a \notin os_alarm_pending_mask \/ MoreUrgentReady)

\* alarm.c:146: os_alarm_cancel "cancels the specified alarm", and the smoke
\* test expects no callback after it (ut_02_alarms.c:58-62).  What follows a
\* callback re-arms no alarm that is not active any more.
CancelledStaysOff ==
    [][at = "callback" /\ at' = "loop"
          => os_alarm_active_mask' \subseteq os_alarm_active_mask]_all_vars

=============================================================================
