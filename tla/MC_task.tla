------------------------------ MODULE MC_task ------------------------------
(* The scheduler, from os_init on, with three tasks, a mutex slot and, as  *)
(* the most urgent task, the alarm task; the 32-bit counters are scaled to *)
(* wrap at 4.                                                              *)
EXTENDS BeeRTOS_boot

MCPriorityList ==
    << [kind |-> "alarm_task", autostart |-> FALSE], [kind |-> "mutex", autostart |-> FALSE],
       [kind |-> "task", autostart |-> TRUE], [kind |-> "task", autostart |-> TRUE] >>
MCSlots     == {3}
MCAutoStart == {1, 2}
MCAlarmTask == {4}
MCDelays    == {1, 3}
=============================================================================
