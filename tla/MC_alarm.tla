------------------------------ MODULE MC_alarm ------------------------------
(* Two alarms; one task that is more urgent than the alarm task.           *)
EXTENDS BeeRTOS_alarm

MCAlarmTask == {1}
MCAutoStart == {2}
MCPeriods   == {1, 2}
=============================================================================
