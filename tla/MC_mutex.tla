------------------------------ MODULE MC_mutex ------------------------------
(* Tasks 1, 2 and 4 with two mutexes: ceiling 3 serves tasks 1 and 2,      *)
(* ceiling 5 serves all three.  Or tasks 1 to 3, all users of both, of     *)
(* which alarms may wake task 3.                                           *)
EXTENDS BeeRTOS_mutex

MCSlots      == {3, 5}
MCSlotsAbove == {4, 5}
MCAutoStart  == {1, 2}
MCAlarmTask  == {3}
MCDelays     == {2}
=============================================================================
