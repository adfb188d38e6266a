---------------------------- MODULE MC_semaphore ----------------------------
(* Three tasks, a counting semaphore that starts with one token and a      *)
(* binary one that starts empty.                                           *)
EXTENDS BeeRTOS_semaphore
CONSTANTS sCount, sBinary

MCSem          == {sCount, sBinary}
MCCounting     == {sCount}
MCInitialCount == [s \in MCSem |-> IF s = sCount THEN 1 ELSE 0]
MCAutoStart    == {1, 2, 3}
MCTimeouts     == {0, 2}
=============================================================================
