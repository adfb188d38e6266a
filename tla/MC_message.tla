----------------------------- MODULE MC_message -----------------------------
(* Three tasks and one message with room for two (the smoke tests'         *)
(* MESSAGE_ONE, its eight bytes scaled to one).                            *)
EXTENDS BeeRTOS_message
CONSTANT mail

MCQueue     == {mail}
MCSize      == [m \in MCQueue |-> 2]
MCItemSize  == [m \in MCQueue |-> 1]
MCItem      == 0 .. 2
MCAutoStart == {1, 2, 3}
MCTimeouts  == {0, 2}
=============================================================================
