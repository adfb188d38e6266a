------------------------------ MODULE MC_queue ------------------------------
(* Three queues that hold one element of one byte, two elements of two     *)
(* bytes and three elements of one byte (the smoke tests' QUEUE_1,         *)
(* MESSAGE_ONE and, scaled down, MESSAGE_TWO).                             *)
EXTENDS BeeRTOS_queue, TLC
CONSTANTS one, two, three, x, y

MCQueue    == {one, two, three}
MCSize     == [q \in MCQueue |-> IF q = one THEN 1 ELSE IF q = two THEN 4 ELSE 3]
MCItemSize == [q \in MCQueue |-> IF q = two THEN 2 ELSE 1]
MCItem     == {x, y}
MCSymmetry == Permutations(MCItem)   \* clients never look at the data
=============================================================================
