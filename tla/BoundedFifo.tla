----------------------------- MODULE BoundedFifo -----------------------------
(***************************************************************************)
(* What a set of bounded first-in first-out queues promises to callers     *)
(* that never wait: every call is answered at once, a push is refused only *)
(* by a queue that is full, a pop only by one that is empty, and a pop     *)
(* returns the oldest element.                                             *)
(***************************************************************************)
EXTENDS Naturals, Sequences

CONSTANTS
    Queue,
    Element,     \* what the queues carry
    Capacity     \* queue -> the number of elements it holds

VARIABLES
    contents,    \* queue -> the sequence of its elements, the oldest first
    answer       \* the last call, its queue and what it returned

fifo_vars == <<contents, answer>>

IsFull(q)  == Len(contents[q]) = Capacity[q]
IsEmpty(q) == contents[q] = <<>>

FifoInit ==
    /\ contents = [q \in Queue |-> <<>>]
    /\ answer = <<>>

Push(q, e) ==
    /\ ~IsFull(q)
    /\ contents' = [contents EXCEPT ![q] = Append(@, e)]
    /\ answer' = <<"push", q, TRUE>>

RefusePush(q) ==
    /\ IsFull(q)
    /\ answer' = <<"push", q, FALSE>>
    /\ UNCHANGED contents

Pop(q) ==
    /\ ~IsEmpty(q)
    /\ answer' = <<"pop", q, TRUE, Head(contents[q])>>
    /\ contents' = [contents EXCEPT ![q] = Tail(@)]

RefusePop(q) ==
    /\ IsEmpty(q)
    /\ answer' = <<"pop", q, FALSE>>
    /\ UNCHANGED contents

Reset(q) ==
    /\ contents' = [contents EXCEPT ![q] = <<>>]
    /\ answer' = <<"reset", q>>

AskEmpty(q) ==
    /\ answer' = <<"is_empty", q, IsEmpty(q)>>
    /\ UNCHANGED contents

\* A queue that says it is full is; one that says it is not may be.
AskFull(q) ==
    /\ \E full \in {FALSE, IsFull(q)} : answer' = <<"is_full", q, full>>
    /\ UNCHANGED contents

FifoNext ==
    \E q \in Queue :
        \/ \E e \in Element : Push(q, e)
        \/ RefusePush(q)
        \/ Pop(q)
        \/ RefusePop(q)
        \/ Reset(q)
        \/ AskEmpty(q)
        \/ AskFull(q)

FifoSpec == FifoInit /\ [][FifoNext]_fifo_vars
=============================================================================
