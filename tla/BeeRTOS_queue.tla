---------------------------- MODULE BeeRTOS_queue ----------------------------
(***************************************************************************)
(* The queues (BeeRTOS_queue.c): rings of bytes.  Every operation is one   *)
(* critical section, so a behaviour is a sequence of calls, whichever      *)
(* tasks make them.  The byte at offset i of an element is <<element, i>>, *)
(* so that an element put together from parts of two is none.              *)
(*                                                                         *)
(* The clients of a queue pass one length to every call and the size of    *)
(* the queue is a multiple of it: what the messages do, and the smoke      *)
(* tests.  With other lengths the ring does not work: memcpy never wraps.  *)
(***************************************************************************)
EXTENDS Integers, Sequences

CONSTANTS
    Queue,       \* the queues, those of the messages included
    Size,        \* queue -> bytes in its buffer
    ItemSize,    \* queue -> len argument of its pushes and pops
    Item         \* what clients push

ASSUME SizeAssumption ==
    /\ Size \in [Queue -> Nat \ {0}]
    /\ ItemSize \in [Queue -> Nat \ {0}]
    /\ \A q \in Queue : Size[q] % ItemSize[q] = 0

VARIABLES
    head, tail, full, buffer,   \* fields of os_queues[q]
    answer                      \* history: the last call and what it returned

ring_vars  == <<head, tail, full, buffer>>
queue_vars == <<ring_vars, answer>>

Zero == <<>>                    \* a byte of a static buffer nobody wrote yet
Bytes(item, len) == [i \in 0 .. len - 1 |-> <<item, i>>]

-----------------------------------------------------------------------------
(***************************************************************************)
(* The distance from head to tail, going up: the free bytes, except that   *)
(* it is 0 for an empty queue.                                             *)
(***************************************************************************)
Distance(q) == (Size[q] - head[q] + tail[q]) % Size[q]

Mut_os_queue_can_push_IgnoresFull(q, len) == Distance(q) <= len

os_queue_can_push(q, len) == ~full[q] /\ Distance(q) <= len

os_queue_can_pop(q, len) == full[q] \/ Distance(q) >= len

Mut_Push_NoWrap(q, item, len) ==
    /\ os_queue_can_push(q, len)
    /\ buffer' = [buffer EXCEPT ![q] = [i \in DOMAIN @ |->
           IF i \in head[q] .. head[q] + len - 1 THEN Bytes(item, len)[i - head[q]] ELSE @[i]]]
    /\ head' = [head EXCEPT ![q] = @ + len]
    /\ full' = [full EXCEPT ![q] = head'[q] = tail[q]]
    /\ UNCHANGED tail

\* The branch of os_queue_push that stores the element.
Push(q, item, len) ==
    /\ os_queue_can_push(q, len)
    /\ buffer' = [buffer EXCEPT ![q] = [i \in DOMAIN @ |->
           IF i \in head[q] .. head[q] + len - 1 THEN Bytes(item, len)[i - head[q]] ELSE @[i]]]
    /\ head' = [head EXCEPT ![q] = (@ + len) % Size[q]]
    /\ full' = [full EXCEPT ![q] = head'[q] = tail[q]]
    /\ UNCHANGED tail

\* The branch of os_queue_pop that takes the element.
Pop(q, len) ==
    /\ os_queue_can_pop(q, len)
    /\ tail' = [tail EXCEPT ![q] = (@ + len) % Size[q]]
    /\ full' = [full EXCEPT ![q] = FALSE]
    /\ UNCHANGED <<head, buffer>>

-----------------------------------------------------------------------------
os_queue_push(q, item) ==
    \/ /\ Push(q, item, ItemSize[q])
       /\ answer' = <<"push", q, TRUE>>
    \/ /\ ~os_queue_can_push(q, ItemSize[q])
       /\ answer' = <<"push", q, FALSE>>
       /\ UNCHANGED ring_vars

os_queue_pop(q) ==
    \/ /\ Pop(q, ItemSize[q])
       /\ answer' = <<"pop", q, TRUE,
                      [i \in 0 .. ItemSize[q] - 1 |-> buffer[q][tail[q] + i]]>>
    \/ /\ ~os_queue_can_pop(q, ItemSize[q])
       /\ answer' = <<"pop", q, FALSE>>
       /\ UNCHANGED ring_vars

os_queue_reset(q) ==
    /\ head' = [head EXCEPT ![q] = 0]
    /\ tail' = [tail EXCEPT ![q] = 0]
    /\ full' = [full EXCEPT ![q] = FALSE]
    /\ answer' = <<"reset", q>>
    /\ UNCHANGED buffer

os_queue_is_empty(q) ==
    /\ answer' = <<"is_empty", q, ~full[q] /\ head[q] = tail[q]>>
    /\ UNCHANGED ring_vars

os_queue_is_full(q) ==
    /\ answer' = <<"is_full", q, full[q]>>
    /\ UNCHANGED ring_vars

RingInit ==
    /\ head = [q \in Queue |-> 0]
    /\ tail = [q \in Queue |-> 0]
    /\ full = [q \in Queue |-> FALSE]
    /\ buffer = [q \in Queue |-> [i \in 0 .. Size[q] - 1 |-> Zero]]

QueueInit == RingInit /\ answer = <<>>

QueueNext ==
    \E q \in Queue :
        \/ \E item \in Item : os_queue_push(q, item)
        \/ os_queue_pop(q)
        \/ os_queue_reset(q)
        \/ os_queue_is_empty(q)
        \/ os_queue_is_full(q)

QueueSpec == QueueInit /\ [][QueueNext]_queue_vars

-----------------------------------------------------------------------------
(***************************************************************************)
(* Properties.                                                             *)
(***************************************************************************)
QueueTypeOK ==
    /\ head \in [Queue -> Nat] /\ tail \in [Queue -> Nat]
    /\ full \in [Queue -> BOOLEAN]
    /\ \A q \in Queue :
          /\ head[q] < Size[q] /\ tail[q] < Size[q]
          /\ DOMAIN buffer[q] = 0 .. Size[q] - 1
          /\ \A i \in DOMAIN buffer[q] :
                buffer[q][i] \in {Zero} \cup (Item \X (0 .. ItemSize[q] - 1))

\* memcpy copies to and from the buffer only: neither an element that would be
\* stored nor one that would be taken reaches past its end, although the code
\* never splits a copy at the end of the ring (queue.c:195, :236).
CopiesStayInside ==
    \A q \in Queue :
        LET len == ItemSize[q] IN
        /\ os_queue_can_push(q, len) => head[q] + len <= Size[q]
        /\ os_queue_can_pop(q, len)  => tail[q] + len <= Size[q]

(***************************************************************************)
(* The elements in the ring, the oldest first, and how many it accepts:    *)
(* os_queue_can_push compares the free bytes with len the wrong way round, *)
(* so a queue that holds one element takes a second one only if exactly    *)
(* one more fits.                                                          *)
(***************************************************************************)
Used(q) == IF full[q] THEN Size[q] ELSE (Size[q] + head[q] - tail[q]) % Size[q]

Contents(q) ==
    [n \in 1 .. Used(q) \div ItemSize[q] |->
        [i \in 0 .. ItemSize[q] - 1 |->
            buffer[q][(tail[q] + (n - 1) * ItemSize[q] + i) % Size[q]]]]

Accepted(q) == IF Size[q] = 2 * ItemSize[q] THEN 2 ELSE 1

Fifo == INSTANCE BoundedFifo WITH
    Element  <- {Bytes(item, ItemSize[q]) : item \in Item, q \in Queue},
    Capacity <- [q \in Queue |-> Accepted(q)],
    contents <- [q \in Queue |-> Contents(q)]

\* The queues are bounded FIFOs: whole elements leave in the order they came
\* in, nothing is overwritten, lost or read twice, through every wrap of head
\* and tail and through full; a push is refused only at Accepted elements, and
\* is_empty and is_full do not lie (queue.c:56-64, :177-247).
IsFifo == Fifo!FifoSpec

\* cfg.h:129: "There can be pushed any number of elements to queue, as long as
\* queue is not full."  os_queue_push may refuse only what os_queue_is_full
\* calls full.
RefusesOnlyWhenFull ==
    [][\A q \in Queue : answer' = <<"push", q, FALSE>> /\ answer' # answer => full[q]]_queue_vars

=============================================================================
