--------------------------- MODULE BlockingChannel ---------------------------
(***************************************************************************)
(* What a preemptive scheduler with bounded channels promises: the clients *)
(* of PriorityScheduler send and receive, at once if they can; who cannot  *)
(* may wait some time for it.  Who moves something at once calls the most  *)
(* urgent waiter of the other side.  A call hands nothing over: the waiter *)
(* tries once more when it has the processor, and leaves with or without.  *)
(* Rings, bytes, masks and numbers of messages are not mentioned.          *)
(***************************************************************************)
EXTENDS PriorityScheduler, Sequences

CONSTANTS
    Client,
    Channel,
    Element,      \* what the channels carry
    Capacity,     \* channel -> the number of elements it holds
    Patience      \* how long clients wait, 0 for those that do not

VARIABLES
    contents,     \* channel -> the sequence of its elements, the oldest first
    visit,        \* client -> the <<side, channel>> it waits at, or Nobody
    uncalled      \* clients that wait and have not been called

channel_vars == <<sched_vars, contents, visit, uncalled>>

Send    == "send"
Receive == "receive"
Other(side) == IF side = Send THEN Receive ELSE Send

Possible(side, c) ==
    IF side = Send THEN Len(contents[c]) < Capacity[c] ELSE contents[c] # <<>>

Move(side, c) ==
    /\ Possible(side, c)
    /\ \/ /\ side = Send
          /\ \E e \in Element : contents' = [contents EXCEPT ![c] = Append(@, e)]
       \/ /\ side = Receive
          /\ contents' = [contents EXCEPT ![c] = Tail(@)]

Queueing(side, c) == {t \in uncalled : visit[t] = <<side, c>>}

\* A client that makes a call, outside all waits.
Free == Acts /\ visit[running] = Nobody

\* At once: the most urgent waiter of the other side, if any, is called.
Transfer(side, c) ==
    /\ Free
    /\ Move(side, c)
    /\ LET waiters == Queueing(Other(side), c) IN
       \/ \E p \in waiters :
             /\ \A q \in waiters : q <= p
             /\ Release(p)
             /\ uncalled' = uncalled \ {p}
       \/ /\ waiters = {}
          /\ UNCHANGED <<sched_vars, uncalled>>
    /\ UNCHANGED visit

Wait(side, c, n) ==
    /\ Free
    /\ ~Possible(side, c)
    /\ Nap(n)
    /\ visit' = [visit EXCEPT ![running] = <<side, c>>]
    /\ uncalled' = uncalled \cup {running}
    /\ UNCHANGED contents

\* Called, or when its time is over: another try, which calls nobody.
Leave(side, c) ==
    /\ Acts
    /\ visit[running] = <<side, c>>
    /\ \/ Move(side, c)
       \/ ~Possible(side, c) /\ UNCHANGED contents
    /\ visit' = [visit EXCEPT ![running] = Nobody]
    /\ uncalled' = uncalled \ {running}
    /\ UNCHANGED sched_vars

\* Clients leave those that wait alone.
Elsewhere ==
    /\ Free
    /\ \/ \E t \in Client : visit[t] = Nobody /\ (Stop(t) \/ Release(t))
       \/ Delete
       \/ \E n \in Naps : Nap(n)
    /\ UNCHANGED <<contents, visit, uncalled>>

ChannelInit ==
    /\ SchedulerInit
    /\ contents = [c \in Channel |-> <<>>]
    /\ visit = [t \in Client |-> Nobody]
    /\ uncalled = {}

ChannelNext ==
    \/ \E side \in {Send, Receive}, c \in Channel :
          \/ Transfer(side, c)
          \/ \E n \in Patience \ {0} : Wait(side, c, n)
          \/ Leave(side, c)
    \/ Elsewhere
    \/ (Tick \/ Switch) /\ UNCHANGED <<contents, visit, uncalled>>

ChannelSpec == ChannelInit /\ [][ChannelNext]_channel_vars
=============================================================================
