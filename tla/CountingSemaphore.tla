-------------------------- MODULE CountingSemaphore --------------------------
(***************************************************************************)
(* What a preemptive scheduler with semaphores promises: the clients of    *)
(* PriorityScheduler take tokens, at once if there is one to spare, or     *)
(* wait some time for it.  A signal that finds clients waiting promises    *)
(* its token to the most urgent of them; a promise is kept, however long   *)
(* that client takes to run again, and nobody else takes the token.  Who   *)
(* gets the processor back with nothing promised leaves without a token.   *)
(***************************************************************************)
EXTENDS PriorityScheduler, FiniteSets

CONSTANTS
    Client,
    Semaphore,
    Binary,       \* the semaphores that hold one token at most
    Initial,      \* semaphore -> tokens at the start
    Limit,        \* clients do not signal when so many are to spare
    Patience,     \* how long clients wait, 0 for those that do not
    Disturbing    \* may clients start, stop and release one that waits?

VARIABLES
    tokens,       \* semaphore -> tokens, the promised ones included
    visit,        \* client -> the semaphore it waits at, or Nobody
    promised      \* waiting clients a token is promised to

semaphore_vars == <<sched_vars, tokens, visit, promised>>

Spare(s)   == tokens[s] - Cardinality({t \in promised : visit[t] = s})
Hopeful(s) == {t \in Client : visit[t] = s} \ promised

\* A client that makes a call, outside all waits.
Free == Acts /\ visit[running] = Nobody

Take(s) ==
    /\ Free
    /\ Spare(s) > 0
    /\ tokens' = [tokens EXCEPT ![s] = @ - 1]
    /\ UNCHANGED <<sched_vars, visit, promised>>

Wait(s, n) ==
    /\ Free
    /\ Spare(s) = 0
    /\ Nap(n)
    /\ visit' = [visit EXCEPT ![running] = s]
    /\ UNCHANGED <<tokens, promised>>

Signal(s) ==
    /\ Free
    /\ Spare(s) < Limit
    /\ tokens' = [tokens EXCEPT ![s] = @ + 1]
    /\ \/ \E p \in Hopeful(s) :
             /\ \A q \in Hopeful(s) : q <= p
             /\ Release(p)
             /\ promised' = promised \cup {p}
       \/ /\ Hopeful(s) = {}
          /\ s \in Binary => Spare(s) = 0
          /\ UNCHANGED <<sched_vars, promised>>
    /\ UNCHANGED visit

\* With the token that was promised, or without.
Leave(s) ==
    /\ Acts
    /\ visit[running] = s
    /\ tokens' = [tokens EXCEPT ![s] = IF running \in promised THEN @ - 1 ELSE @]
    /\ visit' = [visit EXCEPT ![running] = Nobody]
    /\ promised' = promised \ {running}
    /\ UNCHANGED sched_vars

Elsewhere ==
    /\ Free
    /\ \/ \E t \in Client \ {0} :
             /\ Disturbing \/ visit[t] = Nobody
             /\ Start(t) \/ Stop(t) \/ Release(t)
       \/ Delete
       \/ \E n \in Naps : Nap(n)
    /\ UNCHANGED <<tokens, visit, promised>>

SemaphoreInit ==
    /\ SchedulerInit
    /\ tokens = Initial
    /\ visit = [t \in Client |-> Nobody]
    /\ promised = {}

SemaphoreNext ==
    \/ \E s \in Semaphore :
          \/ Take(s)
          \/ \E n \in Patience \ {0} : Wait(s, n)
          \/ Signal(s)
          \/ Leave(s)
    \/ Elsewhere
    \/ (Tick \/ Switch) /\ UNCHANGED <<tokens, visit, promised>>

SemaphoreSpec == SemaphoreInit /\ [][SemaphoreNext]_semaphore_vars
=============================================================================
