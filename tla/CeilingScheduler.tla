--------------------------- MODULE CeilingScheduler ---------------------------
(***************************************************************************)
(* What a preemptive scheduler promises tasks that share resources under   *)
(* the immediate priority ceiling protocol: PriorityScheduler, but a task  *)
(* is as urgent as the highest ceiling it holds, and one that holds a      *)
(* resource keeps the processor for it even if it is stopped meanwhile.    *)
(* Taking a resource is one step that never waits and never fails.         *)
(***************************************************************************)
EXTENDS PriorityScheduler

CONSTANT Resource    \* resources are named by their ceilings, which no task has

VARIABLE holder      \* resource -> task, or Nobody

ceiling_vars == <<sched_vars, holder>>

Worker == 0 .. Max - 1 \ Resource

Holds(t) == {r \in Resource : holder[r] = t}

Urgency(t) == Best({t} \cup Holds(t))

Holders == {t \in Worker : Holds(t) # {}}

Eligible == ready \cup Holders

MostUrgent == IF Eligible = {} THEN 0
              ELSE CHOOSE t \in Eligible : \A u \in Eligible : Urgency(u) <= Urgency(t)

Rethink ==
    /\ late' = {}
    /\ switching' = (switching \/ running # MostUrgent')

\* Only the most urgent task makes calls, those that are late aside.
Entitled ==
    /\ ~switching
    /\ running \in Eligible
    /\ \A t \in (ready \ late) \cup Holders : Urgency(t) <= Urgency(running)

StartWorker(p) ==
    /\ p \in alive
    /\ Wakes({p})
    /\ late' = late \cup {p}
    /\ UNCHANGED <<running, now, alive, switching, holder>>

ReleaseWorker(p) ==
    /\ p \in alive
    /\ Wakes({p})
    /\ Rethink
    /\ UNCHANGED <<running, now, alive, holder>>

StopWorker(p) ==
    /\ Leaves(p)
    /\ Rethink
    /\ UNCHANGED <<running, now, alive, holder>>

\* A task gives back what it holds before it leaves the processor by itself.
Quit ==
    /\ Holds(running) = {}
    /\ Leaves(running)
    /\ alive' = alive \ {running}
    /\ Rethink
    /\ UNCHANGED <<running, now, holder>>

Rest(n) ==
    /\ Holds(running) = {}
    /\ ready' = ready \ {running}
    /\ due' = [p \in Asleep \cup {running} |->
                  IF p = running THEN (now + n) % Clock ELSE due[p]]
    /\ Rethink
    /\ UNCHANGED <<running, now, alive, holder>>

\* A resource above the urgency of the running task is free: the task takes it.
Take(r) ==
    /\ Urgency(running) < r
    /\ holder[r] = Nobody
    /\ holder' = [holder EXCEPT ![r] = running]
    /\ Rethink
    /\ UNCHANGED <<running, ready, due, now, alive>>

\* Resources are given back in the reverse order.
GiveBack(r) ==
    /\ holder[r] = running
    /\ Urgency(running) = r
    /\ holder' = [holder EXCEPT ![r] = Nobody]
    /\ Rethink
    /\ UNCHANGED <<running, ready, due, now, alive>>

ClockTick ==
    /\ now' = (now + 1) % Clock
    /\ \E woken \in SUBSET (Wakeable \cap alive) :
          Wakes({p \in Asleep : due[p] = now'} \cup woken)
    /\ Rethink
    /\ UNCHANGED <<running, alive, holder>>

SwitchOver ==
    /\ switching
    /\ running' = MostUrgent
    /\ switching' = FALSE
    /\ UNCHANGED <<ready, due, now, alive, late, holder>>

CeilingInit ==
    /\ SchedulerInit
    /\ holder = [r \in Resource |-> Nobody]

\* What the task on the processor does.
Call ==
    \/ \E p \in Worker \ {0} : StartWorker(p) \/ ReleaseWorker(p) \/ StopWorker(p)
    \/ Quit
    \/ \E n \in Naps : Rest(n)
    \/ \E r \in Resource : Take(r) \/ GiveBack(r)

CeilingNext ==
    \/ SwitchOver
    \/ ClockTick
    \/ Entitled /\ Call

CeilingSpec == CeilingInit /\ [][CeilingNext]_ceiling_vars
=============================================================================
