-------------------------- MODULE PriorityScheduler --------------------------
(***************************************************************************)
(* What a preemptive fixed-priority scheduler promises the tasks of one    *)
(* processor.  Nothing is said of tables, control blocks, counters of      *)
(* remaining ticks or of the choice made before a switch: only who is      *)
(* ready, who sleeps until when, and who runs.                             *)
(***************************************************************************)
EXTENDS Integers

CONSTANTS
    Max,         \* tasks are 0 .. Max - 1, the more urgent the greater; 0 idles
    Clock,       \* the clock counts modulo Clock
    Naps,        \* how long a task may sleep
    Wakeable,    \* tasks that a tick may wake for reasons of its own
    Nobody

VARIABLES
    running,     \* the task on the processor, or Nobody
    ready,
    due,         \* sleeping task -> the tick it sleeps until
    now,
    alive,       \* tasks that exist
    late,        \* tasks made ready whose turn is not decided yet
    switching    \* a switch is due

sched_vars == <<running, ready, due, now, alive, late, switching>>

Best(set) == IF set = {} THEN 0 ELSE CHOOSE p \in set : \A q \in set : q <= p

Asleep == DOMAIN due

Wakes(set) ==
    /\ ready' = ready \cup set
    /\ due' = [p \in Asleep \ set |-> due[p]]

Leaves(p) ==
    /\ ready' = ready \ {p}
    /\ due' = [q \in Asleep \ {p} |-> due[q]]

Decide ==
    /\ late' = {}
    /\ switching' = (switching \/ running # Best(ready'))

\* Only the most urgent ready task makes calls, those that are late aside.
Acts ==
    /\ running \in ready
    /\ \A p \in ready \ late : p <= running
    /\ ~switching

Start(p) ==
    /\ Acts
    /\ p \in alive
    /\ Wakes({p})
    /\ late' = late \cup {p}
    /\ UNCHANGED <<running, now, alive, switching>>

Release(p) ==
    /\ Acts
    /\ p \in alive
    /\ Wakes({p})
    /\ Decide
    /\ UNCHANGED <<running, now, alive>>

Stop(p) ==
    /\ Acts
    /\ Leaves(p)
    /\ Decide
    /\ UNCHANGED <<running, now, alive>>

Delete ==
    /\ Acts
    /\ Leaves(running)
    /\ alive' = alive \ {running}
    /\ Decide
    /\ UNCHANGED <<running, now>>

Nap(n) ==
    /\ Acts
    /\ ready' = ready \ {running}
    /\ due' = [p \in Asleep \cup {running} |->
                  IF p = running THEN (now + n) % Clock ELSE due[p]]
    /\ Decide
    /\ UNCHANGED <<running, now, alive>>

\* A sleep ends on the tick it is due, and only that.
Tick ==
    /\ now' = (now + 1) % Clock
    /\ \E woken \in SUBSET (Wakeable \cap alive) :
          Wakes({p \in Asleep : due[p] = now'} \cup woken)
    /\ Decide
    /\ UNCHANGED <<running, alive>>

Switch ==
    /\ switching
    /\ running' = Best(ready)
    /\ switching' = FALSE
    /\ UNCHANGED <<ready, due, now, alive, late>>

\* Before the first switch tasks are created and admitted.
Create(p) ==
    /\ running = Nobody
    /\ alive' = alive \cup {p}
    /\ UNCHANGED <<running, ready, due, now, late, switching>>

Admit(p) ==
    /\ running = Nobody
    /\ p \in alive
    /\ Wakes({p})
    /\ late' = late \cup {p}
    /\ UNCHANGED <<running, now, alive, switching>>

SchedulerInit ==
    /\ running = Nobody
    /\ alive \subseteq 0 .. Max - 1
    /\ ready \subseteq alive
    /\ late = ready
    /\ due = [p \in {} |-> 0]
    /\ now = 0
    /\ switching = FALSE

SchedulerNext ==
    \/ \E p \in 1 .. Max : Start(p) \/ Release(p) \/ Stop(p) \/ Admit(p)
    \/ \E p \in 0 .. Max - 1 : Create(p)
    \/ \E n \in Naps : Nap(n)
    \/ Delete
    \/ Tick
    \/ Switch

SchedulerSpec == SchedulerInit /\ [][SchedulerNext]_sched_vars
=============================================================================
