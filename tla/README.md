# BeeRTOS in TLA+

BeeRTOS is a small preemptive kernel for the Cortex-M4: tasks of fixed, unique
priorities, a tick, mutexes with a priority ceiling, semaphores, byte queues,
messages and alarms. This directory holds TLA+ modules translated from its C
source, the TLC configurations that check them, and TLAPS proofs. Paths below
are relative to `src/BeeRTOS/Src/`.

## Inventory

| Component | State | Operations | Hard part | Correct when |
|---|---|---|---|---|
| Tasks and scheduler, `BeeRTOS_task.c` | `os_task_current`, `os_task_next`, `os_tasks[]`, `os_ready_mask`, `os_delay_mask`; `priority`, `ticks` of each control block | `os_task_start/stop/release/delete`, `os_delay`, `os_task_tick`, `os_sched` | calls of tasks against ticks and switches that are pended and taken later | the most urgent ready task runs, a suspended task does not, handlers only meet live control blocks, delays end on time |
| Initialisation, `BeeRTOS.c`, `BeeRTOS_task.c` | the same, before the first task | `os_init`, `os_tasks_init`, `os_tasks_start` | two walks over one list in opposite directions; interrupts stay on | it ends in the state the scheduler starts from |
| Tick and critical sections, `BeeRTOS.c` | `os_tick_counter`, `os_isr_counter` | `os_tick`, enter/leave | the counter wraps | time advances by one per tick |
| Port, `Portable/GCC/ARM_CM4` | pending PendSV, stacks | `SysTick_Handler`, `PendSV_Handler`, `os_port_context_switch` | the switch happens some time after it is decided | the switch loads the task decided last |
| Mutexes, `BeeRTOS_mutex.c` | `owner`, `locks_nb`, `owner_priority` per mutex | `os_mutex_lock`, `os_mutex_unlock` | a task moves between slots of `os_tasks` while ticks and delays address slots | exclusion, no inversion, blocked at most once, priority restored |
| Semaphores, `BeeRTOS_semaphore.c` | `count`, `tasks_blocked` per semaphore | `os_semaphore_wait`, `os_semaphore_signal` | timeout against signal, between the two critical sections of a wait | tokens conserved, most urgent waiter first, waits return |
| Queues, `BeeRTOS_queue.c` | `head`, `tail`, `full`, buffer | push, pop, reset, is_empty, is_full | the ends of the ring; `head = tail` | first in, first out, nothing lost or torn |
| Messages, `BeeRTOS_message.c` | two masks of waiting tasks per message, over a queue | send, receive | what happens between a release and the retry it is for | delivered once and in order, no waiter forgotten |
| Alarms, `BeeRTOS_alarm.c` | `period`, `periodic`, `remaining_time`; active and pending masks | start, cancel, tick, the alarm task | callbacks run with interrupts on, from a copy of the mask | each expiry leads to one callback, none is forgotten |
| Assertions, `BeeRTOS_assert.c` | a log | `os_report_error` | none | |
| Trace, configuration, smoke tests | none of the kernel's | | | |

Tasks call the kernel; every other module reaches the scheduler through
`os_task_start`, `os_task_release`, `os_delay`, `os_task_stop` and `os_sched`.
Messages also call the queues. `SysTick_Handler` runs `os_task_tick`, then
`os_alarm_tick` (which may release the alarm task), then `os_sched`. `os_sched`
only writes `os_task_next` and pends PendSV; the PendSV handler switches. All
state is shared and protected by disabling interrupts.

The hazards these parts are exposed to, each at its line, are in
`PROJECT.json`, with the properties that would catch them going wrong.

## What is modelled, and how

Conventions shared by all modules:

- A control block is named by the priority the configuration gives its task
  (the idle task is 0); `os_tasks` maps a slot to a control block or `NULL`.
  A mask is the set of priorities (or alarms) whose bit is set.
- A critical section is one step: interrupts are off in it. A call that is one
  critical section is one action, with every `os_sched` it contains. Calls with
  two (the waits), or that read shared state before one (the assertions of
  `os_mutex_lock` and `os_alarm_cancel`), are two.
- `Executing` is the guard of every step of a task: it is the current task and
  no PendSV is pending. A pended PendSV is taken as soon as interrupts are on,
  so no instruction of a task comes between. Ticks may come at any time, also
  between the pend and the switch. `PendSV_Handler` is one step: a tick between
  its entry and its `CPSID` has the effect of a tick before it, except that it
  may pend a further PendSV that switches from a task to itself.
- Where a call reaches `os_sched` twice (`os_task_delete`, `os_mutex_unlock`,
  `os_mutex_lock`), both select the same task, or the second one decides with
  the pend already set, so the action has one.
- History variables, which no guard reads: `wake` and `unsched` (scheduler),
  `tokens` (semaphores), `answer` (queues), `sent`, `received`, `overtaken`
  (messages), `owed`, `raced` (alarms).

| Module | Models | Definitions and code |
|---|---|---|
| `BeeRTOS_task` | scheduler, tick, the two handlers | one action per call; `Init` is the state `os_init` leaves. `SysTick_Handler(woken)` takes the set of tasks `os_alarm_tick` releases in the same tick: `{}` or the alarm task |
| `BeeRTOS_boot` | `os_init` over `BeeRTOS_task` | one step per entry of `BEERTOS_PRIORITY_LIST()` in each of the two walks, then the system runs. `EarlyTimerSpec` is the same with a timer that was started before |
| `BeeRTOS_mutex` | mutexes over the scheduler | `os_mutex_lock_check` is the call up to line 120, `os_mutex_lock` its critical section (`TakeMutex`, `TakeAgain`, `FailToTake` are its branches), `os_mutex_unlock` is one step because only the owner can change what its assertions read |
| `BeeRTOS_semaphore` | semaphores over the scheduler | `os_semaphore_wait` is the call up to line 137, `os_semaphore_wait_return` the rest; `os_semaphore_signal` is one step |
| `BeeRTOS_queue` | the rings, byte by byte | every call is one critical section. Byte `i` of an element is `<<element, i>>`, so an element put together from two is none |
| `BeeRTOS_message` | messages over the scheduler and the rings | `os_message_call` is a send or a receive up to the context switch: `Served`, `Block` or `DoNotWait`; `os_message_handle_timeout_return` is the retry after it |
| `BeeRTOS_alarm` | alarms over the scheduler | `AlarmSysTick` is the tick with `os_alarm_tick` in it; `TakeMask`, `CallbackBegins`, `CallbackEnds` and `StopItself` are the alarm task's loop; inside a callback the alarm task makes any call a task may make |
| `PriorityScheduler` | what a preemptive priority scheduler promises | abstract: who is ready, who sleeps until when, who runs |
| `BoundedFifo` | what a bounded queue promises | abstract: a sequence per queue |
| `CeilingScheduler` | what a scheduler with mutexes promises | abstract: who holds which ceiling; taking one is a single step that never fails |
| `CountingSemaphore` | what a scheduler with semaphores promises | abstract: tokens, and to whom one is promised |
| `BlockingChannel` | what a scheduler with messages promises | abstract: a bounded sequence per message, who waits at which end, who has not been called |
| `MC_*` | values for TLC | |
| `*_proofs` | the theorems, one module per component | |

Operators named `Mut_f_X` are `f` with one plausible slip. No specification
uses them; `PROJECT.json` pairs each property with the slip it detects.

Five refinements connect the abstract modules with the detailed ones, each
with its mapping at the end of the detailed module:

- `IsPriorityScheduler` maps `BeeRTOS_task` (and `BeeRTOS_boot`) to
  `PriorityScheduler`: the ready mask is who is ready, the delay mask with the
  deadlines is who sleeps, non-null slots are the tasks that exist, `unsched` is
  who is late; `os_task_next`, the contents of the slots and the counters of
  ticks disappear.
- `IsCeilingScheduler` maps `BeeRTOS_mutex` to `CeilingScheduler`: only who holds
  which ceiling is left. The table of slots, the saved priorities, the bits of
  the ceilings and the assertions disappear, and the two steps of a lock become
  one.
- `IsCountingSemaphore` maps `BeeRTOS_semaphore` to `CountingSemaphore`. There a
  signal with waiters promises its token to the most urgent one. The counts
  and the masks of blocked tasks disappear: a token to spare is one that is not
  promised, a blocked task one that waits without a promise.
- `IsBlockingChannel` maps `BeeRTOS_message` to `BlockingChannel`: `Contents` of
  the ring and who waits at which end. There a waiter is called when something
  moves and tries once more; nothing is handed over.
- `IsFifo` maps the rings to `BoundedFifo`: `Contents` reads the elements between
  `tail` and `head`.

The semaphore, message and alarm modules keep the scheduler's variables, and
each of their specifications implies `Spec` itself.

### What clients may do

Some calls the code accepts break it. The passing runs exclude them by named
constants; setting one makes TLC find the violation in the last column.

| Constant | Passing runs | Excluded behaviour | Found when allowed |
|---|---|---|---|
| `RestartDeleted` | `FALSE` | `os_task_start` or `os_task_release` of an id without a control block | the scheduler selects `NULL`: `HandlersSafe` |
| `ClientMay` | `{}` | `"recursive"`: a second lock by the owner | line 113 of `BeeRTOS_mutex.c` asserts: `NoAssertionFails` |
| | | `"any_order"`: unlocking not in reverse order | a stale priority is restored: `PriorityIsCeiling` |
| | | `"delete_holding"`: deleting oneself with a mutex | the task's own bit still leads to it: `DeleteRemovesTask` |
| | | `"delay_holding"`: `os_delay` with a mutex | the tick handler does not end: `TickLoopEnds`, run `mutex_delay_tick` |
| `StopsWaiters` | `FALSE` | start, stop or release of a task inside `os_semaphore_wait` | `NoWaiterSuspended`, `WaitFailsOnlyOnTimeout` |

Assumptions without a constant:

- A task only locks a mutex whose ceiling is above its priority at that moment,
  that is, it nests upwards: line 105 of `BeeRTOS_mutex.c` asserts as much. In
  every composition clients name tasks, not the ids of mutexes; in
  `BeeRTOS_task` they name any id.
- One length per queue, of which the size is a multiple. The messages and the
  smoke tests do so; with mixed lengths an element can cross the end of the
  buffer, where `memcpy` does not wrap.
- Tasks leave those inside a message's wait alone, as with `StopsWaiters`.
- A client cancels an alarm it sees active (`BeeRTOS_alarm.c:157` asserts it).
  Tasks delete themselves in every composition; only a callback does not, which
  would delete the alarm task.
- `os_alarm_start` restarts an alarm that is already started
  (`BeeRTOS_alarm.c:117`), but a restart that races the alarm's own callback can
  be undone by what follows the callback. Such alarms are `raced`, and
  `CountingOrPending` and `OneCallbackPerExpiry` speak of the others.
- A mutex starts with 0 locks, as those of the configuration do. Another initial
  count below 255 changes nothing: the first lock overwrites it.
- `os_task_start` is left out of the message and alarm compositions: it differs
  from `os_task_release` by the missing `os_sched` only, which the run `task`
  and the semaphores cover.

### Code that cannot be reached

`TakeAgain` and `KeepMutex` (recursive locking) are in the model as in the code,
but line 113 of `BeeRTOS_mutex.c` fails before they can happen. `FailToTake`
would need the mutex to be taken between that line and the critical section;
`LockSucceeds` says it never is. `SEMAPHORE_COUNTING_USED == false` does not compile
(`BeeRTOS_semaphore.c:76` and `:183-187`), so only the other build is modelled.

## The runs

Passing:

| Run | Instance | Shows |
|---|---|---|
| `task` | `os_init` over a list of an alarm task, a mutex and two autostarted tasks; delays of 1 and 3, counters modulo 4 | `os_init` reaches `Init`; types; the right task runs; handlers safe; delays counted and ended on time; every delay ends; the most urgent task gets the processor; the scheduler implements `PriorityScheduler` |
| `mutex` | tasks 1, 2, 4, ceilings 3 and 5, delay 2, counters modulo 3 | no assertion fails; `CeilingExcludes`; `PriorityIsCeiling`; `LockSucceeds`; deletion is final |
| `mutex_blocking` | tasks 1 to 3, all users of the ceilings 4 and 5, task 3 woken by the alarms' tick too | at most one less urgent task at a time can hold up another; scheduler and mutexes implement `CeilingScheduler` |
| `semaphore` | three tasks, a counting semaphore with one token, an empty binary one, timeouts 0 and 2 | tokens conserved; waits and bits agree; no waiter is left suspended; waits fail only on timeout; the most urgent task gets out of its wait; scheduler and semaphores implement `CountingSemaphore` |
| `queue` | three queues, of one, two and three elements | copies stay inside the buffer; the rings implement `BoundedFifo` |
| `message` | three tasks, one message with room for two, waits of 0 and 2 ticks | delivered once, whole and in order; waiting bits stand for waiters; releases are not in vain; sleep lasts its timeout unless released; the most urgent task gets out; all together implement `BlockingChannel` |
| `alarm` | an alarm task and one task above it, two alarms, periods 1 and 2, one-shot and periodic | pending alarms are active; none is lost between the masks; one callback per expiry; pending alarms are served |

Violations, each one a statement of a comment or a test that the code does not
keep (`findings` quotes the lines):

| Run | The code |
|---|---|
| `boot_early_timer` | `os_init` neither pends the first switch nor keeps a running timer out: an autostarted task can run before the mutexes, semaphores, queues and messages are initialised |
| `mutex_delay_tick` | `os_delay` with a mutex delays the ceiling's slot only: the task runs on under its own bit, and once it takes a second mutex `os_task_tick` loops for ever (unlocking the first would clear the delay bit) |
| `queue_capacity` | `os_queue_can_push` compares the free bytes with the length the wrong way round: a queue for three elements refuses the second while it says it is not full |
| `message_stranded` | a receive that succeeds on the retry after a wait releases no sender: a waiting sender sleeps on although there is space; `os_message_send` has the same retry |
| `alarm_cancel` | what follows a periodic callback re-arms an alarm that has been cancelled meanwhile |

The abstract queue holds the number of elements the code accepts
(`Accepted`: one, or two if that fills it exactly), not the number its size has
room for; `IsFifo` shows that within this limit nothing goes wrong, and
`queue_capacity` that the limit is not the documented one.

### What the history variables say

`WaitFailsOnlyOnTimeout`, `ReleasedNotInVain` and `OneCallbackPerExpiry` state
what the code really keeps, not what one might hope for:

- Messages: a released waiter finds what it was released for unless it is
  `overtaken`, by a task of its own side that was served first. The code lets
  this happen, since a release hands nothing over.
- Alarms: an alarm is `raced` if it was started or cancelled between its expiry
  and the end of its callback. For the others the accounts are exact; for these
  the callback may come although cancelled, and the code after it may disarm a
  new start.

### Bounds

- Tasks: three besides the idle task (two with the alarms, where callbacks act as
  a third). A third task is what it takes for one task to act on a second while
  a more urgent one preempts; the proofs cover any number.
- `TICK_MOD` stands for 2^32. With 4 (or 3, 2) the counter wraps within a delay,
  and delays go up to `TICK_MOD - 1`, so every distance to the wrap occurs.
- `CountBound` is the number of tokens up to which clients signal; the code's
  limit is 2^32 - 1, where `count` would wrap to 0. Two tokens suffice to have a
  signal on an empty, a non-empty and a waited-for semaphore.
- Queues of one, two and three elements: the first is full with one element, the
  second is the largest the code ever fills, and the third shows that it does
  not fill a larger one. `head` and `tail` reach every multiple of the length.
- Messages are numbered modulo `Items`, one more than the ring holds at once, so
  a lost, repeated or reordered one shows.
- `ExpiryBound` is 2: `owed` never exceeds 1 in a correct system, and 2 shows it.
- `os_delay(0)` and a period of 0 are excluded, the first as the code asks
  (`BeeRTOS_task.c:363`), the second because such an alarm never expires.
- No state constraint. Symmetry only over what the queues carry, which no client
  looks at, in a run without liveness; priorities are ordered.
- Deadlock is checked in every run: the timer never stops.

### Fairness

Weak fairness of the tick and of the PendSV handler: the timer is periodic and
SysTick has the highest priority (`port_CM4.c:153-159`); PendSV outranks every
task and is taken as soon as interrupts are on. `os_init` goes on (`BootFairSpec`).
A task that has the processor inside a wait executes its next instruction
(`WaitReturns`), and so does the alarm task in its loop (`AlarmTaskStep`, and an
`os_alarm_cancel` it has begun). Callbacks return: after finitely many calls and
delays of its own a callback ends, which is strong fairness of `CallbackEnds`,
since a callback that delays keeps disabling it. Nothing else is assumed of
tasks: they may compute for ever.

## What is proved

By TLAPS, for every number of tasks, every priority list, every set of mutex
slots, autostart tasks, delays, semaphores, queues, messages, alarms and
periods, and every width of the counters. The assumptions are the named ones of
the modules. Beyond those, the theorems about the queues, the alarms and
`TypeCorrect` assume nothing; all others assume `RestartDeleted = FALSE`, and
those of the mutexes `ClientMay = {}` too. `StopsWaiters = FALSE` is needed only
for `WaitersAreSafe` and `WaitsLastTheirTimeout`: tokens, promises and the
refinement of the semaphores survive tasks that stop and start waiters.
`WaitsLastTheirTimeout` and `SleepsLastTheirTimeout` are stated without an alarm
task, which an alarm could wake early.

| Module | Theorems |
|---|---|
| `BeeRTOS_task_proofs` | types; the running task is ready, no inversion, and so the right task runs; handlers safe; delays counted and ended on time |
| `BeeRTOS_scheduler_proofs` | `Spec => IsPriorityScheduler`: the refinement |
| `BeeRTOS_boot_proofs` | `os_init` reaches `Init`; types, safety of the kernel and delays on time from power-on; `BootSpec => IsPriorityScheduler` |
| `BeeRTOS_mutex_proofs` | types; no assertion fails; ceilings exclude; priorities are ceilings; blocked at most once; locking succeeds; the right task runs; handlers safe; delays counted and ended on time; deletion is final; `MutexSpec => IsCeilingScheduler` |
| `BeeRTOS_semaphore_proofs` | `SemSpec => Spec`; types; tokens conserved; bits stand for waiters; no waiter suspended; nobody waits while there are tokens; most urgent granted; waits fail only on timeout; `SemSpec => IsCountingSemaphore` |
| `BeeRTOS_queue_proofs` | types; copies stay inside; `QueueSpec => IsFifo`: the refinement |
| `BeeRTOS_message_proofs` | `MessageSpec => Spec`; types; delivered in order; waiters are inside; releases are not in vain; most urgent released; sleep lasts its timeout; `MessageSpec => IsBlockingChannel` |
| `BeeRTOS_alarm_proofs` | `AlarmSpec => Spec`; types; pending is active; counting or pending; one callback per expiry |

The arguments:

- Scheduler. `RunningIsReady` alone is not inductive: whether the running task is
  ready after a switch depends on what `os_task_next` was when it was chosen and
  on what has happened since. `SchedInv` says so in four parts: each slot holds
  its own task or nothing, each bit leads to a live task (where `RestartDeleted`
  is needed), no task is both ready and delayed, and `os_task_next` is a ready
  task above all others that have been scheduled (`Selected`). Each action that
  changes a mask ends in `os_sched`, which re-establishes `Selected` whatever it
  was, except `os_task_start`, which only adds a bit and puts it in `unsched`.
  `HighestBit` shows that the `CHOOSE` behind the count-leading-zeros macro has a
  witness, by well-foundedness of the naturals. `DelayCounts` ties the ticks left
  to the distance to the due tick modulo `TICK_MOD`; `TickShift` is the
  arithmetic of one tick across the wrap.
- Refinement of the scheduler. In addition, the task a pended switch will load is
  the best of the ready ones at that moment, and without a pend the current one
  is; every call then is the abstract call of the same name, one lemma each
  (`StartIsStart`, ..., `TickIsTick`).
- Initialisation. `Booting` ties the two walks together: the first has created
  exactly the tasks of the entries it has passed, each in the slot of its
  priority, and the second, counting ids up from the other end, has made ready
  exactly those `Autostarts` names. Both counters meet at `Init`, after which
  the invariants of the scheduler take over.
- Compositions. Semaphores, messages and alarms only call the scheduler, so each
  of their steps is a step of `Next` or leaves its variables alone, and every
  theorem about `Spec` carries over. Their own invariants say which bits stand
  for whom: for semaphores, that a blocked or granted task waits, is alive in
  its own slot, and sleeps or is ready; for messages, that a bit stands for a
  task inside that wait; for alarms, where the alarm task's copy of the mask may
  differ from the mask, and by which alarms.
- Mutexes. They write the scheduler's table and priorities themselves, so
  `SchedInv` does not hold and `MutexInv` replaces it: a task has the highest
  ceiling it holds (`Raised`), saved priorities nest (`Nested`), the bit of a
  ceiling is set exactly while its mutex is held (`Bits`), and, the heart of it,
  of two mutexes in different hands the owner of the upper one outranks every
  user of the lower (`Excluded`). A task can only execute while another holds `m`
  if its own base priority is above `m` (`Excludes`); so a task that goes up to
  `m` finds it free, which keeps the assertions true, and whatever it takes keeps
  `Excluded`. Exclusion, single blocking and the absence of failures all follow.
  Only tasks that hold nothing sleep, so the delay bits lie in base slots that
  nobody moves (`MutexTimed`): delays end on time. For the refinement, the
  holder's active priority is computed from the ceilings it holds, and the step
  of `os_mutex_lock_check` is a stutter.
- Queues. Offsets are multiples of the length (`Offset`), so no element crosses
  the end of the buffer. Since the code accepts at most two elements, a ring has
  one of three shapes, `Empty`, `One` and `Two`; which calls succeed, what
  `Contents` is and what each call turns the shape into follow by comparing
  offsets, and the only arithmetic with `%` is adding one length below or across
  the wrap (`RingStays`, `RingWraps`).
- Messages. On top of the shapes, `Ordered` says which numbers the ring holds:
  none, `received`, or `received` and its successor, and there are more numbers
  than places. For releases, `DueInv` counts: the waiters of a side that were
  released and not overtaken are at most what is available to that side. An
  operation takes one from its own side, and either was due itself or gets in
  before all of them; it gives one to the other side and releases one there.
- Refinement of the semaphores. `TokensConserved` is the mapping's other half:
  subtracting the promised tokens gives back `count`, so the guards agree
  (`SpareIsCount`, `HopefulAreBlocked`). What the calls do to the scheduler is
  cited from its own refinement.
- Refinement of the messages. `Lengths` relates the two comparisons of offsets to
  the length of `Contents` (`PossibleIsCanDo`), so that the code's tests are the
  abstract ones; `CallsOne` says that a release takes one waiter off one list.

Only model-checked: the liveness properties `DelayEnds`, `MostUrgentRuns`,
`WaitEnds`, `MessageWaitEnds` and `PendingIsServed` (fairness and `ENABLED` are
out of the prover's reach). Every other property of a passing run is a theorem.
Some theorems say what no run repeats: the scheduler's properties under mutexes,
and who is granted or released first, which for TLC is part of the refinements.

## Not modelled

- Stack frames and register saving, and the stack monitor, whose reaction is a
  TODO in the source: data no property is about.
- Trace hooks and the log of assertions: nothing in the kernel reads them.
- Calls that only read a field: `os_alarm_get_remaining_time`,
  `os_get_tick_count`.
- The width of masks: sets have none. With more than 32 tasks `1U << bit` and
  the `uint32_t` copy in `os_task_tick` lose bits, although the configuration
  allows 64 (`BeeRTOS_cfg.h:57`).
- Interrupt handlers of the application that call the kernel: nothing in the
  repository says which calls they may make.
- `os_semaphore_signal` at 2^32 - 1 tokens, and queues used with several lengths:
  see the assumptions above.

## Plan

1. Mutexes together with semaphores and messages: a wait that holds a mutex has
   the problem of `mutex_delay_tick`; one that does not should keep both sets of
   properties.
2. Masks as numbers modulo 2^w, checked against the sets.
3. Queues used with lengths that divide the size but differ from call to call:
   which mixtures keep the elements whole.
