# FreeRTOS on a dual-core MIPS: a verification project

The repository holds a FreeRTOS kernel (V11.1.0) in two configurations, one for
a MIPS processor of the authors' own and one for a simulation on Windows, the
small application that both run, and the Simulink scripts and MATLAB blocks that
draw the processor. This directory states what the program promises its users
as TLA+ modules, model-checks them with TLC on small instances and proves the
most important invariants with TLAPS for every instance.

In what follows *X86* is
`src/FreeRTOS Codebase/freeRTOS simulation on x86 architecture/WIN32-MSVC`,
*MIPS* is
`src/FreeRTOS Codebase/freeRTOS codebase for our MIPS Dual Core Processor architecture`
and *SIM* is `src/SIMULINK MODELS` (`src/Simulink Models` holds the same files).
The kernel sources of X86 and MIPS are the same text, but X86's
files include `stdint.h` in one line more: line *n* of MIPS is line *n*+1 of X86. Line numbers below are those of X86. A module stands for both
copies; the map names one of them: X86 for `ListRing`, `Scheduler`, `QueueFifo`,
`Queue`, `Semaphore`, `Objects` and `TaskInfo`, MIPS for the other modules of the kernel.

## 1. Inventory

### Kernel

| Part | State | Operations | What is hard | What makes it correct |
|---|---|---|---|---|
| Scheduler (`tasks.c`) | ready lists per priority, record of the highest one, two delayed lists, suspended list, list of deleted tasks, pending ready list, tick count, next unblock time, suspension depth, pended ticks, pending yield | create, delete, delay, delay until, suspend, resume, set priority, abort delay, place on and remove from an event list, suspend and resume the scheduler, tick, switch | tick count wraps; interrupts between any two critical sections; everything that happens in a suspension is replayed later; caches of derived values (next unblock time, top priority) | a task is in one list; nobody wakes early or late; the highest ready task runs; equal tasks share; nothing deferred is forgotten |
| Lists (`list.c`) | linked nodes, walking index | insert ordered, insert at the end, remove, next entry | removal of the node the index points at | the walk visits every item in turn |
| Queues (`queue.c`) | circular buffer, count, two positions, two lock counts, two lists of waiting tasks | send to either end, overwrite, receive, peek, reset, the same from interrupts | a call tries, then locks, then waits, and interrupts go on sending and receiving in between; time-outs race with wake-ups | bounded FIFO; no lost wake-up; no lock left behind |
| Queue sets (`queue.c`) | container of each member | add, remove, select, notify | the set queue is sent to from inside sends to its members | each item of a member is announced once |
| Mutexes, semaphores (`queue.c`, `tasks.c`) | holder, recursive count, base priority, count of mutexes held | take, give, recursive take and give, inherit, disinherit, disinherit after a time-out | priorities change while tasks are in lists ordered by priority | mutual exclusion; the holder runs at the highest waiting priority and no higher |
| Block times (`tasks.c`) | overflow count, time on entering | set, check, delay until | wrap of the tick count, several rounds of one call | time is over exactly when the block time has elapsed |
| Notifications (`tasks.c`) | state and value of each index | take, wait, notify, give, clear | two critical sections of the waiter around its block | no notification lost or consumed twice |
| Software timers (`timers.c`) | two lists ordered by expiry, command queue, status | start, stop, reset, change period, delete, pend a function, expire | commands are processed later than they were made; wrap of the tick count | every expiry of an active timer calls back once, at its time |
| Event groups (`event_groups.c`) | bits, unordered event list | set, clear, wait, sync, delete, the same by deferred calls | waiters clear bits that other waiters of the same set still see | a set wakes every waiter whose condition holds, and clears once |
| MIPS port (`port.c`, `portmacro.h`, `portasm.s`) | interrupt nesting, saved stack pointer, floating-point owner | tick, yield, critical sections, first task, floating-point trap | lazy save of floating-point registers | a task finds its own registers |
| X86 port | none | stubs | - | - |

### Application and drivers

`main.c` creates a producer and a consumer (`application_tasks.c`) that talk
through a mailbox which is not in the repository; `synchronization.c` holds one
mutex, `performance.c` three measurements, one of which takes the mutex and
keeps it (`performance.c:39`); `interrupt_handlers.c` has a tick handler that
does not tick and a UART handler; `lib/drivers` holds the UART, GPIO and timer
drivers with busy waits and read-modify-write registers.

### Hardware

`arbiter_block.m` and the arbiter that `create_dualcore_model.m` draws choose
between the two cores; `ICacheSys.m`, `DCacheSys.m`, `SharedCacheSys.m` and
`cache.m` are the caches with their miss state machines; `MemCtrlSys.m` and
`RAMSys.m` the memory; `hazard_unit_func.m`, `forwarding_unit_func.m`,
`control_decode.m`, `alu_func.m` and `RegFileSys.m` the pipeline. The other
scripts draw blocks. Hard here: two requesters on one memory port, misses that
take several cycles while the address may change, stalls against forwarding.

### How the parts interact

Queues, event groups, notifications and timers put the running task on an event
list and call the scheduler to block it (`vTaskPlaceOnEventList`); a task or an
interrupt that makes the condition true takes the first waiter off the list
(`xTaskRemoveFromEventList`). All of them protect lists by suspending the
scheduler, so that the tick and the interrupts leave their work in
`xPendingReadyList` and `xPendedTicks` for `xTaskResumeAll`; queues in addition
lock themselves, so that interrupts leave theirs in the lock counts. The port
turns a requested yield into an interrupt. The timer task is a client of its
command queue.

## 2. Modules

| Module | Kind | Stands for |
|---|---|---|
| `ListRing` | operators | `list.c` as the walk its index makes |
| `Scheduler` | specification | `tasks.c` on one core |
| `SMP` | specification | `tasks.c` on several cores |
| `Tickless` | specification | the tickless idle task of `tasks.c` |
| `BlockTime` | specification | block times and periodic delays of `tasks.c` |
| `Notify` | specification | task notifications of `tasks.c` |
| `Objects` | specification | creation, deletion and registration of tasks, queues, timers and event groups |
| `TaskInfo` | specification | the reports of `tasks.c`: states, lists and handles of tasks |
| `QueueFifo` | abstract specification | what a queue promises |
| `Queue` | specification | a queue of `queue.c` with its tasks and interrupts |
| `Semaphore` | specification | counting and binary semaphores of `queue.c` |
| `QueueSet` | specification | queue sets of `queue.c` |
| `Mutex` | specification | mutexes of `queue.c` with the inheritance of `tasks.c` |
| `Timers` | specification | `timers.c` |
| `Barrier` | abstract specification | the rendezvous that `xEventGroupSync` promises |
| `EventGroup` | specification | `event_groups.c` |
| `ICache`, `DCache` | specifications | `ICacheSys.m`, `DCacheSys.m` |
| `Arbiter` | specification | the memory port of `create_dualcore_model.m`, `MemCtrlSys.m` |
| `ListRingProofs` | proofs | what the operations of a list do, and lemmas about sequences |
| `SchedulerProofs` | proofs | `Scheduler`: its lists, places and counts, and what it owes its tasks: time, preemption, deferred work |
| `QueueProofs` | proofs | locks and wake-ups of `Queue`, and that it implements `QueueFifo` |
| `SMPProofs` | proofs | `SMP`: the run states of tasks and cores, requests to yield, freed tasks, affinity |
| `QueueSetProofs` | proofs | each item of a member of `QueueSet` is announced, and waiters are woken |
| `MutexProofs` | proofs | `Mutex`: exclusion, lists, base priorities, inheritance |
| `ServicesProofs` | proofs | the event group, the notifications, the semaphore, the queue set and the cores of `MCServices` |
| `ClockedProofs` | proofs | the caches, the block times, the tickless idle task, the objects and the reports of `MCClocked` |
| `MCScheduler`, `MCQueue`, `MCMutex` | instances | two, three and four configurations of one module |
| `MCServices` | instances | `EventGroup`, `Notify`, `QueueSet`, `Semaphore` and `SMP` (two builds) |
| `MCClocked` | instances | `BlockTime`, `Timers`, `ICache`, `DCache`, `Tickless`, `Objects` and `TaskInfo` |

`MCServices` and `MCClocked` are disjoint unions: `part` says which module a
behaviour is of, the variables of the others are at rest, and each property is
stated as `part = "..." => ...`. They are not compositions; nothing in the code
that these models keep passes from one to another. The compositions are inside
the modules: `Queue`, `QueueSet`, `Semaphore`, `Notify`, `EventGroup` and `Mutex`
each hold the part of the scheduler that their object needs.

### ListRing

A list is written as the sequence of its nodes, the end marker `ListEnd`
included, that starts just behind `pxIndex`; the last element is the node
`pxIndex` points at. `vListInsertEnd` inserts before that element, `uxListRemove`
deletes (and so moves the index back when it pointed at the removed node),
`NextEntry` is `listGET_OWNER_OF_NEXT_ENTRY`. This form keeps exactly what the
scheduler's round robin depends on and has no node identities.

### Scheduler

Variables carry the names of the static variables of `tasks.c`. Delayed lists
are sets, for their order is that of `xItemValue` and among equal values no
property depends on it; `WakeDue` takes any of the earliest. The event lists of
all kernel objects are one sequence `eventList`, the waiting tasks of one
object. `uxTopReadyPriority` is a set, the bitmap of the port-optimised
selection, or a singleton for the generic one; `PortOptimised` chooses.

A task has a program counter `pc[t]` that says at which point of an API
function it is; the points are those at which interrupts are enabled. One
action is one critical section, or one stretch with the scheduler suspended
whose intermediate states no interrupt can tell apart. The loops of
`xTaskResumeAll` and `xTaskIncrementTick` run with interrupts masked; they are
split into one action per task or tick, and `kernel` is their program counter:
while it is not `"task"` nothing else moves. `yieldIrq` is the software
interrupt a yield requests; other interrupts may come before it.

| Actions | Code |
|---|---|
| `MainCreate`, `Create`, `vTaskStartScheduler` | `prvAddNewTaskToReadyList`, `vTaskStartScheduler` |
| `vTaskSuspendAll(where)`, `vTaskDelay`, `DelayUntilPassed`, `vTaskPlaceOnEventList`, `xTaskCatchUpTicks` | the API functions that begin by suspending the scheduler; `where` says which |
| `AbortCheck`, `xTaskAbortDelay` | the state test and the removal of `xTaskAbortDelay` |
| `vTaskSuspend`, `SuspendResetsUnblockTime`, `YieldWithinAPI` | the two critical sections of `vTaskSuspend` and its yield |
| `vTaskResume`, `xTaskResumeFromISR`, `vTaskPrioritySet`, `DeleteOther`, `DeleteSelf` | the functions of these names (`vTaskDelete`) |
| `prvCheckTasksWaitingTermination`, `IdleYield` | the idle task |
| `Signal`, `SignalFromISR` | a task or an interrupt makes the event happen: `xTaskRemoveFromEventList` and the yield of its caller |
| `TickISR`, `WakeDue`, `WakeDone`, `TickEnd` | `xTaskIncrementTick` |
| `xTaskResumeAll`, `DrainPendingReady`, `DrainDone`, `CatchUpTick`, `CatchUpDone` | `xTaskResumeAll` |
| `YieldISR` | the port's yield handler with `vTaskSwitchContext` |

`toGo` is a history variable: the processed ticks that a delay has left. It is
what the properties measure wake times with.

### Queue and QueueFifo

`Queue` keeps the buffer with its two positions, the count, both lock counts
and both lists of waiting tasks. The tasks' calls are split at the critical
sections: `Served` or `NotServed` (the first one), `prvLockQueue`,
`xTaskCheckForTimeOut`, `TestQueue`, `PlaceOnEventList`, `UnlockTx` and
`UnlockRx` (the two of `prvUnlockQueue`), `Recheck`. Interrupts act between any
two. The scheduler is reduced to what a queue sees of it: a blocked task does
not run, and nobody else runs while `suspender` holds the scheduler; otherwise
any task may be next, so every preemption is a behaviour. A block time is
`"none"`, `"some"` (it may end at any tick while the scheduler is not
suspended) or `"forever"`; `cause` is a history variable that says what ended
the present one.

`QueueFifo` is the abstract specification, a sequence of at most `uxLength`
items. `Queue` implements it under the mapping that reads the items behind
`pcReadFrom` around the buffer; `pvBuffer` is the item last copied out, so the
refinement also says that what callers get is what the sequence would give.

### Mutex

`Mutex` has the mutexes (`uxMessagesWaiting`, `xMutexHolder`,
`uxRecursiveCallCount`, the event list), the priorities of every task
(`uxPriority`, `uxBasePriority`, `uxMutexesHeld`, the value of the event item)
and what a priority is worth: the ready lists and the record of the highest one,
in both forms of task selection. `xQueueSemaphoreTake` is split where other
tasks may run: `TakeSucceeds` and `TakeFails` (its first critical section),
`TakeBlocks`, `TakeRetries` and `TakeExpires` (the stretch with the scheduler
suspended), `AfterTimeOut` and `vTaskPriorityDisinheritAfterTimeout` (each a
critical section of its own, so that the mutex may change hands before it).
`xQueueSemaphoreGive` is `xQueueGenericSend` with `prvCopyDataToQueue`,
`xTaskPriorityDisinherit` and `xTaskRemoveFromEventList`. Block times end when
the tick likes, ready lists are sets, and a requested switch comes before the
next step of the running task. `vTaskDelete`, `vTaskSuspend` and
`xTaskAbortDelay` of a waiter are left out.

### Semaphore

The same blocking loop for a queue without items: `Takes` or `FindsNone`,
`prvLockQueue`, `xTaskCheckForTimeOut`, `LooksAgain`, `vTaskPlaceOnEventList`,
`prvUnlockQueue`, `Recheck`; tasks give without waiting,
interrupts give and take, `cTxLock` counts what they give to a locked semaphore.
Waiters stand in priority order. Blocked tasks time out or are aborted.

### QueueSet

Counts of items, both lock counts and the container of each member, the handles
in the set queue and its lock. Sends (from tasks, from interrupts, of the locked
and the unlocked member) go through `prvNotifyQueueSetContainer`; `UnlockTx` and
`UnlockRx` are `prvUnlockQueue`, `selected` the handle a task has taken and not
used yet. A mailbox is overwritten, which announces nothing when it was full.
Membership changes while members are empty (`xQueueAddToSet`,
`xQueueRemoveFromSet` with its test outside of the critical section).

### EventGroup and Barrier

Every function but one works with the scheduler suspended and no interrupt
touches a group, so an action is a function up to `xTaskResumeAll`; a task that
had to wait learns later, in an action of its own, from the value of its event
item or from a second look at the bits. The calls that interrupts leave to the
timer task are a sequence of pended functions. `Barrier` is the rendezvous:
who has arrived, who may pass. `EventGroup` implements it with the participants'
bits read as arrivals, whatever is set, cleared, timed out or deleted besides.

### Notify

The two critical sections of a wait (`TestTake` or `TestWait`, `CollectTake` or
`CollectWait`) with the block between them, under a suspended scheduler;
notifications by tasks and from interrupts (`ReadyFromISR` pends the task
meanwhile); and the other calls that move a waiting task: `Expire`, the two
halves of `xTaskAbortDelay`, `vTaskSuspend`, `vTaskResume` and
`xTaskResumeFromISR`, with the test `prvTaskIsTaskSuspended` that tells suspended
tasks from waiting ones in the same list. `parked` is the history that says
which is which.

### SMP

The scheduler in its builds for several cores. `kernel` is a record of what the
task lock and the interrupt lock protect; one action is a critical section of
one core, with the requests that it makes of other cores (`prvYieldForTask`,
`prvYieldCore`, `prvCheckForRunStateChange`) computed as functions from kernel to
kernel. A core that was asked to yield does so later (`irq`), selects
(`prvSelectHighestPriorityTask`, with affinity masks and the search for a core
for the task put out), and suspension of the scheduler waits until it has.
Two constants choose the builds: `configRUN_MULTIPLE_PRIORITIES` and the masks.

### BlockTime, Timers, Tickless

Each keeps the values the code computes beside the times they mean, as history
variables: `left` and `lag` in `BlockTime`, `due` in `Timers`, `remaining` in
`Tickless`. In `Timers` the service task's loop is split wherever ticks and
commands may come in; a command has the tick of its request, and `MaxLag` bounds
how late it is handled. `Tickless` is the idle task's two looks at the expected
idle time, the confirmation with interrupts disabled, the sleep, the step of the
count, and `xTaskResumeAll`; interrupts ready tasks between any two of these and
may leave the switch to the next tick. The port's part
(`portSUPPRESS_TICKS_AND_SLEEP`) is external.

### Objects

The handles are the memory: `heap` is the set of their parts that
`pvPortMalloc` gave. A call that creates or deletes is split where the code
leaves its critical section with something allocated and not handed over;
allocation may fail. Beside it are the counts of tasks, the lists that make a
task exist, the choice of the first task before the scheduler is started, and
the registry, whose entry is chosen and written without a lock. `EarlyDeletes`
admits deletions before the scheduler is started; see the observations.

### TaskInfo

One task asks for reports: `vTaskListTasks` and `vTaskGetRunTimeStatistics` with
the array they allocate and the text they write, `uxTaskGetSystemState` list by
list and task by task, `eTaskGetState` with its reads inside and outside of the
critical section, `xTaskGetHandle` list by list. Between its steps interrupts
wake other tasks; while the scheduler is not suspended the other tasks do to each
other all that moves a task from list to list. `seen` is history: the states a
task was in meanwhile. Of the text only lengths are kept; whether the
statistics are printed is left open.

### ICache, DCache, Arbiter

A step is a clock cycle, and each action one branch of `stepImpl`. The memory
answers when it likes. In `DCache` `written` and `recent` are history: the value
last written to each address and the block last hit. `Arbiter` has the switches
of the drawn model, with what no line leads to at zero.

## 3. Runs

| Run | Instance | Checks |
|---|---|---|
| `scheduler` | two tasks and idle, three priorities, bitmap selection, a count that wraps at three, one pended tick | `TypeOK`, `OneStateList`, `TaskCountExact`, `EventItemsSound`, `ClockSound`, `TopPriorityRecorded`, `HighestRuns`, `NothingLeftPending`; `SuspensionProtectsLists`, `TickNeverWakesEarly` |
| `scheduler_live` | two tasks and idle, two priorities, generic selection, fairness | `EventListInPriorityOrder`, `DelayEnds`, `TimeSlicing` |
| `queue` | three equal tasks, two items, length two, sends to the back, receptions, interrupts that send to the front and receive | `LockedBySuspender`, `ReceiversWoken`, `SendersWoken`, `ImplementsFifo` |
| `queue_live` | two equal tasks, length one, overwriting, peeks, resets, aborts, fairness | `ReceiverServed`, `SenderServed`, `ImplementsFifo` |
| `queue_abort` | two tasks, aborted delays | finding: `EndsForItsOwnCause` fails |
| `mutex` | three tasks of priorities 1 to 3 and idle, one mutex, bitmap, fairness | `NoInversion`, `InheritsForAWaiter`, `FreeMutexIsSought`, `HighestTaskServed` |
| `mutex_nested` | two tasks of priority 1, one of 2 and idle, two mutexes in any order, one of them recursive, generic selection, `vTaskPrioritySet` | `MutualExclusion`, `BasePriorityKept`, `OneList` |
| `mutex_switch` | the tasks of `mutex`, one mutex | finding: `HighestRuns` fails |
| `mutex_bitmap` | the tasks of `mutex`, two mutexes, bitmap | finding: `SelectsOccupiedList` fails |
| `services` | `EventGroup`: three tasks, four bits, one pended call; `Notify`: two tasks, two indices, values to one; `QueueSet`: three tasks, a queue of two and a mailbox, a set of length three; `Semaphore`: three tasks, one above, counts to two; `SMP`: two cores, two tasks and two idle tasks, two priorities, in two builds | `GroupSound`, `ImplementsBarrier`; `NotifySound`; `ItemsAnnounced`; `TakersWoken`; `CoresSound`, `RightTasksRun` |
| `clocked` | `BlockTime`: a count of five, overflows to three; `Timers`: two timers, periods one and three, a count of five, a queue of one, a lag of one; `ICache`: eight words, four lines; `DCache`: three tags, two values; `Tickless`: two tasks, a count of five, two pended ticks; `Objects`: two tasks and a queue, and one task with two queues, a timer and an event group (`Uses`), two registry entries; `TaskInfo`: the caller and two tasks, buffers of 1 to 9 characters, names of 3 | `BlockTimesExact`; `ExpiriesCalled`; `CachesRight`; `NoneOversleeps`; `ObjectsSound`; `ReportsTrue` |
| `arbiter` | two addresses, two values | finding: `ReturnPath` fails |

Each module that has two forms of task selection is run with both.

**Bounds.** `MaxNest` and `MaxPended` bound the depth of suspension and the
ticks that arrive in one; one of each already puts every interrupt inside a
suspension and every deferred kind of work in front of `xTaskResumeAll`.
`TickMod` is three: a delay of two always crosses a wrap from some tick (in `scheduler_live` the
delay is one, which wraps from the last tick), the two
delayed lists change places every third tick, and `portMAX_DELAY` is two. Three
priorities give a task above and one below the running one. In `queue` three
tasks and a length of two let two waiters wait while two interrupts count on a
lock. The tasks are symmetric where they have no fixed priority. In `mutex`
three priorities are a holder, a waiter and a task in between; `MaxRecursion` of
two tells a nested give from the last one; two mutexes give back orders. The
application may deadlock on two mutexes, so of the runs of `Mutex` only `mutex` checks for deadlock.
`mutex_nested` uses finite block times only; those without an end and none at
all are in `mutex`.

In `services` the calls of an event group are few and chosen to meet: an event
that its waiter consumes, the same event with or without the arrival of the
third task, and the rendezvous of all three. `QueueSet` has a set as long as its
members together, which the documentation requires, and `RemovalsRace` is off;
lock counts are capped by three tasks. In `Semaphore` a count of two and three
tasks let a give be counted twice on a lock while two wait. In `SMP` the calls
are divided between the two builds, and affinities differ in only one of them.
In `clocked` the turn of the tick count is longer than any period and lag
together, without which the timers cannot tell the turns (see the observations);
`MaxUnchecked` lets a call go unchecked for a whole turn. Periods of one and of
three put an expiry in front of and behind each wrap. Eight words and four lines
give each line two tags, and three tags a third block for two ways.
`MaxPended` of two puts a tick before the sleep and one after it.

**Fairness.** In `scheduler_live` the masked loops run to their end, requested
interrupts are served (strongly fair, for they are masked again and again), and
a task that keeps getting the processor gets through the API function it is in
and resumes the scheduler it suspended. Nothing forces a task to call anything,
and nothing forces a low-priority task to run. In `queue_live` all tasks have
one priority and a task that can go on with a call eventually does; that is the
scheduler's time slicing (`TimeSlicing`), and strong because other tasks
suspend the scheduler now and then.

In `mutex` a task that keeps running goes on with its call and gives back
what it took, equal tasks share, and the tick ends delays. Nothing is assumed
of a task that is ready but of a lower priority: the middle task may run for
ever, and without inheritance it starves the holder.

**What the properties say.** `ClockSound` has four parts: the next unblock time
is not later than the first wake time, every delayed task has its true wake
time in the right list, none is late, and the list that is switched away is
empty. With `TickNeverWakesEarly` it says that a delay ends at its tick, across
wraps and whatever is aborted, suspended or deleted meanwhile. `HighestRuns` is
preemption, with the exact list of reasons why it may be deferred.
`NothingLeftPending` and `SuspensionProtectsLists` are the contract of a
suspension. `ReceiversWoken` counts: while a receiver waits, there are at least
as many readers on their way as there are items, or the lock count owes them; a
lost wake-up breaks that at once, where the liveness form needs fairness to see
it; `TakersWoken` is the same for semaphores. `NoInversion` holds for one mutex
and fixed priorities, and not beyond: inheritance is not passed on along a chain
of holders, nor when a waiter's priority is raised. With two mutexes a raised
priority may outlive its waiter until the last mutex is given
(`tasks.c:6706`), so `InheritsForAWaiter` is a property of one mutex too.

`GroupSound` says that no task waits for bits that are set, and that a task woken
for its bits is told of bits that satisfy it. `NotifySound`:
a task blocked in a wait was not notified since it looked, and `vTaskResume`
wakes the suspended and none of the waiting. `ItemsAnnounced`: the set has as
many handles of a member as that has items, counting what the locks owe and
tasks have selected; and while more tasks wait than the set's lock owes wake-ups,
each handle has a task on its way to it or such a wake-up. `CoresSound`:
no task runs on two cores, the run state agrees with the cores, no request is
lost, no task is freed that a core runs. `RightTasksRun`: the highest tasks that
may run do, or a request is under way. `BlockTimesExact` compares the code's
verdict with the time that really passed, `ExpiriesCalled` counts the calls of
each timer against its expiries. `CachesRight`: a hit gives the word of the
memory, or the one written last; the way replaced is not the one hit last.
`NoneOversleeps`: a task is awake when its delay has passed although the ticks
stopped, and the processor sleeps only with nobody to run. `ObjectsSound`: what
is allocated is exactly what existing objects and calls in progress have,
whichever allocation failed; the counts agree with the lists; the current task
exists; the registry has no entry of a deleted queue. `ReportsTrue`: a report has
every task once, in a state that it was in while the scheduler was suspended, and
does not exceed an array as long as the count that was read first; the text fits
its buffer; a deleted task is found by its name only when no other has the name;
and `eTaskGetState` answers a state that the task was in, but may confuse blocked
and suspended for a task that is woken during the call.

### Findings

* `queue_abort`: `xTaskAbortDelay` leaves `ucDelayAborted` for
  `xTaskCheckForTimeOut`. A task whose item arrives just then is served before
  it checks; the flag stays, and the first check of its next blocking call
  reports a time-out although no wait of that call was aborted
  (`tasks.c:5552-5556`). `prvAddCurrentTaskToDelayedList` clears the flag, but
  only after that check.
* `mutex_switch`: `xTaskPriorityDisinherit` says of its result that "a context
  switch should occur when the last mutex is returned whether a task is waiting
  on it or not" (`tasks.c:6748-6750`). `xQueueGenericSend` looks at the result
  only when no task waits (`queue.c:1056`). A high task that has timed out is
  ready beside the holder that still has its priority; the holder gives the
  mutex while a low task waits; the low task needs no switch, and the holder goes
  on at its own priority in front of the ready high task. The tick switches
  for tasks of the running priority only.
* `mutex_bitmap`: `vTaskPriorityDisinheritAfterTimeout` resets the bit of the
  priority that it has just assigned (`tasks.c:6851`), not of the ready list it
  has emptied. The assertion of `taskSELECT_HIGHEST_PRIORITY_TASK`
  (`tasks.c:226`) fails when that list is selected. It takes two mutexes: the
  task that times out has itself inherited a higher priority meanwhile, so that
  it is not in the list either.

* `arbiter`: the comment of `create_dualcore_model.m:79` says "Return path: to
  chosen requester". The switches `sel_c1load` and `sel_c1state` pass zeros while
  core 1 asks and the memory's answer while it does not, and nothing is connected
  to `not_c1req`, so the answer for core 2 arrives at core 1 and core 2 gets
  nothing at any time. (`README.md:24-25` and `:62` of the repository speak of
  round-robin and fairness; core 1 has a fixed priority.)

### Observations

Not disagreements that a run settles, but worth knowing.

* Scheduler. `vTaskPrioritySet` changes the value of the event item of a waiting
  task where it stands (`tasks.c:2897`), so an event list is in priority order
  (`tasks.c:5354-5355`) only while no priority is set; `scheduler_live` checks it
  without. A task deleted inside a call leaks what the call had allocated.
  `vTaskDelete` of the task in `pxCurrentTCB` before the scheduler is started
  frees it and leaves `pxCurrentTCB` (with `EarlyDeletes` true `ObjectsSound`
  fails).
* Queues. `xQueueGenericReset` wakes one sender even when it makes room for more
  (`queue.c:330-335` says so); the runs that check `SendersWoken` make no resets.
  `vTaskPriorityDisinheritAfterTimeout` asserts that a task never disinherits
  from itself (`tasks.c:6815-6818`); a holder that inherited and then waits for
  its own mutex may fail the assertion, for `xTaskPriorityInherit` compares with
  its base priority (`tasks.c:6652`). `Mutex` has no task wait for itself.
* Queue sets. `xQueueRemoveFromSet` tests that the queue is empty before its
  critical section (`queue.c:3241`): with `RemovalsRace` true an item that an
  interrupt sends in between is announced by a handle that is in the set after
  the removal. A lock count stops at the number of tasks (`queue.c:278`); with one
  task and the idle task a member that gets three items while it is locked
  announces two, although `queue.h:1665-1667` asks only for the length of the set.
* Reports. `vTaskListTasks` says that it takes a snapshot of the number of tasks
  (`tasks.c:7257`), and reads the number again to allocate the array
  (`tasks.c:7267`); `vTaskGetRunTimeStatistics` does the same (`tasks.c:7428`,
  `:7436`). If a task is deleted between the two reads and one created before the
  lists are walked, one entry is written behind the array: the last conjunct of
  `ReportExact` fails without its premise. A percentage is the counter divided
  by a hundredth of the total that was itself rounded down (`tasks.c:7444`,
  `:7455`), so that it is not always "rounded down" (`tasks.c:7453`): 199 of 199
  are 199 per cent. `eTaskGetState` reads the event item a second time outside of
  its critical section (`tasks.c:2537`).
* Registry. `vQueueAddToRegistry` chooses an entry and writes it without a lock
  (`queue.c:3024`); of two calls at once one registration may be lost.
* Block times. `xTaskCheckForTimeOut` misjudges a call that is not checked for
  more than a turn of the count. A task aborted in `xTaskDelayUntil` runs ahead
  of its period until time catches up.
* Timers. Period and lag together must be less than a turn of the count. Without
  an end of commands the service task never looks at the timers again. It changes
  `ucStatus` by a read and a write outside of a critical section (`timers.c:740`,
  `:1005`, `:1017`, `:1034`), in which `vTimerSetReloadMode` (`timers.c:580-591`)
  may come; the model takes each as one step.
* SMP. Narrowing the mask of a ready task, for which a core was just asked to
  yield, may leave it waiting until the next tick; of two overlapping requests
  with masks the second may take the core that was asked for the first, which
  then waits although another core idles; where all cores run one priority,
  raising a task that is about to be put out leaves a core idle until the next
  tick. `RightTasksRun` is stated up to these (`bound`) and to the next tick.
* Statistics. The percentages of `vTaskGetRunTimeStatistics` may add up to more
  than a hundred, for a running task's time is counted at different moments.
* Caches. The write-back of `DCacheSys.m` puts out neither address nor data
  (`README.md:22` claims write-through). `SharedCacheSys.m` never marks a line
  valid, uses `C2_wen`, which is not defined, and lets one miss address overwrite
  the other (line 44). `ICacheSys.m` takes the tag from the present address at the
  end of a miss, so the core has to hold the address.
* Arbiter. `arbiter_block.m`, which no script uses, prefers core 0 and returns
  write data as read data.

## 4. Proofs

A theorem holds for every value of the constants that its module's assumption
admits; these say what the code takes for granted (there is an idle task, the
number of tasks is finite, lengths and priorities are natural numbers, a handle
is not `NULL`). The same properties are checked by the runs on small instances.

`ListRingProofs` proves what each list operation does to the items, to the
length, to the order and to the absence of duplicates, for every list; the other
proofs cite it.

### Scheduler

From `SchedulerAssumption` alone: any number of tasks and priorities, any tick
width, both ways of selecting, any bounds of the model.

| Theorem | Property |
|---|---|
| `SchedulerInvariant` | `IInv`, the inductive invariant |
| `SchedulerTypeOK` | `TypeOK` |
| `TasksInOneStateList` | `OneStateList` |
| `TasksOnOneEventList` | `EventItemsSound` |
| `TopPriorityInvariant` | `TopPriorityRecorded` |
| `TaskCountInvariant` | `TaskCountExact` |
| `InterruptsOnlyPend` | `SuspensionProtectsLists` |
| `NothingForgotten` | `NothingLeftPending` |
| `HighestTaskRuns` | `HighestRuns` |
| `DelaysOnTime` | `ClockSound` |
| `DelaysRunOut` | `TickNeverWakesEarly` |
| `HighestWaiterFirst` | `EventListInPriorityOrder`, if no priority is set |

None of the first six is inductive alone. That a removal from "the list that holds the
task" leaves the task in one list needs `OneStateList`; that a switch finds a
ready task needs the idle task to be ready at all times, for which no call may
block or delete it, so the invariant follows each task's place in its API
function; that the suspension depth never goes below zero needs the places at
which a task holds a suspension; that a task in `xPendingReadyList` may be
moved needs it to be blocked still, which is `EventItemsSound`; and the bitmap
is exact only if each ready list holds tasks of its own priority. `IInv` is the
conjunction of these parts. `InitIInv` and one lemma per action (each with one
step per part the action disturbs) give `NextIInv`, and the theorems follow by
temporal reasoning. The proofs know the ready lists through opaque predicates
(`ReadyOK`, `Inserted`, `ListsOK`), whose own lemmas are the only ones that look
inside a ring.

The second half of `SchedulerProofs` adds to `IInv` one invariant for each duty. `Pending` says
at which points of the masked loops the pended tasks and ticks are gone.
`Highest` strengthens `HighestRuns` to hold in suspensions and inside the loops,
where a switch may so far only be noted (`Asked`: in `xYieldPending`, in
`switchRequired` or as a requested interrupt). `Clock` adds to `ClockSound` that
no delay is overdue (`NotOverdue`); each action is then a case of how the wake
times, which are taken modulo the width of the count, move against the count.
`Ordered` is the order of the whole event list, of which the property names only
the head; its hypothesis is not for the proof's convenience, for
`vTaskPrioritySet` changes the value of a waiting task's item where it stands.

### Queue

From `QueueAssumption`: any finite set of tasks of any priorities, any length,
any calls and block times.

| Theorem | Property |
|---|---|
| `QueueInvariant`, `QueueType` | `Inv`, `TypeOK` |
| `QueueLocks` | `LockedBySuspender` |
| `QueueReceiversWoken` | `ReceiversWoken` |
| `QueueSendersWoken` | `SendersWoken`, if the queue is not reset |
| `QueueImplementsFifo` | `ImplementsFifo` |

`Inv` says which places of a call hold the scheduler's suspension, that a task
waits in one list that fits its call, and (`AboutToWait`) that between a task's
last look at the queue and its placement on the list interrupts have counted in
the lock what they changed, up to the number of tasks, at which a lock stops.
That cap is why the wake-ups need the number of waiting tasks to be bounded by
that of all tasks. The wake-up theorems count: they compare the cardinality of
the set of tasks that will try with the items, before and after each action. A
reset wakes one sender for many places (`queue.c:330-335`), so `SendersWoken`
has that hypothesis. The refinement needs `PointersAgree`: the two positions in
the buffer are apart by the number of items, modulo the length; then each of
send to the back, to the front, overwrite, receive and reset is the operation
of the abstract sequence, and every other step changes nothing of it.

### Semaphores and queue sets

From `ServicesAssumption` and `QueueSetAssumption`: any tasks of any priorities,
any maximum and initial count; any members of any lengths, overwritten or not.

| Theorem | What it states |
|---|---|
| `ServicesTakersWoken` | `TakersWoken` of the semaphore of `MCServices` |
| `SetItemsAnnounced` | `EachItemAnnounced` and `SelectorsWoken` of `QueueSet`, if `WellUsed` |

The proof about semaphores, in `ServicesProofs`, is that of the receivers of a
queue, with waiters in priority order.

For a queue set the number of its handles of a member, plus what the member's
lock owes, plus those that tasks have selected and not yet used, is the number
of the member's items. Each action changes two of these together.
`prvNotifyQueueSetContainer` sends nothing when the set is full
(`queue.c:3322-3324`), and that it never is follows from the counts only if the
set is as long as all its members together, as `queue.h:1665-1667` asks; this is
the first condition of `WellUsed`. The other two are the observations about queue
sets in section 3: no member is longer than the number of tasks, at which a lock
stops counting, and nothing is sent to a member while `xQueueRemoveFromSet` looks
whether it is empty. Without them the property is false of the code; the run
meets all three. Who waits for a handle is counted as for queues, with one lock
more: the unlock of a member may announce into a set that another task has
locked.

### Several cores

From `SMPAssumption`: any number of cores, each with an idle task of its own at the
lowest priority, any finite set of other tasks, any priorities and masks, any calls,
either build.

| Theorem | What it states |
|---|---|
| `CoresAreSound` | `CoresSound` of `SMP` |

`CoresSound` is about the whole kernel record, so the invariant is too. `Sound`
says that the record is well formed: a ready list holds each of its tasks once and
they are ready, the idle tasks are always in the lowest list and may run anywhere
(without which `prvSelectHighestPriorityTask` might find nobody), tasks that
interrupts readied are still suspended, tasks in `xTasksWaitingTermination` are
deleted; and run states and cores name each other (`RunsKept`). `CoreKept` says of
each core what it still owes: if its task was asked to yield the interrupt is on
its way, if its task may not run there any more, or is deleted, a yield is pending.

A critical section is a composition of functions on the record, so the proof has a
relation between the record before and after in place of a lemma per action:
`Keeps(self, k, l)` says that no core runs another task, that whoever was asked
to yield gets the interrupt, that no request is taken back and that a core whose
task may no longer stay is asked. It is reflexive and composes (`KeepsOn`), and each
function is shown to keep it (`YieldKeeps`, `MovesKeep`, `UnblockReaches`,
`TickReaches`). The three recursive functions (the tasks that wake at a tick, those
that `xTaskResumeAll` readies, the ticks it replays) are followed by an induction
over the number of their steps (`Iteration`, `StepByStep`). Only the switch runs
another task; there `ChosenMayRun` and `IdleLeft` show that a task is always found
which no other core runs and whose mask admits the core.

### The parts of `MCServices`

From `EventGroupAssumption` and `ServicesAssumption`.

| Theorem | Property |
|---|---|
| `EventGroupType`, `EventGroupSound` | `TypeOK`, `GroupSound` |
| `EventGroupImplementsBarrier` | `ImplementsBarrier`, if `Undisturbed` |
| `ServicesNotifySound` | `NotifySound` |
| `ServicesTakersWoken` | `TakersWoken` |
| `ServicesItemsAnnounced` | `ItemsAnnounced`, if `WellUsed` |
| `ServicesCoresSound` | `CoresSound` |

The invariant of an event group is that the event item of a waiting task holds
what it called for and is not satisfied by the bits, and that a woken task's
item holds bits that satisfy it. `Undisturbed` says that no other call sets the
bits of the rendezvous, or waits for them and clears them: an application that
does so lets a task pass the rendezvous early or miss it.

That of the notifications (`NotifyInv`) says where a task has suspended the
scheduler, that a task waits for the index of its call only, from its test until
it returns, and that between the test and the block either the state is still
`taskWAITING_NOTIFICATION` or an interrupt has put the task on
`xPendingReadyList`; so that the resumption of the scheduler makes it ready
again.

The last two take what was proved of `QueueSet` and `SMP` to the instances in
`MCServices`, of which `SMP` has two: the lemmas `Same...`, `Many...` and `One...`
show that each operator of these instances is that of the module of the proof, and
`ServicesInv` that each part keeps its own invariant while the others rest. Here the
cores are one or two, because `IdleOf` names two idle tasks.

### Mutex

From `MutexAssumption`: any tasks, mutexes and priorities, recursive or not,
both ways of selecting.

| Theorem | Property |
|---|---|
| `MutexInvariant`, `MutexType` | `Inv`, `TypeOK` |
| `MutexExclusion` | `MutualExclusion` |
| `MutexBasePriority` | `BasePriorityKept` |
| `MutexOneList` | `OneList` |
| `MutexSought` | `FreeMutexIsSought` |
| `MutexNoInversion` | `NoInversion`, if `OneMutex` and `PrioritiesStay` |
| `MutexInherits` | `InheritsForAWaiter`, if `OneMutex` and `PrioritiesStay` |

`Inv` has the parts `Placement` (each task in the list of its present priority,
waiters blocked), `Running`, `Holding` (who holds, counts and may have returned)
and `Sought` (a free mutex with waiters has a task on its way to it).
Inheritance needs more: `EventOrder`, `FreeForTheHighest` (the task that takes a
free mutex is not below those who still wait, so a new holder has not to
inherit), `Reason` (for each raised priority there is a task that accounts for
it) and `Noted` (a waiter above the holder's base priority knows that the holder
inherited, and will take it back). `OneMutex` and `PrioritiesStay` exclude what
the code does not do: inheritance is not passed on along a chain of holders, and
a waiter whose priority is raised does not pass it on.

### Caches, block times, the tickless idle task, objects, reports and timers

From `ClockedAssumption`, `BlockTimeAssumption`, `HandlesApart`, `ReportsAssumption` and
`TimersAssumption`: a delay is shorter than a turn of the count and not zero (`tasks.c:2443`),
`configEXPECTED_IDLE_TIME_BEFORE_SLEEP` is at least two (`FreeRTOS.h:2698-2700`),
handles of different things differ, there is a highest priority, there are
finitely many tasks, a name has at least its end (`FreeRTOS.h:364-366`), periods
are not zero (`timers.c:425`, `:1040`), and a period and the lag of the service task
are together less than a turn of the count, without which the code cannot tell the
turns (section 3). What `snprintf` returns may be any integer.

| Theorem | Property |
|---|---|
| `CachesGiveTheMemory` | `CachesRight` |
| `BlockTimesKept` | `BlockTimesExact` |
| `SleepersWake` | `NoneOversleeps` |
| `ObjectsAccounted` | `ObjectsSound` |
| `ReportsExact` | `ReportsTrue` |
| `EveryExpiryIsCalled` | `ExpiriesCalled` |

For the instruction cache the invariant is that each valid line but the one
being filled has the pair of an address with its index and tag; for the data
cache that a miss goes on for an access that no line holds, that its way is the
victim chosen when it began, and that whatever no dirty line holds is as in
memory. Block times need that the time since a `TimeOut_t` was set is the
difference of the counts with at most one wrap, which is counted, and periods
that the previous wake-up was `lag` ticks ago, modulo the width of the count.

The invariant of the tickless idle task (`TicklessInv`) is that the distance of
the count from each wake time is what remains of the delay plus the ticks the
count lacks, pended or slept (`OnTime`), and that the idle task sleeps at most
up to the first wake time, with nothing ready and nothing pended. Sleeping moves
a tick from what remains to what was slept, `vTaskStepTick` from there to the
count and to one pended tick, and `xTaskResumeAll` applies the pended ticks: the
lemma `ResumedOnTime` about its recursive function is an induction over their
number, by way of the least number for which it would fail (`Smallest`,
`StepByStep`), since `WFMin` of the library has a set for its parameter where
`NatInduction` has an operator.

`ObjectsSound` speaks of a union over all calls in progress, which no step
preserves by itself. `ObjectsInv` says for each part of each handle when it is
allocated (`PartsKept`: exactly when its owner exists, or when somebody has it in
his hands at a place that implies it); that nobody else has it (`OneHolder`);
what may be in whose hands (`HandsKept`: a task that is being created or freed
does not exist, a queue that is being registered does, and any entry it has is
the one chosen); that the tasks that wait for the idle task are those that
deleted themselves, each once (`WaitingKept`, `ActorsKept`), so that whoever runs
but has not deleted itself is in a list; and that the timer queue is registered at most
once (`RegistryKept`). The proof has a lemma for each way a handle moves: taken
when nobody has it, kept, given away. Deletions before the scheduler is started
are excluded (`EarlyDeletes`).

A report is exact because interrupts, while the scheduler is suspended, move no
state item: they can only make a task pending (`WhileFrozen`). So the tasks that
are in the report are those of the lists passed so far and the visited ones of
the present list (`InReport`), as many as `uxTask` (`ReportHolds`), and after the
last list they are all (`WalkEnds`). What is remembered of a task between two
reads stays its state unless it has become pending, which the last read sees
(`InfoStep`). `eTaskGetState` reads outside of the critical section, so its
invariant (`AnswerHolds`) is about the past: unless the task was ready or
suspended in the meantime, it still waits for what it waited for (`AskedTask`).
For `xTaskGetHandle` it is that no list searched so far has the name.

The invariant of the timers (`TimersInv`) reads the count as two turns: `TimersNow`
is the time since the start of the turn in which the service task last sampled it.
`ListsKept` says that both lists are in order and share no timer, that exactly the
active timers are in them but for the one whose command is being handled, that a
timer in the current list is due at its item's value and one in the overflow list a
turn later, and that neither is later than a period after the last sample.
`ServiceInTime` bounds the time since then by a turn less the lag, so that a wrap is
noticed before the count passes the last sample again; while the service task
sleeps this rests on `ServiceAsleep` (the wake time is the first expiry, or the wrap)
and on `TimersAssumption`. `DeletedTimers` says of a deleted timer that its deletion
is the last message for it, so that its handle comes back to nobody. The proof goes
through the functions of `timers.c` as through those of `SMP`: inserting
(`InsertKeeps`), reloading, with all expiries that were missed in one step
(`Reloaded`, `ExpiresKeeps`), the expiry of the first timer (`ProcessKeeps`) and the
switch of the lists, an induction over the timers of the old one (`AllExpire`,
`SwitchKeeps`).

### Checked by TLC only

`RightTasksRun` in `services`. It holds when no yield is under way; an invariant
that implies it has to count, at every priority, the ready tasks that no core runs
against the cores that are below it or still asked to yield, through every function
of the kernel, and is not proved. Liveness under fairness and `ENABLED` are beyond
the proof system.

## 5. Not modelled, and why

* MPU, trace hooks, thread-local storage, the counting of run time, the functions
  that only return a field: without effect on what the properties speak of. Co-routines: no file of the repository has
  their scheduler.
* `SMP`, `Tickless` and `prvCreateRestrictedTask` stand for code that both
  configurations leave out: `FreeRTOS.h:95-97` makes `configNUMBER_OF_CORES` one,
  although the repository speaks of two cores, and `configUSE_TICKLESS_IDLE`
  and `portUSING_MPU_WRAPPERS` are zero.
* The ports. The X86 port is stubs over a scheduler that is not in the
  repository. The MIPS port's critical sections, interrupt save and restore and
  context switch are macros of `crit_task.h`, `int_handler.h` and
  `ISR_Support.h`, which are not in the repository either, so neither the
  nesting nor the lazy floating-point context can be modelled faithfully; the
  models use of it that a yield is an interrupt request and that critical
  sections mask interrupts.
* The applications and drivers are straight lines of calls, and the mailbox that
  the tasks use (`intercore_communication.h`) is not in the repository. What can
  go wrong in the drivers is under the hazards.
* `semphr.c` of X86: it defines functions under names that `semphr.h` defines
  as macros.
* The pipeline and the scripts that draw blocks: combinational functions without
  state; stalls and forwarding against a sequential reference are planned.
* The restricted wait of the timer task, and a task that waits for a mutex being
  deleted, suspended or aborted.

## 6. Plan

1. Proof of `RightTasksRun`.
2. `Mutex` with deletion, suspension and abort of waiters.
3. `LinkedList`: the nodes of `list.c` as a refinement of `ListRing`.
4. The pipeline's stalls and forwarding; the RAM multiplexer of
   `build_core_only_v2.m`.
5. The UART and GPIO drivers with their interrupts.
