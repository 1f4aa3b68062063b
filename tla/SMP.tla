-------------------------------- MODULE SMP --------------------------------
(* The scheduler of tasks.c as it is built for several cores, that is with   *)
(* configNUMBER_OF_CORES > 1, core affinity and preemption that a task can   *)
(* disable (configRUN_MULTIPLE_PRIORITIES selects between two builds).       *)
(* kernel is the data that the task lock and the interrupt lock protect: a   *)
(* critical section is one step of the core that runs it.  vTaskSuspendAll   *)
(* keeps the task lock, so that between two steps of the suspending core     *)
(* only interrupts run.  The port's inter-core interrupt is irq.             *)
EXTENDS Integers, FiniteSets, SequencesExt

CONSTANTS
  Core,                            \* 0 .. configNUMBER_OF_CORES - 1
  Worker,                          \* the tasks of the application
  Idle,                            \* the idle tasks, by core
  Priorities,                      \* that a worker may be given
  Affinities,                      \* sets of cores
  SmpCalls,                        \* the functions that workers call
  NoCore,
  configRUN_MULTIPLE_PRIORITIES,
  MaxPendedTicks                   \* bound: ticks while the scheduler is suspended

taskTASK_NOT_RUNNING == -1
taskTASK_SCHEDULED_TO_YIELD == -2

IdleTasks == {Idle[c] : c \in Core}
Thread == Worker \cup IdleTasks
Levels == Priorities \cup {0}

VARIABLES
  kernel,
    \* pxReadyTasksLists, uxTopReadyPriority, pxCurrentTCBs, xTaskRunState,
    \* xYieldPendings, irq; uxPriority, uxCoreAffinityMask and
    \* xPreemptionDisable of the tasks; the list of each task's state item;
    \* xPendingReadyList and xTasksWaitingTermination
  uxSchedulerSuspended,            \* the core that suspended it, or NoCore
  xPendedTicks,
  pc,                              \* of each task
  bound                            \* history: a mask that excludes a core was set

vars == << kernel, uxSchedulerSuspended, xPendedTicks, pc, bound >>
suspension == << uxSchedulerSuspended, xPendedTicks >>

\* vTaskStartScheduler with all tasks created: the idle tasks run, and yield.
Init ==
  /\ kernel \in
      [pxReadyTasksLists :
         {[p \in Levels |-> IF p = 0 THEN SetToSeq(IdleTasks) ELSE << >>]},
       uxTopReadyPriority : {0},
       pxCurrentTCBs : {Idle},
       xTaskRunState :
         {[t \in Thread |-> IF t \in Worker THEN taskTASK_NOT_RUNNING
                          ELSE CHOOSE c \in Core : Idle[c] = t]},
       xYieldPendings : {[c \in Core |-> FALSE]},
       irq : {[c \in Core |-> FALSE]},
       uxPriority : {[t \in Thread |-> 0]},
       uxCoreAffinityMask : {[t \in Thread |-> Core]},
       xPreemptionDisable : {[t \in Thread |-> FALSE]},
       xStateList : {[t \in Thread |-> IF t \in Worker THEN "none" ELSE "ready"]},
       xPendingReadyList : {<< >>},
       xTasksWaitingTermination : {<< >>}]
  /\ uxSchedulerSuspended = NoCore
  /\ xPendedTicks = 0
  /\ pc = [t \in Thread |-> "app"]
  /\ bound = FALSE
-----------------------------------------------------------------------------
(* The functions that a critical section is built from, on the kernel k.    *)

Running(k, t) == k.xTaskRunState[t] \in Core

\* The priority of what a core runs; an idle task is below any other task.
CorePriority(k, c) ==
  LET t == k.pxCurrentTCBs[c]
  IN IF t \in IdleTasks THEN k.uxPriority[t] - 1 ELSE k.uxPriority[t]

\* The core of S that runs the lowest priority, the last one of several.
LowestCore(k, S) ==
  CHOOSE c \in S : \A d \in S :
    \/ CorePriority(k, c) < CorePriority(k, d)
    \/ CorePriority(k, c) = CorePriority(k, d) /\ d <= c

\* A fault: a core that has a yield pending is asked again.
F_AskedTwice(k, c) ==
  /\ Running(k, k.pxCurrentTCBs[c])
  /\ ~k.xPreemptionDisable[k.pxCurrentTCBs[c]]

\* Whether core c may be asked to yield to another task.
Preemptible(k, c) ==
  /\ Running(k, k.pxCurrentTCBs[c])
  /\ ~k.xYieldPendings[c]
  /\ ~k.xPreemptionDisable[k.pxCurrentTCBs[c]]

\* The other cores of S that were not asked to yield before.
Unasked(k, self, S) ==
  {c \in S \ {self} : k.xTaskRunState[k.pxCurrentTCBs[c]] # taskTASK_SCHEDULED_TO_YIELD}

\* prvYieldCore of each core of S: the core itself notes it, another one is
\* interrupted.
YieldCores(k, self, S) ==
  LET asked == Unasked(k, self, S)
  IN [k EXCEPT
        !.xYieldPendings = [c \in Core |-> @[c] \/ (c = self /\ c \in S)],
        !.irq = [c \in Core |-> @[c] \/ c \in asked],
        !.xTaskRunState = [t \in Thread |->
                             IF \E c \in asked : k.pxCurrentTCBs[c] = t
                             THEN taskTASK_SCHEDULED_TO_YIELD ELSE @[t]]]

prvYieldCore(k, self, c) == YieldCores(k, self, {c})

prvYieldForTask(k, self, t) ==
  LET wanted ==
        IF configRUN_MULTIPLE_PRIORITIES THEN ~Running(k, t)
        ELSE k.uxPriority[t] >= k.uxTopReadyPriority
      eligible ==
        {c \in k.uxCoreAffinityMask[t] :
           /\ Preemptible(k, c) /\ ~Running(k, t)
           /\ CorePriority(k, c) < k.uxPriority[t]}
      lower ==
        {c \in Core :
           /\ ~configRUN_MULTIPLE_PRIORITIES
           /\ Running(k, k.pxCurrentTCBs[c]) /\ ~k.xYieldPendings[c]
           /\ CorePriority(k, c) \in 0 .. k.uxPriority[t] - 1}
  IN IF ~wanted THEN k
     ELSE IF lower # {} THEN YieldCores(k, self, lower)
     ELSE IF eligible # {} THEN prvYieldCore(k, self, LowestCore(k, eligible))
     ELSE k

\* uxListRemove, if t is in the list.
Without(list, t) ==
  IF t \in ToSet(list)
  THEN RemoveAt(list, CHOOSE i \in 1..Len(list) : list[i] = t) ELSE list

RemoveReady(k, t) ==
  [k EXCEPT !.pxReadyTasksLists = [p \in Levels |-> Without(@[p], t)]]

prvAddTaskToReadyList(k, t) ==
  [k EXCEPT !.pxReadyTasksLists[k.uxPriority[t]] = Append(@, t),
            !.uxTopReadyPriority = IF k.uxPriority[t] > @ THEN k.uxPriority[t] ELSE @,
            !.xStateList[t] = "ready"]

\* uxListRemove on the state list item and the event list item, and the list
\* that the state list item goes to.
MoveTo(k, t, list) ==
  [RemoveReady(k, t) EXCEPT !.xStateList[t] = list,
                            !.xPendingReadyList = Without(@, t)]
-----------------------------------------------------------------------------
(* The choice of the next task of a core.                                   *)

\* The running task goes to the end of its list, if it is ready.
Requeue(k, c) ==
  LET t == k.pxCurrentTCBs[c]
  IN IF k.xStateList[t] = "ready"
     THEN [RemoveReady(k, t) EXCEPT !.pxReadyTasksLists[k.uxPriority[t]] = Append(@, t)]
     ELSE k

\* The highest level at which a task is ready, no higher than the recorded one.
TopLevel(k) ==
  LET ready == {p \in Levels : p <= k.uxTopReadyPriority /\ k.pxReadyTasksLists[p] # << >>}
  IN CHOOSE p \in ready : \A q \in ready : q <= p

\* Whether core c may run the ready task t of level p.
MayRun(k, c, p, t) ==
  /\ k.xTaskRunState[t] = taskTASK_NOT_RUNNING \/ t = k.pxCurrentTCBs[c]
  /\ c \in k.uxCoreAffinityMask[t]
  /\ configRUN_MULTIPLE_PRIORITIES \/ p = TopLevel(k) \/ t \in IdleTasks

\* The levels at which core c finds a task.
Candidates(k, c) ==
  {p \in Levels : /\ p <= TopLevel(k)
                  /\ \E t \in ToSet(k.pxReadyTasksLists[p]) : MayRun(k, c, p, t)}

\* The first task of the highest of them.
Chosen(k, c) ==
  LET p == CHOOSE p \in Candidates(k, c) : \A q \in Candidates(k, c) : q <= p
      list == k.pxReadyTasksLists[p]
  IN list[Min({i \in 1..Len(list) : MayRun(k, c, p, list[i])})]

\* Core c runs t from now on.
Dispatch(k, c, t) ==
  [k EXCEPT !.xTaskRunState =
              [@ EXCEPT ![k.pxCurrentTCBs[c]] = taskTASK_NOT_RUNNING, ![t] = c],
            !.pxCurrentTCBs[c] = t]

\* The cores to which the task that core c stopped may move: not one on which
\* the task that replaced it could have run instead.
MayTakeOver(k, c, prev) ==
  IF c \in k.uxCoreAffinityMask[prev]
  THEN k.uxCoreAffinityMask[prev] \ k.uxCoreAffinityMask[k.pxCurrentTCBs[c]]
  ELSE k.uxCoreAffinityMask[prev]

PriorityOf(k, t) == IF t \in IdleTasks THEN k.uxPriority[t] - 1 ELSE k.uxPriority[t]

\* The task that core c stopped moves to a core that runs a lower priority.
PassOn(k, c, prev) ==
  LET lower == {d \in MayTakeOver(k, c, prev) :
                  Preemptible(k, d) /\ CorePriority(k, d) < PriorityOf(k, prev)}
  IN IF prev # k.pxCurrentTCBs[c] /\ k.xStateList[prev] = "ready" /\ lower # {}
     THEN prvYieldCore(k, c, LowestCore(k, lower))
     ELSE k

\* When the top level dropped, every idle core looks for a task at the new one.
WakeIdleCores(k, c, dropped) ==
  IF dropped /\ ~configRUN_MULTIPLE_PRIORITIES
  THEN YieldCores(k, c, {d \in Core : k.pxCurrentTCBs[d] \in IdleTasks})
  ELSE k

prvSelectHighestPriorityTask(k, c) ==
  LET r == Requeue(k, c)
      found == [r EXCEPT !.uxTopReadyPriority = TopLevel(r)]
      dispatched == Dispatch(found, c, Chosen(r, c))
      woken == WakeIdleCores(dispatched, c, TopLevel(r) < k.uxTopReadyPriority)
  IN IF Candidates(r, c) = {} THEN found
     ELSE PassOn(woken, c, k.pxCurrentTCBs[c])
-----------------------------------------------------------------------------
(* Ticks.  The tick at which a delay ends is any; the tasks of W wake.      *)

Delayed(k) == {t \in Thread : k.xStateList[t] = "delayed"}

Unblock(k, self, t) ==
  prvYieldForTask(prvAddTaskToReadyList(MoveTo(k, t, "ready"), t), self, t)

\* The cores that must switch after a tick: a task of equal priority is ready,
\* or a yield is pending.
SwitchRequired(k) ==
  {c \in Core :
     /\ ~k.xPreemptionDisable[k.pxCurrentTCBs[c]]
     /\ \/ Len(k.pxReadyTasksLists[k.uxPriority[k.pxCurrentTCBs[c]]]) > 1
        \/ k.xYieldPendings[c]}

\* The tasks of W wake, one after another.
AfterUnblocking(k, self, W) ==
  LET after[n \in 0..Len(W)] ==
        IF n = 0 THEN k ELSE Unblock(after[n - 1], self, W[n])
  IN after[Len(W)]

xTaskIncrementTick(k, self, W) ==
  LET woken == AfterUnblocking(k, self, W)
  IN YieldCores(woken, self, SwitchRequired(woken) \ {self})

TickSwitches(k, self, W) == self \in SwitchRequired(AfterUnblocking(k, self, W))

\* The orders in which tasks may wake at one tick.
Wakings(k) ==
  UNION {{W \in [1..n -> Delayed(k)] : IsInjective(W)} : n \in 0..Cardinality(Delayed(k))}
-----------------------------------------------------------------------------
(* The steps of a core.                                                     *)

Current(c) == kernel.pxCurrentTCBs[c]

\* A task that was asked to yield lets the interrupt in before it proceeds.
MayProceed(c) == kernel.xTaskRunState[Current(c)] # taskTASK_SCHEDULED_TO_YIELD

\* vTaskEnterCritical waits for the task lock.
Enters(c) ==
  /\ pc[Current(c)] = "app" /\ MayProceed(c)
  /\ uxSchedulerSuspended = NoCore

\* vTaskExitCritical on core c, with k in the kernel.
Exits(c, k) ==
  /\ kernel' = k
  /\ pc' = [pc EXCEPT ![Current(c)] = IF k.xYieldPendings[c] THEN "yield" ELSE "app"]

\* Function f is called on core c by a worker or the hook of the idle task.
Calls(c, f) ==
  f \in SmpCalls /\ Enters(c) /\ Current(c) \in Worker \cup {Idle[0]}

Alive(t) == kernel.xStateList[t] \notin {"none", "termination"}

vTaskSuspend(c, t) ==
  LET k == MoveTo(kernel, t, "suspended")
  IN /\ Calls(c, "suspend") /\ Alive(t)
     /\ Exits(c, IF Running(k, t) THEN prvYieldCore(k, c, k.xTaskRunState[t]) ELSE k)
     /\ UNCHANGED << suspension, bound >>

prvTaskIsTaskSuspended(t) ==
  kernel.xStateList[t] = "suspended" /\ ~Contains(kernel.xPendingReadyList, t)

vTaskResume(c, t) ==
  /\ Calls(c, "suspend") /\ prvTaskIsTaskSuspended(t)
  /\ Exits(c, Unblock(kernel, c, t))
  /\ UNCHANGED << suspension, bound >>

\* An interrupt on core c, which takes the interrupt lock only; the handler
\* leaves through portYIELD_FROM_ISR.
ReturnsFromISR(c, k) ==
  /\ kernel' = [k EXCEPT !.irq[c] = @ \/ k.xYieldPendings[c]]
  /\ UNCHANGED pc

xTaskResumeFromISR(c, t) ==
  /\ "suspend" \in SmpCalls /\ prvTaskIsTaskSuspended(t)
  /\ ReturnsFromISR(c,
       IF uxSchedulerSuspended = NoCore
       THEN Unblock(kernel, c, t)
       ELSE prvYieldForTask([kernel EXCEPT !.xPendingReadyList = Append(@, t)], c, t))
  /\ UNCHANGED << suspension, bound >>

\* vTaskPrioritySet of a task without mutexes, at a priority other than its own.
vTaskPrioritySet(c, t, p) ==
  LET ready == kernel.xStateList[t] = "ready"
      raised == p > kernel.uxPriority[t]
      k == [kernel EXCEPT !.uxPriority[t] = p]
      moved == IF ready THEN prvAddTaskToReadyList(RemoveReady(k, t), t) ELSE k
  IN /\ Calls(c, "priority") /\ Alive(t) /\ p # kernel.uxPriority[t]
     /\ Exits(c,
          IF ~raised /\ Running(k, t) /\ ~k.xPreemptionDisable[t]
          THEN prvYieldCore(moved, c, k.xTaskRunState[t])
          ELSE IF raised /\ ready THEN prvYieldForTask(moved, c, t)
          ELSE moved)
     /\ UNCHANGED << suspension, bound >>

vTaskCoreAffinitySet(c, t, S) ==
  LET k == [kernel EXCEPT !.uxCoreAffinityMask[t] = S]
  IN /\ Calls(c, "affinity") /\ Alive(t) /\ S # kernel.uxCoreAffinityMask[t]
     /\ Exits(c,
          IF Running(k, t)
          THEN IF k.xTaskRunState[t] \in S THEN k
               ELSE prvYieldCore(k, c, k.xTaskRunState[t])
          ELSE IF S \subseteq kernel.uxCoreAffinityMask[t] THEN k
          ELSE prvYieldForTask(k, c, t))
     /\ bound' = (bound \/ S # Core)
     /\ UNCHANGED suspension

vTaskPreemptionDisable(c, t) ==
  /\ Calls(c, "preemption") /\ Alive(t) /\ configRUN_MULTIPLE_PRIORITIES
  /\ Exits(c, [kernel EXCEPT !.xPreemptionDisable[t] = TRUE])
  /\ UNCHANGED << suspension, bound >>

vTaskPreemptionEnable(c, t) ==
  LET k == [kernel EXCEPT !.xPreemptionDisable[t] = FALSE]
  IN /\ Calls(c, "preemption") /\ Alive(t) /\ configRUN_MULTIPLE_PRIORITIES
     /\ Exits(c, IF Running(k, t) THEN prvYieldCore(k, c, k.xTaskRunState[t]) ELSE k)
     /\ UNCHANGED << suspension, bound >>

\* A task that no core runs is freed at once, and by the idle task otherwise.
vTaskDelete(c, t) ==
  LET k == [MoveTo(kernel, t, "termination") EXCEPT
              !.xTasksWaitingTermination = Append(@, t)]
  IN /\ Calls(c, "delete") /\ Alive(t)
     /\ Exits(c,
          IF kernel.xTaskRunState[t] = taskTASK_NOT_RUNNING
          THEN MoveTo(kernel, t, "none")
          ELSE IF Running(kernel, t) THEN prvYieldCore(k, c, k.xTaskRunState[t])
          ELSE k)
     /\ UNCHANGED << suspension, bound >>

\* What prvInitialiseNewTask and prvAddNewTaskToReadyList make of a free task.
prvAddNewTaskToReadyList(c, t, p, S) ==
  LET new == [kernel EXCEPT !.uxPriority[t] = p, !.uxCoreAffinityMask[t] = S,
                            !.xTaskRunState[t] = taskTASK_NOT_RUNNING,
                            !.xPreemptionDisable[t] = FALSE]
  IN /\ Enters(c) /\ kernel.xStateList[t] = "none"
     /\ kernel' = Unblock(new, c, t)
     /\ pc' = [pc EXCEPT ![t] = "app",
                         ![Current(c)] = IF kernel'.xYieldPendings[c] THEN "yield" ELSE "app"]
     /\ bound' = (bound \/ S # Core)
     /\ UNCHANGED suspension

\* A fault: a deleted task is freed although a core still runs it.
F_FreesRunning(c) ==
  /\ Enters(c) /\ Current(c) = Idle[0]
  /\ kernel.xTasksWaitingTermination # << >>
  /\ Exits(c, [kernel EXCEPT
                !.xTasksWaitingTermination = Tail(@),
                !.xStateList[Head(kernel.xTasksWaitingTermination)] = "none"])
  /\ UNCHANGED << suspension, bound >>

\* The idle task of core 0 frees the task that waits longest, unless it runs.
prvCheckTasksWaitingTermination(c) ==
  LET t == Head(kernel.xTasksWaitingTermination)
  IN /\ Enters(c) /\ Current(c) = Idle[0]
     /\ kernel.xTasksWaitingTermination # << >>
     /\ kernel.xTaskRunState[t] = taskTASK_NOT_RUNNING
     /\ Exits(c, [kernel EXCEPT !.xTasksWaitingTermination = Tail(@),
                                !.xStateList[t] = "none"])
     /\ UNCHANGED << suspension, bound >>

\* An idle task yields to ready tasks of its priority.
IdleYields(c) ==
  /\ pc[Current(c)] = "app" /\ Current(c) \in IdleTasks
  /\ Len(kernel.pxReadyTasksLists[0]) > Cardinality(Core)
  /\ pc' = [pc EXCEPT ![Current(c)] = "yield"]
  /\ UNCHANGED << kernel, suspension, bound >>

SuspendsAll(c) == MayProceed(c) /\ uxSchedulerSuspended' = c

\* vTaskDelay up to its xTaskResumeAll.
vTaskDelay(c) ==
  /\ "delay" \in SmpCalls /\ Enters(c) /\ Current(c) \in Worker
  /\ SuspendsAll(c)
  /\ kernel' = MoveTo(kernel, Current(c), "delayed")
  /\ pc' = [pc EXCEPT ![Current(c)] = "resume"]
  /\ UNCHANGED << xPendedTicks, bound >>

\* xTaskResumeAll without the pended ticks: the tasks that interrupts readied.
MoveReadied(k) ==
  LET list == k.xPendingReadyList
      after[n \in 0..Len(list)] ==
        IF n = 0 THEN k
        ELSE prvAddTaskToReadyList(MoveTo(after[n - 1], list[n], "ready"), list[n])
  IN after[Len(list)]

\* A pended tick: a switch that it asks for is pended too.
Replayed(k, self, W) ==
  LET after == xTaskIncrementTick(k, self, W)
  IN IF TickSwitches(k, self, W) THEN [after EXCEPT !.xYieldPendings[self] = TRUE]
     ELSE after

\* The pended ticks, one after another; the tasks of W wake at the first.
ReplayTicks(k, self, ticks, W) ==
  LET after[n \in 0..ticks] ==
        IF n = 0 THEN k ELSE Replayed(after[n - 1], self, IF n = 1 THEN W ELSE << >>)
  IN after[ticks]

\* The rest of vTaskDelay: it yields, whether xTaskResumeAll did or not.
xTaskResumeAll(c) ==
  /\ uxSchedulerSuspended = c /\ pc[Current(c)] = "resume"
  /\ uxSchedulerSuspended' = NoCore
  /\ xPendedTicks' = 0
  /\ \E W \in Wakings(kernel) :
       kernel' = ReplayTicks(MoveReadied(kernel), c, xPendedTicks, W)
  /\ pc' = [pc EXCEPT ![Current(c)] = "yield"]
  /\ UNCHANGED bound

Tick(c) ==
  /\ uxSchedulerSuspended = NoCore
  /\ \E W \in Wakings(kernel) :
       kernel' = [xTaskIncrementTick(kernel, c, W) EXCEPT
                    !.irq[c] = @ \/ TickSwitches(kernel, c, W)]
  /\ UNCHANGED << pc, suspension, bound >>

TickPends ==
  /\ uxSchedulerSuspended # NoCore /\ xPendedTicks < MaxPendedTicks
  /\ xPendedTicks' = xPendedTicks + 1
  /\ UNCHANGED << kernel, pc, uxSchedulerSuspended, bound >>

\* portYIELD, or the interrupt that asks a core to yield.  A core that waits
\* for the task lock does not switch.
vTaskSwitchContext(c) ==
  /\ kernel.irq[c] \/ pc[Current(c)] = "yield"
  /\ uxSchedulerSuspended \in {NoCore, c}
  /\ kernel' =
       LET k == [kernel EXCEPT !.irq[c] = FALSE]
       IN IF uxSchedulerSuspended = c
          THEN [k EXCEPT !.xYieldPendings[c] = TRUE]
          ELSE prvSelectHighestPriorityTask([k EXCEPT !.xYieldPendings[c] = FALSE], c)
  /\ pc' = [pc EXCEPT ![Current(c)] = IF @ = "yield" THEN "app" ELSE @]
  /\ UNCHANGED << suspension, bound >>

Next ==
  \/ TickPends
  \/ \E c \in Core :
       \/ prvCheckTasksWaitingTermination(c) \/ IdleYields(c) \/ vTaskDelay(c)
       \/ xTaskResumeAll(c) \/ Tick(c) \/ vTaskSwitchContext(c)
       \/ \E t \in Worker :
            \/ vTaskSuspend(c, t) \/ vTaskResume(c, t) \/ xTaskResumeFromISR(c, t)
            \/ vTaskPreemptionDisable(c, t) \/ vTaskPreemptionEnable(c, t)
            \/ vTaskDelete(c, t)
            \/ \E p \in Priorities : vTaskPrioritySet(c, t, p)
            \/ \E S \in Affinities :
                 \/ vTaskCoreAffinitySet(c, t, S)
                 \/ \E p \in Priorities : prvAddNewTaskToReadyList(c, t, p, S)

Spec == Init /\ [][Next]_vars
-----------------------------------------------------------------------------
(* Properties.                                                              *)

\* A task runs on one core at most: the task of a core is not that of another,
\* its run state names the core or says that the core was asked to yield, and
\* no other task's run state names the core.
OneCorePerTask ==
  \A c \in Core :
    /\ kernel.xTaskRunState[Current(c)] \in {c, taskTASK_SCHEDULED_TO_YIELD}
    /\ \A t \in Thread : kernel.xTaskRunState[t] = c => Current(c) = t
    /\ \A d \in Core \ {c} : Current(c) # Current(d)

\* A core that was asked to yield does: the interrupt is on its way, or the
\* core is about to yield, or will when it resumes the scheduler.  (A task in
\* prvCheckForRunStateChange would wait for ever otherwise.)
YieldsDelivered ==
  \A c \in Core :
    kernel.xTaskRunState[Current(c)] = taskTASK_SCHEDULED_TO_YIELD =>
      \/ kernel.irq[c] \/ pc[Current(c)] = "yield"
      \/ uxSchedulerSuspended = c /\ kernel.xYieldPendings[c]

\* The memory of a deleted task is not freed while a core still runs it.
FreedNotRunning ==
  \A t \in Thread : kernel.xStateList[t] = "none" =>
    kernel.xTaskRunState[t] = taskTASK_NOT_RUNNING /\ \A c \in Core : Current(c) # t

\* No core has anything left to react to.
Settled ==
  /\ uxSchedulerSuspended = NoCore
  /\ \A c \in Core : /\ ~kernel.irq[c] /\ ~kernel.xYieldPendings[c]
                     /\ pc[Current(c)] # "yield"

\* A core that has nothing left to react to runs a task that may run on it.
AffinityKept == Settled => \A c \in Core : c \in kernel.uxCoreAffinityMask[Current(c)]

\* The bookkeeping of the cores and their tasks is sound.
CoresSound == OneCorePerTask /\ YieldsDelivered /\ FreedNotRunning /\ AffinityKept

ReadyTasks == {t \in Thread : kernel.xStateList[t] = "ready"}
Highest(t) == \A u \in ReadyTasks : kernel.uxPriority[u] <= kernel.uxPriority[t]

\* The cores run the ready tasks of the highest priorities, unless preemption
\* is disabled, as long as every task may run on every core.  In the build
\* that runs one priority at a time this is so of the highest priority only,
\* and a core may have to wait for the next tick.
HighestRun ==
  Settled /\ ~bound =>
    /\ \A c \in Core : Current(c) \in ReadyTasks
    /\ \A t \in ReadyTasks, c \in Core :
         \/ Running(kernel, t)
         \/ ~configRUN_MULTIPLE_PRIORITIES /\ ~Highest(t)
         \/ CorePriority(kernel, c) >= PriorityOf(kernel, t)
         \/ kernel.xPreemptionDisable[Current(c)]
         \/ ~configRUN_MULTIPLE_PRIORITIES /\ c \in SwitchRequired(kernel)

\* Tasks of different priorities never run together in that build.
OnePriority ==
  Settled /\ ~configRUN_MULTIPLE_PRIORITIES =>
    \A c, d \in Core :
      {Current(c), Current(d)} \cap IdleTasks = {} =>
        CorePriority(kernel, c) = CorePriority(kernel, d)

\* Which tasks the cores run.
RightTasksRun == HighestRun /\ OnePriority
=============================================================================
