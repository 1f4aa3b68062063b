----------------------------- MODULE Scheduler -----------------------------
(***************************************************************************)
(* The scheduler of tasks.c on one core, with the X86 FreeRTOSConfig.h     *)
(* features: preemption, time slicing, task deletion, suspension, delays,  *)
(* delay aborts, priority changes, event lists and interrupts.             *)
(*                                                                         *)
(* A task runs between critical sections: one action is one critical       *)
(* section of an API function, or one stretch with the scheduler           *)
(* suspended that interrupts cannot observe.  pc says where in an API      *)
(* function each task is.  A yield requests the software interrupt         *)
(* (yieldIrq) that runs vTaskSwitchContext; other interrupts may be served *)
(* first.  The loops of xTaskResumeAll and xTaskIncrementTick run with     *)
(* interrupts masked: "kernel" is their program counter, and every other   *)
(* action waits until it is "task" again.                                  *)
(***************************************************************************)
EXTENDS ListRing

CONSTANTS
  Task,            \* the task handles the application may use, Idle included
  Idle,            \* the idle task
  NoTask,          \* NULL
  configMAX_PRIORITIES,
  TickMod,         \* TickType_t counts modulo TickMod
  Delays,          \* the delays and block times that tasks ask for
  ApiCalls,        \* the API functions the application calls
  PortOptimised,   \* configUSE_PORT_OPTIMISED_TASK_SELECTION
  MaxNest,         \* bound: nesting of vTaskSuspendAll
  MaxPended        \* bound: ticks that arrive during one suspension

Priority == 0..(configMAX_PRIORITIES - 1)
TickType == 0..(TickMod - 1)
portMAX_DELAY == TickMod - 1

ASSUME SchedulerAssumption ==
  /\ Idle \in Task
  /\ NoTask \notin Task
  /\ ListEnd \notin Task
  /\ configMAX_PRIORITIES \in Nat \ {0}
  /\ TickMod \in Nat /\ TickMod > 1
  /\ Delays \subseteq TickType
  /\ PortOptimised \in BOOLEAN
  /\ MaxNest \in Nat /\ MaxPended \in Nat

VARIABLES
  xSchedulerRunning, pxCurrentTCB, uxCurrentNumberOfTasks, uxPriority,
  pxReadyTasksLists,
  uxTopReadyPriority,        \* the priorities recorded: a bitmap, or one value
  pxDelayedTaskList, pxOverflowDelayedTaskList,
  xItemValue,                \* of xStateListItem: the tick at which to wake
  xSuspendedTaskList, xTasksWaitingTermination,
  xPendingReadyList,         \* by the event list item
  eventList,                 \* the tasks waiting on an event, in list order
  xNextTaskUnblockTime, xTickCount,
  uxSchedulerSuspended, xPendedTicks, xYieldPending,
  yieldIrq,                  \* the yield software interrupt is pending
  pc,                        \* where each task is in an API function
  abortee,                   \* the argument of a running xTaskAbortDelay
  kernel, ticksLeft, switchRequired, readied,   \* locals of the masked loops
  toGo                       \* history: processed ticks a delay has left

lists == << pxReadyTasksLists, uxTopReadyPriority, pxDelayedTaskList,
            pxOverflowDelayedTaskList, xItemValue, xSuspendedTaskList,
            xTasksWaitingTermination, toGo >>
events == << xPendingReadyList, eventList >>
tcbs == << xSchedulerRunning, uxCurrentNumberOfTasks, uxPriority >>
clock == << xNextTaskUnblockTime, xTickCount, xPendedTicks >>
locals == << kernel, ticksLeft, switchRequired, readied >>
vars == << lists, events, tcbs, clock, locals, pxCurrentTCB,
           uxSchedulerSuspended, xYieldPending, yieldIrq, pc, abortee >>
-----------------------------------------------------------------------------
\* Priorities and the record of the highest ready one.

taskRECORD_READY_PRIORITY(top, p) ==
  IF PortOptimised THEN top \cup {p}
  ELSE IF Max(top) < p THEN {p} ELSE top

\* Fault: the bit of an emptied list stays.
F_NotReset(top, ready, p) == top

\* Clears p's bit when its list is empty; the generic record is lowered only
\* when a task is selected.
taskRESET_READY_PRIORITY(top, ready, p) ==
  IF PortOptimised /\ ListLength(ready[p]) = 0 THEN top \ {p} ELSE top

Occupied(ready) == {p \in Priority : ListLength(ready[p]) > 0}

\* The priority whose list taskSELECT_HIGHEST_PRIORITY_TASK takes from.
SelectedPriority ==
  IF PortOptimised THEN Max(uxTopReadyPriority)
  ELSE Max({p \in Occupied(pxReadyTasksLists) :
                  p <= Max(uxTopReadyPriority)})

ReadyTasks == UNION {Items(pxReadyTasksLists[p]) : p \in Priority}

Blocked == pxDelayedTaskList \cup pxOverflowDelayedTaskList

Created == ReadyTasks \cup Blocked \cup xSuspendedTaskList
             \cup xTasksWaitingTermination

OnEventList == ToSet(eventList)

\* prvAddTaskToReadyList, into the ready lists left by earlier removals.
prvAddTaskToReadyList(t, p, ready, top) ==
  /\ pxReadyTasksLists' = [ready EXCEPT ![p] = vListInsertEnd(@, t)]
  /\ uxTopReadyPriority' = taskRECORD_READY_PRIORITY(top, p)

\* The ready lists without t, whichever list holds its state item.
WithoutReady(t) ==
  [p \in Priority |-> IF t \in Items(pxReadyTasksLists[p])
                      THEN uxListRemove(pxReadyTasksLists[p], t)
                      ELSE pxReadyTasksLists[p]]

\* Removes t's state item from the ready list that may hold it.
LeaveReady(t) ==
  /\ pxReadyTasksLists' = WithoutReady(t)
  /\ uxTopReadyPriority' = taskRESET_READY_PRIORITY(
                             uxTopReadyPriority, WithoutReady(t), uxPriority[t])

\* Fault: the overflow list is forgotten.
F_KeepsOverflow(t) ==
  /\ pxDelayedTaskList' = pxDelayedTaskList \ {t}
  /\ xItemValue' = [xItemValue EXCEPT ![t] = 0]
  /\ toGo' = [toGo EXCEPT ![t] = 0]
  /\ UNCHANGED pxOverflowDelayedTaskList

\* Removes t's state item from the delayed list that may hold it.  Its value
\* is not read until it is set again; it is 0 meanwhile.
LeaveBlocked(t) ==
  /\ pxDelayedTaskList' = pxDelayedTaskList \ {t}
  /\ pxOverflowDelayedTaskList' = pxOverflowDelayedTaskList \ {t}
  /\ xItemValue' = [xItemValue EXCEPT ![t] = 0]
  /\ toGo' = [toGo EXCEPT ![t] = 0]

WithoutEvent(t) ==
  IF t \in OnEventList THEN uxListRemove(eventList, t) ELSE eventList

\* Fault: only an item on xPendingReadyList is removed.
F_KeepsEvent(t) ==
  xPendingReadyList' = xPendingReadyList \ {t} /\ UNCHANGED eventList

\* Removes t's event item from the list that holds it.
LeaveEvent(t) ==
  /\ eventList' = WithoutEvent(t)
  /\ xPendingReadyList' = xPendingReadyList \ {t}

\* Fault: the new item goes first.
F_InsertFirst(t) == << t >> \o eventList

\* vListInsert of t's event item, whose value is MAX_PRIORITIES - uxPriority.
EventInsert(t) ==
  LET lower == {i \in 1..Len(eventList) :
                  uxPriority[eventList[i]] < uxPriority[t]}
  IN  InsertAt(eventList,
               IF lower = {} THEN Len(eventList) + 1 ELSE Min(lower), t)

prvTaskIsTaskSuspended(t) ==
  t \in xSuspendedTaskList /\ t \notin xPendingReadyList /\ t \notin OnEventList

\* eTaskGetState(t) = eBlocked
eBlocked(t) ==
  /\ t # pxCurrentTCB /\ t \notin xPendingReadyList
  /\ t \in Blocked \/ (t \in xSuspendedTaskList /\ t \in OnEventList)

\* Fault: the delayed list is taken to be empty.
F_NoUnblockTime(list) == portMAX_DELAY

\* The value prvResetNextTaskUnblockTime gives xNextTaskUnblockTime.
prvResetNextTaskUnblockTime(list) ==
  IF list = {} THEN portMAX_DELAY
  ELSE Min({xItemValue[t] : t \in list})

Outranks(t) == uxPriority[t] > uxPriority[pxCurrentTCB]

\* Fault: a suspended scheduler is not noticed.
F_NeverDeferred == FALSE

\* With the scheduler suspended, switches, ticks and wake-ups are deferred.
Deferred == uxSchedulerSuspended > 0

\* Fault: a freed task is still counted.
F_NotCounted(t) ==
  /\ uxPriority' = [uxPriority EXCEPT ![t] = 0]
  /\ pc' = [pc EXCEPT ![t] = "app"]
  /\ UNCHANGED uxCurrentNumberOfTasks

\* prvDeleteTCB and the count of tasks: t is gone, its fields with it.
prvDeleteTCB(t) ==
  /\ uxCurrentNumberOfTasks' = uxCurrentNumberOfTasks - 1
  /\ uxPriority' = [uxPriority EXCEPT ![t] = 0]
  /\ pc' = [pc EXCEPT ![t] = "app"]
-----------------------------------------------------------------------------
\* Before the scheduler runs, main creates the first tasks.

Init ==
  /\ xSchedulerRunning = FALSE
  /\ pxCurrentTCB = NoTask
  /\ uxCurrentNumberOfTasks = 0
  /\ uxPriority = [t \in Task |-> 0]
  /\ pxReadyTasksLists = [p \in Priority |-> vListInitialise]
  /\ uxTopReadyPriority = IF PortOptimised THEN {} ELSE {0}
  /\ pxDelayedTaskList = {} /\ pxOverflowDelayedTaskList = {}
  /\ xItemValue = [t \in Task |-> 0]
  /\ xSuspendedTaskList = {} /\ xTasksWaitingTermination = {}
  /\ xPendingReadyList = {} /\ eventList = << >>
  /\ xNextTaskUnblockTime = 0 /\ xTickCount = 0
  /\ uxSchedulerSuspended = 0 /\ xPendedTicks = 0
  /\ xYieldPending = FALSE /\ yieldIrq = FALSE
  /\ pc = [t \in Task |-> "app"]
  /\ abortee = NoTask
  /\ kernel = "task" /\ ticksLeft = 0
  /\ switchRequired = FALSE /\ readied = FALSE
  /\ toGo = [t \in Task |-> 0]

\* prvAddNewTaskToReadyList: t is created with priority p.
AddNewTask(t, p) ==
  /\ t \notin Created
  /\ uxCurrentNumberOfTasks' = uxCurrentNumberOfTasks + 1
  /\ uxPriority' = [uxPriority EXCEPT ![t] = p]
  /\ prvAddTaskToReadyList(t, p, pxReadyTasksLists, uxTopReadyPriority)
  /\ UNCHANGED << pxDelayedTaskList, pxOverflowDelayedTaskList, xItemValue,
                  xSuspendedTaskList, xTasksWaitingTermination, toGo, events,
                  locals, uxSchedulerSuspended, xYieldPending, pc, abortee >>

\* The newest task of the highest priority is the first to run.
FirstToRun(t, p) ==
  IF pxCurrentTCB = NoTask \/ uxPriority[pxCurrentTCB] <= p THEN t
  ELSE pxCurrentTCB

MainCreate(t, p) ==
  /\ ~xSchedulerRunning
  /\ t # Idle
  /\ AddNewTask(t, p)
  /\ pxCurrentTCB' = FirstToRun(t, p)
  /\ UNCHANGED << xSchedulerRunning, clock, yieldIrq >>

vTaskStartScheduler ==
  /\ ~xSchedulerRunning
  /\ AddNewTask(Idle, 0)
  /\ pxCurrentTCB' = FirstToRun(Idle, 0)
  /\ xNextTaskUnblockTime' = portMAX_DELAY
  /\ xSchedulerRunning' = TRUE
  /\ xTickCount' = 0
  /\ UNCHANGED << xPendedTicks, yieldIrq >>
-----------------------------------------------------------------------------
\* What the running task does.

\* The current task can take its next step.
Runs == xSchedulerRunning /\ kernel = "task" /\ ~yieldIrq

At(where) == Runs /\ pc[pxCurrentTCB] = where

\* The idle task never blocks, and calls only what prvIdleTask calls.
App == At("app") /\ pxCurrentTCB # Idle

Goto(where) == pc' = [pc EXCEPT ![pxCurrentTCB] = where]

\* taskYIELD.
Yield ==
  /\ App
  /\ yieldIrq' = TRUE
  /\ UNCHANGED << lists, events, tcbs, clock, locals, pxCurrentTCB,
                  uxSchedulerSuspended, xYieldPending, pc, abortee >>

\* taskYIELD_WITHIN_API at the end of an API function.
YieldWithinAPI ==
  /\ At("yield")
  /\ yieldIrq' = TRUE
  /\ Goto("app")
  /\ UNCHANGED << lists, events, tcbs, clock, locals, pxCurrentTCB,
                  uxSchedulerSuspended, xYieldPending, abortee >>

Create(t, p) ==
  /\ App
  /\ t # Idle
  /\ AddNewTask(t, p)
  /\ yieldIrq' = (uxPriority[pxCurrentTCB] < p)
  /\ UNCHANGED << xSchedulerRunning, pxCurrentTCB, clock >>

\* vTaskSuspendAll on entry to an API function, or by the application.
vTaskSuspendAll(where) ==
  /\ App
  /\ uxSchedulerSuspended < MaxNest
  \* the functions that block assert that they hold the only suspension
  /\ where \in {"delay", "wait", "catchUp"} => uxSchedulerSuspended = 0
  /\ uxSchedulerSuspended' = uxSchedulerSuspended + 1
  /\ Goto(where)
  /\ UNCHANGED << lists, events, tcbs, clock, locals, pxCurrentTCB,
                  xYieldPending, yieldIrq, abortee >>

\* The application calls xTaskResumeAll.
AppResumeAll ==
  /\ App
  /\ uxSchedulerSuspended > 0
  /\ Goto("resume")
  /\ UNCHANGED << lists, events, tcbs, clock, locals, pxCurrentTCB,
                  uxSchedulerSuspended, xYieldPending, yieldIrq, abortee >>

\* Fault: the wake time is not a TickType_t.
F_WakeTimeWide(ticks) == xTickCount + ticks

\* xTimeToWake, in the width of TickType_t.
TimeToWake(ticks) == (xTickCount + ticks) % TickMod

\* prvAddCurrentTaskToDelayedList
prvAddCurrentTaskToDelayedList(ticks, canBlockIndefinitely) ==
  LET t == pxCurrentTCB
      timeToWake == TimeToWake(ticks)
      forever == canBlockIndefinitely /\ ticks = portMAX_DELAY
      overflows == timeToWake < xTickCount
  IN /\ LeaveReady(t)
     /\ IF forever
        THEN /\ xSuspendedTaskList' = xSuspendedTaskList \cup {t}
             /\ UNCHANGED << pxDelayedTaskList, pxOverflowDelayedTaskList,
                             xItemValue, xNextTaskUnblockTime, toGo >>
        ELSE /\ xItemValue' = [xItemValue EXCEPT ![t] = timeToWake]
             /\ toGo' = [toGo EXCEPT ![t] = ticks]
             /\ pxOverflowDelayedTaskList' =
                  IF overflows THEN pxOverflowDelayedTaskList \cup {t}
                  ELSE pxOverflowDelayedTaskList
             /\ pxDelayedTaskList' =
                  IF overflows THEN pxDelayedTaskList
                  ELSE pxDelayedTaskList \cup {t}
             /\ xNextTaskUnblockTime' =
                  IF ~overflows /\ timeToWake < xNextTaskUnblockTime
                  THEN timeToWake ELSE xNextTaskUnblockTime
             /\ UNCHANGED xSuspendedTaskList

\* vTaskDelay: the task leaves the ready list inside the suspension.
vTaskDelay(ticks) ==
  /\ At("delay")
  /\ ticks > 0
  /\ prvAddCurrentTaskToDelayedList(ticks, FALSE)
  /\ Goto("resumeYield")
  /\ UNCHANGED << xTasksWaitingTermination, events, tcbs, xTickCount,
                  xPendedTicks, locals, pxCurrentTCB, uxSchedulerSuspended,
                  xYieldPending, yieldIrq, abortee >>

\* xTaskDelayUntil whose wake time has passed; otherwise it is vTaskDelay.
DelayUntilPassed ==
  /\ At("delay")
  /\ Goto("resumeYield")
  /\ UNCHANGED << lists, events, tcbs, clock, locals, pxCurrentTCB,
                  uxSchedulerSuspended, xYieldPending, yieldIrq, abortee >>

\* vTaskPlaceOnEventList, called with the scheduler suspended.
vTaskPlaceOnEventList(ticks) ==
  /\ At("wait")
  /\ ticks > 0
  /\ eventList' = EventInsert(pxCurrentTCB)
  /\ prvAddCurrentTaskToDelayedList(ticks, TRUE)
  /\ Goto("resumeYield")
  /\ UNCHANGED << xTasksWaitingTermination, xPendingReadyList, tcbs,
                  xTickCount, xPendedTicks, locals, pxCurrentTCB,
                  uxSchedulerSuspended, xYieldPending, yieldIrq, abortee >>

\* xTaskCatchUpTicks adds the ticks an application knows it has missed.
xTaskCatchUpTicks(ticks) ==
  /\ At("catchUp")
  /\ xPendedTicks' = xPendedTicks + ticks
  /\ Goto("resume")
  /\ UNCHANGED << lists, events, tcbs, xNextTaskUnblockTime, xTickCount, locals,
                  pxCurrentTCB, uxSchedulerSuspended, xYieldPending, yieldIrq,
                  abortee >>

\* xTaskAbortDelay looks at t's state before it touches it.
AbortCheck(t) ==
  /\ At("abort")
  /\ t \in Created \ {Idle}
  /\ IF eBlocked(t)
     THEN Goto("abortBlocked") /\ abortee' = t
     ELSE Goto("resume") /\ UNCHANGED abortee
  /\ UNCHANGED << lists, events, tcbs, clock, locals, pxCurrentTCB,
                  uxSchedulerSuspended, xYieldPending, yieldIrq >>

xTaskAbortDelay ==
  /\ At("abortBlocked")
  /\ LeaveBlocked(abortee)
  /\ xSuspendedTaskList' = xSuspendedTaskList \ {abortee}
  /\ LeaveEvent(abortee)
  /\ prvAddTaskToReadyList(abortee, uxPriority[abortee],
                           pxReadyTasksLists, uxTopReadyPriority)
  /\ xYieldPending' = (xYieldPending \/ Outranks(abortee))
  /\ Goto("resume")
  /\ abortee' = NoTask
  /\ UNCHANGED << xTasksWaitingTermination, tcbs, clock,
                  locals, pxCurrentTCB, uxSchedulerSuspended, yieldIrq >>

\* vTaskSuspend: its first critical section moves the task.
vTaskSuspend(t) ==
  /\ App
  /\ t \in Created \ ({Idle} \cup xTasksWaitingTermination)
  /\ t = pxCurrentTCB => uxSchedulerSuspended = 0
  /\ LeaveReady(t)
  /\ LeaveBlocked(t)
  /\ LeaveEvent(t)
  /\ xSuspendedTaskList' = xSuspendedTaskList \cup {t}
  /\ Goto(IF t = pxCurrentTCB THEN "suspendSelf" ELSE "suspendOther")
  /\ UNCHANGED << xTasksWaitingTermination, tcbs, clock, locals, pxCurrentTCB,
                  uxSchedulerSuspended, xYieldPending, yieldIrq, abortee >>

\* Its second critical section recomputes the next unblock time.
SuspendResetsUnblockTime ==
  /\ At("suspendSelf") \/ At("suspendOther")
  /\ xNextTaskUnblockTime' = prvResetNextTaskUnblockTime(pxDelayedTaskList)
  /\ Goto(IF At("suspendSelf") THEN "yield" ELSE "app")
  /\ UNCHANGED << lists, events, tcbs, xTickCount, xPendedTicks, locals,
                  pxCurrentTCB, uxSchedulerSuspended, xYieldPending, yieldIrq,
                  abortee >>

vTaskResume(t) ==
  /\ App
  /\ t # pxCurrentTCB
  /\ prvTaskIsTaskSuspended(t)
  /\ xSuspendedTaskList' = xSuspendedTaskList \ {t}
  /\ prvAddTaskToReadyList(t, uxPriority[t], pxReadyTasksLists,
                           uxTopReadyPriority)
  /\ yieldIrq' = Outranks(t)
  /\ UNCHANGED << pxDelayedTaskList, pxOverflowDelayedTaskList, xItemValue,
                  xTasksWaitingTermination, toGo, events, tcbs, clock, locals,
                  pxCurrentTCB, uxSchedulerSuspended, xYieldPending, pc,
                  abortee >>

\* Fault: lowering the running task's own priority does not yield.
F_SelfKeepsRunning(t, p) ==
  t # pxCurrentTCB /\ p > uxPriority[t] /\ p > uxPriority[pxCurrentTCB]

\* xYieldRequired of vTaskPrioritySet.
PrioritySetYields(t, p) ==
  IF t = pxCurrentTCB THEN p < uxPriority[t]
  ELSE p > uxPriority[t] /\ p > uxPriority[pxCurrentTCB]

\* vTaskPrioritySet moves a ready task to the list of its new priority; an
\* event item keeps its place.
vTaskPrioritySet(t, p) ==
  LET old == uxPriority[t]
      isReady == t \in Items(pxReadyTasksLists[old])
      left == WithoutReady(t)
  IN /\ App
     /\ t \in Created \ ({Idle} \cup xTasksWaitingTermination)
     /\ p # old
     /\ uxPriority' = [uxPriority EXCEPT ![t] = p]
     /\ IF isReady
        THEN prvAddTaskToReadyList(t, p, left,
               taskRESET_READY_PRIORITY(uxTopReadyPriority, left, old))
        ELSE UNCHANGED << pxReadyTasksLists, uxTopReadyPriority >>
     /\ yieldIrq' = PrioritySetYields(t, p)
     /\ UNCHANGED << pxDelayedTaskList, pxOverflowDelayedTaskList, xItemValue,
                     xSuspendedTaskList, xTasksWaitingTermination, toGo, events,
                     xSchedulerRunning, uxCurrentNumberOfTasks, clock, locals,
                     pxCurrentTCB, uxSchedulerSuspended, xYieldPending, pc,
                     abortee >>

\* vTaskDelete of another task frees it at once.
DeleteOther(t) ==
  /\ App
  /\ t \in Created \ ({Idle, pxCurrentTCB} \cup xTasksWaitingTermination)
  /\ LeaveReady(t)
  /\ LeaveBlocked(t)
  /\ LeaveEvent(t)
  /\ xSuspendedTaskList' = xSuspendedTaskList \ {t}
  /\ prvDeleteTCB(t)
  /\ xNextTaskUnblockTime' =
       prvResetNextTaskUnblockTime(pxDelayedTaskList \ {t})
  /\ UNCHANGED << xTasksWaitingTermination, xSchedulerRunning, xTickCount,
                  xPendedTicks, locals, pxCurrentTCB, uxSchedulerSuspended,
                  xYieldPending, yieldIrq, abortee >>

\* vTaskDelete of the running task leaves it to the idle task.
DeleteSelf ==
  /\ App
  /\ uxSchedulerSuspended = 0
  /\ LeaveReady(pxCurrentTCB)
  /\ xTasksWaitingTermination' = xTasksWaitingTermination \cup {pxCurrentTCB}
  /\ Goto("yield")
  /\ UNCHANGED << pxDelayedTaskList, pxOverflowDelayedTaskList, xItemValue,
                  xSuspendedTaskList, toGo, events, tcbs, clock, locals,
                  pxCurrentTCB, uxSchedulerSuspended, xYieldPending, yieldIrq,
                  abortee >>

\* prvCheckTasksWaitingTermination: the idle task frees one deleted task.
prvCheckTasksWaitingTermination(t) ==
  /\ At("app") /\ pxCurrentTCB = Idle
  /\ t \in xTasksWaitingTermination
  /\ xTasksWaitingTermination' = xTasksWaitingTermination \ {t}
  /\ prvDeleteTCB(t)
  /\ UNCHANGED << pxReadyTasksLists, uxTopReadyPriority, pxDelayedTaskList,
                  pxOverflowDelayedTaskList, xItemValue, xSuspendedTaskList,
                  toGo, events, xSchedulerRunning, clock, locals,
                  pxCurrentTCB, uxSchedulerSuspended, xYieldPending, yieldIrq,
                  abortee >>

\* prvIdleTask yields to the other tasks of its priority.
IdleYield ==
  /\ At("app") /\ pxCurrentTCB = Idle
  /\ ListLength(pxReadyTasksLists[0]) > 1
  /\ yieldIrq' = TRUE
  /\ UNCHANGED << lists, events, tcbs, clock, locals, pxCurrentTCB,
                  uxSchedulerSuspended, xYieldPending, pc, abortee >>
-----------------------------------------------------------------------------
\* Waking a task that waits on the event.

\* xTaskRemoveFromEventList
xTaskRemoveFromEventList(t) ==
  /\ eventList # << >> /\ t = Head(eventList)
  /\ eventList' = Tail(eventList)
  /\ IF ~Deferred
     THEN /\ LeaveBlocked(t)
          /\ xSuspendedTaskList' = xSuspendedTaskList \ {t}
          /\ prvAddTaskToReadyList(t, uxPriority[t], pxReadyTasksLists,
                                   uxTopReadyPriority)
          /\ UNCHANGED xPendingReadyList
     ELSE /\ xPendingReadyList' = xPendingReadyList \cup {t}
          /\ UNCHANGED << pxDelayedTaskList, pxOverflowDelayedTaskList,
                          xItemValue, toGo, xSuspendedTaskList,
                          pxReadyTasksLists, uxTopReadyPriority >>
  /\ xYieldPending' = (xYieldPending \/ Outranks(t))
  /\ UNCHANGED << xTasksWaitingTermination, tcbs, clock,
                  locals, pxCurrentTCB, uxSchedulerSuspended, pc, abortee >>

\* A task signals the event and yields when it woke a higher one.
Signal(t) ==
  /\ App
  /\ xTaskRemoveFromEventList(t)
  /\ yieldIrq' = Outranks(t)

\* An interrupt signals it, and may yield on leaving.  While a task is between
\* locking the event's queue and unlocking it, the interrupt only counts.
SignalFromISR(t, yields) ==
  /\ xSchedulerRunning /\ kernel = "task"
  /\ pc[pxCurrentTCB] # "wait"
  /\ xTaskRemoveFromEventList(t)
  /\ yields => Outranks(t)
  /\ yieldIrq' = (yieldIrq \/ yields)

xTaskResumeFromISR(t, yields) ==
  /\ xSchedulerRunning /\ kernel = "task"
  /\ prvTaskIsTaskSuspended(t)
  /\ yields => ~Deferred /\ Outranks(t)
  /\ yieldIrq' = (yieldIrq \/ yields)
  /\ IF ~Deferred
     THEN /\ xYieldPending' = (xYieldPending \/ Outranks(t))
          /\ xSuspendedTaskList' = xSuspendedTaskList \ {t}
          /\ prvAddTaskToReadyList(t, uxPriority[t], pxReadyTasksLists,
                                   uxTopReadyPriority)
          /\ UNCHANGED xPendingReadyList
     ELSE /\ xPendingReadyList' = xPendingReadyList \cup {t}
          /\ UNCHANGED << pxReadyTasksLists, uxTopReadyPriority,
                          xSuspendedTaskList, xYieldPending >>
  /\ UNCHANGED << pxDelayedTaskList, pxOverflowDelayedTaskList, xItemValue,
                  xTasksWaitingTermination, toGo, eventList, tcbs, clock,
                  locals, pxCurrentTCB, uxSchedulerSuspended, pc, abortee >>
-----------------------------------------------------------------------------
\* The yield interrupt.

\* vTaskSwitchContext with taskSELECT_HIGHEST_PRIORITY_TASK
vTaskSwitchContext ==
  IF Deferred
  THEN /\ xYieldPending' = TRUE
       /\ UNCHANGED << pxReadyTasksLists, uxTopReadyPriority, pxCurrentTCB >>
  ELSE LET p == SelectedPriority
           list == NextEntry(pxReadyTasksLists[p])
       IN /\ xYieldPending' = FALSE
          /\ pxReadyTasksLists' = [pxReadyTasksLists EXCEPT ![p] = list]
          /\ pxCurrentTCB' = EntryAtIndex(list)
          /\ uxTopReadyPriority' = IF PortOptimised THEN uxTopReadyPriority
                                   ELSE {p}

YieldISR ==
  /\ yieldIrq /\ kernel = "task"
  /\ yieldIrq' = FALSE
  /\ vTaskSwitchContext
  /\ UNCHANGED << pxDelayedTaskList, pxOverflowDelayedTaskList, xItemValue,
                  xSuspendedTaskList, xTasksWaitingTermination, toGo, events,
                  tcbs, clock, locals, uxSchedulerSuspended, pc, abortee >>
-----------------------------------------------------------------------------
\* xTaskIncrementTick, one tick at a time.

\* The delayed list has to be looked at.
UnblockTimeReached(now, unblock) == now >= unblock

\* The count advances; at zero the delayed lists change places.
AdvanceTick ==
  LET now == (xTickCount + 1) % TickMod
      wraps == now = 0
      current == IF wraps THEN pxOverflowDelayedTaskList ELSE pxDelayedTaskList
      unblock == IF wraps THEN prvResetNextTaskUnblockTime(current)
                 ELSE xNextTaskUnblockTime
  IN /\ xTickCount' = now
     /\ pxDelayedTaskList' = current
     /\ pxOverflowDelayedTaskList' =
          IF wraps THEN pxDelayedTaskList ELSE pxOverflowDelayedTaskList
     /\ xNextTaskUnblockTime' = unblock
     /\ switchRequired' = FALSE
     /\ kernel' = IF UnblockTimeReached(now, unblock) THEN "wake"
                  ELSE "tickEnd"
     /\ toGo' = [t \in Task |-> IF t \in Blocked THEN toGo[t] - 1 ELSE toGo[t]]
     /\ UNCHANGED << pxReadyTasksLists, uxTopReadyPriority, xItemValue,
                     xSuspendedTaskList, xTasksWaitingTermination, events, tcbs,
                     readied, ticksLeft, pxCurrentTCB, uxSchedulerSuspended,
                     xYieldPending, yieldIrq, pc, abortee >>

\* The tick interrupt: processed at once, or pended while suspended.
TickISR ==
  /\ xSchedulerRunning /\ kernel = "task"
  /\ IF ~Deferred
     THEN AdvanceTick /\ UNCHANGED xPendedTicks
     ELSE /\ xPendedTicks < MaxPended
          /\ xPendedTicks' = xPendedTicks + 1
          /\ UNCHANGED << lists, events, tcbs, xNextTaskUnblockTime, xTickCount,
                          locals, pxCurrentTCB, uxSchedulerSuspended,
                          xYieldPending, yieldIrq, pc, abortee >>

\* Fault: a task wakes one tick late.
F_DueLate(t) == xItemValue[t] < xTickCount

\* Fault: a task wakes one tick early.
F_DueEarly(t) == xItemValue[t] <= xTickCount + 1

\* t's wake time has come.
Due(t) == xItemValue[t] <= xTickCount

\* The head of the delayed list is due: of the tasks due on one tick any may
\* be first.
WakeDue(t) ==
  /\ kernel = "wake"
  /\ t \in pxDelayedTaskList
  /\ xItemValue[t] = prvResetNextTaskUnblockTime(pxDelayedTaskList)
  /\ Due(t)
  /\ LeaveBlocked(t)
  /\ LeaveEvent(t)
  /\ prvAddTaskToReadyList(t, uxPriority[t], pxReadyTasksLists,
                           uxTopReadyPriority)
  /\ switchRequired' = (switchRequired \/ Outranks(t))
  /\ UNCHANGED << xSuspendedTaskList, xTasksWaitingTermination, tcbs, clock,
                  kernel, readied,
                  ticksLeft, pxCurrentTCB, uxSchedulerSuspended, xYieldPending,
                  yieldIrq, pc, abortee >>

\* No task is due any more.
WakeDone ==
  /\ kernel = "wake"
  /\ \A t \in pxDelayedTaskList : ~Due(t)
  /\ xNextTaskUnblockTime' = prvResetNextTaskUnblockTime(pxDelayedTaskList)
  /\ kernel' = "tickEnd"
  /\ UNCHANGED << lists, events, tcbs, xTickCount, xPendedTicks, switchRequired,
                  readied, ticksLeft, pxCurrentTCB, uxSchedulerSuspended,
                  xYieldPending, yieldIrq, pc, abortee >>

\* Fault: no time slicing.
F_NoTimeSlice == switchRequired \/ xYieldPending

\* The switch a tick asks for: a woken task, a time slice, a pended yield.
TickSwitches ==
  \/ switchRequired
  \/ ListLength(pxReadyTasksLists[uxPriority[pxCurrentTCB]]) > 1
  \/ xYieldPending

\* The interrupt handler yields; xTaskResumeAll only records that.
TickEnd ==
  /\ kernel = "tickEnd"
  /\ IF ticksLeft = 0
     THEN /\ yieldIrq' = (yieldIrq \/ TickSwitches)
          /\ kernel' = "task"
          /\ UNCHANGED << xYieldPending, ticksLeft >>
     ELSE /\ xYieldPending' = TickSwitches
          /\ kernel' = "catchUp"
          /\ ticksLeft' = ticksLeft - 1
          /\ UNCHANGED yieldIrq
  /\ switchRequired' = FALSE
  /\ UNCHANGED << lists, events, tcbs, clock, readied, pxCurrentTCB,
                  uxSchedulerSuspended, pc, abortee >>
-----------------------------------------------------------------------------
\* xTaskResumeAll, one critical section.

\* It returns to its caller, which may still have to yield.
ResumeReturns(alreadyYielded) ==
  Goto(IF At("resumeYield") /\ ~alreadyYielded THEN "yield" ELSE "app")

xTaskResumeAll ==
  /\ At("resume") \/ At("resumeYield")
  /\ uxSchedulerSuspended' = uxSchedulerSuspended - 1
  /\ IF uxSchedulerSuspended = 1
     THEN kernel' = "drain" /\ UNCHANGED pc
     ELSE ResumeReturns(FALSE) /\ UNCHANGED kernel
  /\ readied' = FALSE
  /\ UNCHANGED << lists, events, tcbs, clock, switchRequired, ticksLeft,
                  pxCurrentTCB, xYieldPending, yieldIrq, abortee >>

\* One task of xPendingReadyList becomes ready.
DrainPendingReady(t) ==
  /\ kernel = "drain"
  /\ t \in xPendingReadyList
  /\ xPendingReadyList' = xPendingReadyList \ {t}
  /\ LeaveBlocked(t)
  /\ xSuspendedTaskList' = xSuspendedTaskList \ {t}
  /\ prvAddTaskToReadyList(t, uxPriority[t], pxReadyTasksLists,
                           uxTopReadyPriority)
  /\ xYieldPending' = (xYieldPending \/ Outranks(t))
  /\ readied' = TRUE
  /\ UNCHANGED << xTasksWaitingTermination, eventList, tcbs, clock, kernel,
                  switchRequired, ticksLeft, pxCurrentTCB,
                  uxSchedulerSuspended, yieldIrq, pc, abortee >>

\* Fault: the loop stops early.
F_DrainedAtOnce == TRUE

Drained == xPendingReadyList = {}

DrainDone ==
  /\ kernel = "drain"
  /\ Drained
  /\ xNextTaskUnblockTime' =
       IF readied THEN prvResetNextTaskUnblockTime(pxDelayedTaskList)
       ELSE xNextTaskUnblockTime
  /\ ticksLeft' = xPendedTicks
  /\ kernel' = "catchUp"
  /\ readied' = FALSE
  /\ UNCHANGED << lists, events, tcbs, xTickCount, xPendedTicks, switchRequired,
                  pxCurrentTCB, uxSchedulerSuspended, xYieldPending, yieldIrq,
                  pc, abortee >>

\* The ticks pended meanwhile are processed now.
CatchUpTick ==
  /\ kernel = "catchUp"
  /\ ticksLeft > 0
  /\ AdvanceTick
  /\ UNCHANGED xPendedTicks

CatchUpDone ==
  /\ kernel = "catchUp"
  /\ ticksLeft = 0
  /\ xPendedTicks' = 0
  /\ yieldIrq' = xYieldPending
  /\ kernel' = "task"
  /\ pc' = [pc EXCEPT ![pxCurrentTCB] =
              IF @ = "resumeYield" /\ ~xYieldPending THEN "yield" ELSE "app"]
  /\ UNCHANGED << lists, events, tcbs, xNextTaskUnblockTime, xTickCount,
                  switchRequired, readied, ticksLeft, pxCurrentTCB,
                  uxSchedulerSuspended, xYieldPending, abortee >>
-----------------------------------------------------------------------------
\* The application makes the calls of ApiCalls; those that suspend the
\* scheduler begin with vTaskSuspendAll.
SuspendingCall ==
  \/ \E where \in {"app", "delay", "wait", "catchUp", "abort"} \cap ApiCalls :
       vTaskSuspendAll(where)
  \/ AppResumeAll \/ DelayUntilPassed \/ xTaskAbortDelay \/ xTaskResumeAll
  \/ \E t \in Task : AbortCheck(t)
  \/ \E ticks \in Delays : vTaskDelay(ticks) \/ vTaskPlaceOnEventList(ticks)
  \/ \E ticks \in 0..(MaxPended - xPendedTicks) : xTaskCatchUpTicks(ticks)

SuspendCall ==
  \/ SuspendResetsUnblockTime
  \/ /\ "suspend" \in ApiCalls
     /\ \E t \in Task : vTaskSuspend(t) \/ vTaskResume(t)

LifeCycleCall ==
  \/ /\ "delete" \in ApiCalls
     /\ \/ DeleteSelf
        \/ \E t \in Task : DeleteOther(t) \/ \E p \in Priority : Create(t, p)
  \/ \E t \in Task : prvCheckTasksWaitingTermination(t)

PriorityCall ==
  "priority" \in ApiCalls /\ \E t \in Task, p \in Priority : vTaskPrioritySet(t, p)

TaskStep ==
  \/ Yield \/ YieldWithinAPI \/ IdleYield \/ SuspendingCall \/ SuspendCall
  \/ LifeCycleCall \/ PriorityCall \/ \E t \in Task : Signal(t)

MaskedStep ==
  \/ WakeDone \/ TickEnd \/ DrainDone \/ CatchUpTick \/ CatchUpDone
  \/ \E t \in Task : WakeDue(t) \/ DrainPendingReady(t)

InterruptStep ==
  \/ TickISR \/ YieldISR
  \/ \E t \in Task, yields \in BOOLEAN :
       SignalFromISR(t, yields) \/ xTaskResumeFromISR(t, yields)

Boot == vTaskStartScheduler \/ \E t \in Task, p \in Priority : MainCreate(t, p)

Next == Boot \/ TaskStep \/ InterruptStep \/ MaskedStep

Spec == Init /\ [][Next]_vars
-----------------------------------------------------------------------------
\* Invariants.

Places == {"app", "delay", "wait", "catchUp", "abort", "abortBlocked",
           "suspendSelf", "suspendOther", "resume", "resumeYield", "yield"}

\* Every variable has its type.
TypeOK ==
  /\ xSchedulerRunning \in BOOLEAN
  /\ pxCurrentTCB \in Task \cup {NoTask}
  /\ uxCurrentNumberOfTasks \in Nat
  /\ uxPriority \in [Task -> Priority]
  /\ pxReadyTasksLists \in [Priority -> Seq(Task \cup {ListEnd})]
  /\ uxTopReadyPriority \in SUBSET Priority
  /\ pxDelayedTaskList \in SUBSET Task
  /\ pxOverflowDelayedTaskList \in SUBSET Task
  /\ xItemValue \in [Task -> TickType]
  /\ xSuspendedTaskList \in SUBSET Task
  /\ xTasksWaitingTermination \in SUBSET Task
  /\ xPendingReadyList \in SUBSET Task
  /\ eventList \in Seq(Task)
  /\ xNextTaskUnblockTime \in TickType
  /\ xTickCount \in TickType
  /\ uxSchedulerSuspended \in 0..MaxNest
  /\ xPendedTicks \in 0..MaxPended
  /\ xYieldPending \in BOOLEAN
  /\ yieldIrq \in BOOLEAN
  /\ pc \in [Task -> Places]
  /\ abortee \in Task \cup {NoTask}
  /\ kernel \in {"task", "drain", "catchUp", "wake", "tickEnd"}
  /\ ticksLeft \in 0..MaxPended
  /\ switchRequired \in BOOLEAN
  /\ readied \in BOOLEAN
  /\ toGo \in [Task -> Int]

\* A task's state item is in one list only, a ready task in the list of its
\* present priority, whatever moved it there: API calls, the tick, interrupts
\* and the drain of xPendingReadyList.
OneStateList ==
  /\ \A p \in Priority :
       /\ IsInjective(pxReadyTasksLists[p])
       /\ \A t \in Items(pxReadyTasksLists[p]) : uxPriority[t] = p
  /\ ReadyTasks \cap (Blocked \cup xSuspendedTaskList
                        \cup xTasksWaitingTermination) = {}
  /\ Blocked \cap (xSuspendedTaskList \cup xTasksWaitingTermination) = {}
  /\ xSuspendedTaskList \cap xTasksWaitingTermination = {}
  /\ pxDelayedTaskList \cap pxOverflowDelayedTaskList = {}

\* uxCurrentNumberOfTasks counts the tasks in the lists, through deletions of
\* other tasks, of oneself and the idle task's clean-up.
TaskCountExact == uxCurrentNumberOfTasks = Cardinality(Created)

\* A task's event item is in one list only, and only while the task is blocked
\* or suspended: a task made ready by one event is never woken by another.
EventItemsSound ==
  /\ IsInjective(eventList)
  /\ OnEventList \cap xPendingReadyList = {}
  /\ OnEventList \cup xPendingReadyList \subseteq Blocked \cup xSuspendedTaskList

\* The first task of an event list has the highest priority of those waiting:
\* xTaskRemoveFromEventList wakes it because of that.  vTaskPlaceOnEventList
\* inserts in this order; vTaskPrioritySet changes an item's value in place.
EventListInPriorityOrder ==
  \A i \in 1..Len(eventList) :
    uxPriority[eventList[i]] <= uxPriority[Head(eventList)]

\* xTaskIncrementTick looks at the delayed list only when the count reaches
\* xNextTaskUnblockTime, so that value must never be later than the first
\* task to wake; the functions that remove tasks may leave it early.
UnblockTimeSound ==
  kernel \notin {"wake"} =>
    \A t \in pxDelayedTaskList : xNextTaskUnblockTime <= xItemValue[t]

\* The wake time of a blocked task is its delay from now, in the list for this
\* turn of the tick count or in the overflow list for the next.
WakeTimesSound ==
  /\ \A t \in pxDelayedTaskList : xItemValue[t] = xTickCount + toGo[t]
  /\ \A t \in pxOverflowDelayedTaskList :
       xItemValue[t] + TickMod = xTickCount + toGo[t]

\* No wake-up is missed across a wrap of the tick count: when the tick handler
\* is done, every task still blocked has at least one tick to go.
NoLateWakeUp ==
  kernel # "wake" => \A t \in Blocked : toGo[t] > 0

\* When taskSWITCH_DELAYED_LISTS swaps the lists the current one is empty, as
\* the configASSERT in it demands.
SwitchedListEmpty ==
  xTickCount = portMAX_DELAY /\ kernel # "wake" => pxDelayedTaskList = {}

\* What the clock owes to a delay: from its call to the tick that ends it, the
\* task is in the right list at the right value, is looked at in time, and is
\* not left behind, across wraps, catch-ups, aborts and suspensions.
ClockSound ==
  /\ UnblockTimeSound /\ WakeTimesSound
  /\ NoLateWakeUp /\ SwitchedListEmpty

\* The record of the highest ready priority is never below it; with the port's
\* bitmap it is exact.
TopPriorityRecorded ==
  /\ \A p \in Occupied(pxReadyTasksLists) :
       \E q \in uxTopReadyPriority : q >= p
  /\ PortOptimised => uxTopReadyPriority = Occupied(pxReadyTasksLists)

\* Preemption: unless a switch is pending or deferred, no ready task has a
\* higher priority than the running one.
HighestRuns ==
  xSchedulerRunning /\ kernel = "task" /\ ~yieldIrq /\ ~xYieldPending
    /\ uxSchedulerSuspended = 0
  => \A p \in Occupied(pxReadyTasksLists) : p <= uxPriority[pxCurrentTCB]

\* What interrupts leave for xTaskResumeAll is gone when it returns.
NothingLeftPending ==
  uxSchedulerSuspended = 0 /\ kernel \notin {"drain", "catchUp", "wake", "tickEnd"}
  => xPendingReadyList = {} /\ xPendedTicks = 0

-----------------------------------------------------------------------------
\* Action properties.

\* With the scheduler suspended nothing but the running task changes the lists
\* of the state items, and there is no switch: interrupts only pend.
SuspensionProtectsLists ==
  [][uxSchedulerSuspended > 0 /\ InterruptStep =>
       UNCHANGED << lists, pxCurrentTCB, xTickCount >>]_vars

\* A task leaves the delay lists by the tick only when its delay is over.
TickNeverWakesEarly ==
  [][kernel = "wake" =>
       \A t \in Blocked : t \notin Blocked' => toGo[t] = 0]_vars
-----------------------------------------------------------------------------
\* Liveness.

\* The running task goes on with the API function it is in.
ApiStep(t) == pxCurrentTCB = t /\ pc[t] # "app" /\ TaskStep

\* The running task ends the suspension it asked for.
Resumes(t) == pxCurrentTCB = t /\ AppResumeAll

\* A masked loop runs to its end.  A requested interrupt stays latched while
\* interrupts are masked, so it is served in the end.  A task that keeps
\* getting the processor gets through the API function it is in and resumes
\* the scheduler that it suspended.
FairSpec ==
  /\ Spec
  /\ WF_vars(MaskedStep)
  /\ SF_vars(TickISR) /\ SF_vars(YieldISR)
  /\ \A t \in Task \ {Idle} : SF_vars(ApiStep(t)) /\ SF_vars(Resumes(t))

\* Every delay ends, whatever else tasks and interrupts do meanwhile.
DelayEnds == \A t \in Task : t \in Blocked ~> t \notin Blocked

\* Time slicing: a ready task of the highest ready priority gets the processor
\* unless its list or the highest ready priority changes.
Contends(t, p) ==
  /\ xSchedulerRunning
  /\ t \in Items(pxReadyTasksLists[p])
  /\ \A q \in Occupied(pxReadyTasksLists) : q <= p

TimeSlicing ==
  \A t \in Task, p \in Priority :
    Contends(t, p) ~> (pxCurrentTCB = t \/ ~Contends(t, p))
=============================================================================
