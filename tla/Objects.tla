------------------------------ MODULE Objects ------------------------------
(* How tasks, queues, timers and event groups come to be and pass away: what *)
(* they allocate and free, the counts of tasks, the task that runs first,    *)
(* and the queue registry.  The handles are the memory: heap has the parts   *)
(* of them that pvPortMalloc has given.  Allocation may fail at any time     *)
(* (where that leaves everything as it was, it is no step); the two frees of *)
(* a task are one step.  Once the scheduler runs, any ready task may run     *)
(* next.  Each handle is one caller's at a time: nobody deletes a task in    *)
(* the middle of a call or an object that another call uses.                 *)
EXTENDS Integers, FiniteSets, SequencesExt

CONSTANTS
  Main,                     \* main(), before the scheduler is started
  IdleTask, TimerTask, NoTask,
  Worker,                   \* the handles of the application's tasks
  Queues, Timers, EventGroups,
  TmrQ, NoQueue,
  Priorities,
  configQUEUE_REGISTRY_SIZE,
  EarlyDeletes              \* tasks are deleted before the scheduler is started

Task == Worker \cup {IdleTask, TimerTask}
Object == Queues \cup Timers \cup EventGroups
Entry == 1 .. configQUEUE_REGISTRY_SIZE

VARIABLES
  heap,
  statically,               \* ucStaticallyAllocated: "none", "stack" or "all"
  uxPriority,
  listed,                   \* the tasks whose state item is in a list
  xTasksWaitingTermination, uxDeletedTasksWaitingCleanUp,
  uxCurrentNumberOfTasks,
  pxCurrentTCB, xSchedulerRunning,
  objects,                  \* the queues, timers and event groups there are
  xTimerQueue,              \* it is created
  xQueueRegistry,
  ownPc                     \* where Main and the tasks are: the step, its handle, the entry

counts == << uxDeletedTasksWaitingCleanUp, uxCurrentNumberOfTasks >>
tasks == << uxPriority, listed, xTasksWaitingTermination, counts, pxCurrentTCB,
            xSchedulerRunning >>
others == << objects, xTimerQueue, xQueueRegistry >>
vars == << heap, statically, tasks, others, ownPc >>

AtRest == [at |-> "app", of |-> NoTask, entry |-> 0]

Init ==
  /\ heap = {} /\ statically = [h \in Task \cup Object |-> "none"]
  /\ uxPriority = [t \in Task |-> 0]
  /\ listed = {} /\ xTasksWaitingTermination = << >>
  /\ uxDeletedTasksWaitingCleanUp = 0 /\ uxCurrentNumberOfTasks = 0
  /\ pxCurrentTCB = NoTask /\ xSchedulerRunning = FALSE
  /\ objects = {} /\ xTimerQueue = FALSE
  /\ xQueueRegistry = [i \in Entry |-> NoQueue]
  /\ ownPc = [a \in Task \cup {Main} |-> AtRest]

Runs(a, at) ==
  /\ ownPc[a].at = at
  /\ a = IF xSchedulerRunning THEN pxCurrentTCB ELSE Main

\* The hook of the idle task does not block, and makes none of these calls.
App(a) == Runs(a, "app") /\ a # IdleTask

Goto(a, at, h) == ownPc' = [ownPc EXCEPT ![a] = [at |-> at, of |-> h, entry |-> 0]]
Return(a) == ownPc' = [ownPc EXCEPT ![a] = AtRest]

InUse(h) == \E a \in DOMAIN ownPc : ownPc[a].of = h

\* A task that deleted itself exists until the idle task has taken it.
Existing == listed \cup ToSet(xTasksWaitingTermination)

\* Nothing is left of handle h, so that it may be created (again).
Unused(h) ==
  /\ ~InUse(h) /\ h \notin Existing \cup objects
  /\ \A part \in heap : part[1] # h
-----------------------------------------------------------------------------
(* Tasks.                                                                   *)

\* The parts that prvDeleteTCB frees.
Freed(t) ==
  CASE statically[t] = "none" -> {<< t, "stack" >>, << t, "TCB" >>}
    [] statically[t] = "stack" -> {<< t, "TCB" >>}
    [] OTHER -> {}

\* What prvInitialiseNewTask writes that matters here.
prvInitialiseNewTask(t, p) == uxPriority' = [uxPriority EXCEPT ![t] = p]

\* What was freed has no fields.
Wipe(t) == uxPriority' = [uxPriority EXCEPT ![t] = 0]

\* The stack grows down, so it is allocated before the TCB.
prvCreateTask(a, t, p) ==
  /\ App(a) /\ Unused(t)
  /\ heap' = heap \cup {<< t, "stack" >>}
  /\ statically' = [statically EXCEPT ![t] = "none"]
  /\ prvInitialiseNewTask(t, p)
  /\ Goto(a, "TCB", t)
  /\ UNCHANGED << listed, xTasksWaitingTermination, counts, pxCurrentTCB,
                  xSchedulerRunning, others >>

\* Fault: the stack is kept when there is no memory for the TCB.
F_KeepsStack(a) ==
  LET t == ownPc[a].of
  IN /\ Runs(a, "TCB")
     /\ \/ heap' = heap \cup {<< t, "TCB" >>} /\ Goto(a, "add", t) /\ UNCHANGED uxPriority
        \/ Return(a) /\ Wipe(t) /\ UNCHANGED heap
     /\ UNCHANGED << statically, listed, xTasksWaitingTermination, counts, pxCurrentTCB,
                     xSchedulerRunning, others >>

\* Then the TCB; without memory for it the stack is given back.
AllocateTCB(a) ==
  LET t == ownPc[a].of
  IN /\ Runs(a, "TCB")
     /\ \/ heap' = heap \cup {<< t, "TCB" >>} /\ Goto(a, "add", t) /\ UNCHANGED uxPriority
        \/ heap' = heap \ {<< t, "stack" >>} /\ Return(a) /\ Wipe(t)
     /\ UNCHANGED << statically, listed, xTasksWaitingTermination, counts, pxCurrentTCB,
                     xSchedulerRunning, others >>

\* The caller provides the stack.
prvCreateRestrictedTask(a, t, p) ==
  /\ App(a) /\ Unused(t)
  /\ heap' = heap \cup {<< t, "TCB" >>}
  /\ statically' = [statically EXCEPT ![t] = "stack"]
  /\ prvInitialiseNewTask(t, p)
  /\ Goto(a, "add", t)
  /\ UNCHANGED << listed, xTasksWaitingTermination, counts, pxCurrentTCB,
                  xSchedulerRunning, others >>

\* The caller provides both.
prvCreateStaticTask(a, t, p) ==
  /\ App(a) /\ Unused(t)
  /\ statically' = [statically EXCEPT ![t] = "all"]
  /\ prvInitialiseNewTask(t, p)
  /\ Goto(a, "add", t)
  /\ UNCHANGED << heap, listed, xTasksWaitingTermination, counts, pxCurrentTCB,
                  xSchedulerRunning, others >>

\* Before the scheduler is started, the task that is to run first: the last
\* one created of the highest priority.
First(current, t, priority) ==
  IF current = NoTask \/ priority[current] <= priority[t] THEN t ELSE current

prvAddNewTaskToReadyList(a) ==
  LET t == ownPc[a].of
  IN /\ Runs(a, "add")
     /\ uxCurrentNumberOfTasks' = uxCurrentNumberOfTasks + 1
     /\ listed' = listed \cup {t}
     /\ pxCurrentTCB' = IF xSchedulerRunning THEN pxCurrentTCB
                        ELSE First(pxCurrentTCB, t, uxPriority)
     /\ Return(a)
     /\ UNCHANGED << heap, statically, uxPriority, xTasksWaitingTermination,
                     uxDeletedTasksWaitingCleanUp, xSchedulerRunning, others >>

\* vTaskStartScheduler in the build with static allocation: the idle task, the
\* timer queue and the timer task have memory of their own.
prvCheckForValidListAndQueue(registry) ==
  LET free == {i \in Entry : registry[i] = NoQueue}
  IN IF xTimerQueue \/ free = {} THEN registry
     ELSE [registry EXCEPT ![Min(free)] = TmrQ]

prvCreateIdleTasks(priority) ==
  [priority EXCEPT ![IdleTask] = 0]

xTimerCreateTimerTask(priority) ==
  [priority EXCEPT ![TimerTask] = CHOOSE p \in Priorities : \A q \in Priorities : q <= p]

vTaskStartScheduler ==
  LET priority == xTimerCreateTimerTask(prvCreateIdleTasks(uxPriority))
  IN /\ ~xSchedulerRunning /\ App(Main)
     /\ xSchedulerRunning' = TRUE
     /\ statically' = [statically EXCEPT ![IdleTask] = "all", ![TimerTask] = "all"]
     /\ uxPriority' = priority
     /\ listed' = listed \cup {IdleTask, TimerTask}
     /\ uxCurrentNumberOfTasks' = uxCurrentNumberOfTasks + 2
     /\ pxCurrentTCB' = First(First(pxCurrentTCB, IdleTask, priority), TimerTask, priority)
     /\ xTimerQueue' = TRUE
     /\ xQueueRegistry' = prvCheckForValidListAndQueue(xQueueRegistry)
     /\ UNCHANGED << heap, xTasksWaitingTermination, uxDeletedTasksWaitingCleanUp,
                     objects, ownPc >>

vTaskSwitchContext ==
  /\ xSchedulerRunning
  /\ pxCurrentTCB' \in listed
  /\ UNCHANGED << heap, statically, uxPriority, listed, xTasksWaitingTermination,
                  counts, xSchedulerRunning, others, ownPc >>

\* The running task cannot free itself and leaves that to the idle task.
DeleteSelf(a) ==
  /\ App(a) /\ a \in Worker
  /\ listed' = listed \ {a}
  /\ xTasksWaitingTermination' = Append(xTasksWaitingTermination, a)
  /\ uxDeletedTasksWaitingCleanUp' = uxDeletedTasksWaitingCleanUp + 1
  /\ Goto(a, "deleted", NoTask)
  /\ UNCHANGED << heap, statically, uxPriority, uxCurrentNumberOfTasks, pxCurrentTCB,
                  xSchedulerRunning, others >>

vTaskDelete(a, t) ==
  /\ App(a) /\ a # t
  /\ t \in listed \cap Worker /\ ownPc[t].at = "app"
  /\ xSchedulerRunning \/ EarlyDeletes
  /\ listed' = listed \ {t}
  /\ uxCurrentNumberOfTasks' = uxCurrentNumberOfTasks - 1
  /\ Goto(a, "free", t)
  /\ UNCHANGED << heap, statically, uxPriority, xTasksWaitingTermination,
                  uxDeletedTasksWaitingCleanUp, pxCurrentTCB, xSchedulerRunning, others >>

\* The idle task takes the task that waits longest.
prvCheckTasksWaitingTermination ==
  LET t == Head(xTasksWaitingTermination)
  IN /\ Runs(IdleTask, "app") /\ uxDeletedTasksWaitingCleanUp > 0
     /\ xTasksWaitingTermination' = Tail(xTasksWaitingTermination)
     /\ uxCurrentNumberOfTasks' = uxCurrentNumberOfTasks - 1
     /\ uxDeletedTasksWaitingCleanUp' = uxDeletedTasksWaitingCleanUp - 1
     /\ ownPc' = [ownPc EXCEPT ![IdleTask] = [at |-> "free", of |-> t, entry |-> 0],
                               ![t] = AtRest]
     /\ UNCHANGED << heap, statically, uxPriority, listed, pxCurrentTCB,
                     xSchedulerRunning, others >>

prvDeleteTCB(a) ==
  /\ Runs(a, "free")
  /\ heap' = heap \ Freed(ownPc[a].of)
  /\ Wipe(ownPc[a].of)
  /\ statically' = [statically EXCEPT ![ownPc[a].of] = "none"]
  /\ Return(a)
  /\ UNCHANGED << listed, xTasksWaitingTermination, counts, pxCurrentTCB,
                  xSchedulerRunning, others >>
-----------------------------------------------------------------------------
(* Queues, timers and event groups.                                         *)

Dynamic(o) ==
  /\ Unused(o)
  /\ heap' = heap \cup {<< o, "object" >>}
  /\ statically' = [statically EXCEPT ![o] = "none"]

Static(o) ==
  /\ Unused(o)
  /\ statically' = [statically EXCEPT ![o] = "all"]
  /\ UNCHANGED heap

\* The object is ready when the call returns.
Initialised(o) ==
  /\ objects' = objects \cup {o}
  /\ UNCHANGED << tasks, xTimerQueue, xQueueRegistry, ownPc >>

xQueueGenericCreate(a, o) == App(a) /\ Dynamic(o) /\ Initialised(o)

xQueueGenericCreateStatic(a, o) == App(a) /\ Static(o) /\ Initialised(o)

xEventGroupCreate(a, o) == App(a) /\ Dynamic(o) /\ Initialised(o)

xEventGroupCreateStatic(a, o) == App(a) /\ Static(o) /\ Initialised(o)

xTimerCreate(a, o) ==
  App(a) /\ Dynamic(o) /\ Goto(a, "timer", o) /\ UNCHANGED << tasks, others >>

xTimerCreateStatic(a, o) ==
  App(a) /\ Static(o) /\ Goto(a, "timer", o) /\ UNCHANGED << tasks, others >>

\* The first timer creates the lists and the queue of the timer task.
prvInitialiseNewTimer(a) ==
  /\ Runs(a, "timer")
  /\ xQueueRegistry' = prvCheckForValidListAndQueue(xQueueRegistry)
  /\ xTimerQueue' = TRUE
  /\ objects' = objects \cup {ownPc[a].of}
  /\ Return(a)
  /\ UNCHANGED << heap, statically, tasks >>

\* The entry that vQueueAddToRegistry writes is chosen without a lock: the one
\* that has the queue, or else the first that is free.
EntryFor(q) ==
  LET own == {i \in Entry : xQueueRegistry[i] = q}
      free == {i \in Entry : xQueueRegistry[i] = NoQueue}
  IN IF own # {} THEN Min(own) ELSE IF free # {} THEN Min(free) ELSE 0

vQueueAddToRegistry(a, q) ==
  /\ App(a) /\ q \in objects /\ ~InUse(q)
  /\ EntryFor(q) # 0
  /\ ownPc' = [ownPc EXCEPT ![a] = [at |-> "register", of |-> q, entry |-> EntryFor(q)]]
  /\ UNCHANGED << heap, statically, tasks, others >>

WriteEntry(a) ==
  /\ Runs(a, "register")
  /\ xQueueRegistry' = [xQueueRegistry EXCEPT ![ownPc[a].entry] = ownPc[a].of]
  /\ Return(a)
  /\ UNCHANGED << heap, statically, tasks, objects, xTimerQueue >>

Unregistered(q) ==
  LET own == {i \in Entry : xQueueRegistry[i] = q}
  IN IF own = {} THEN xQueueRegistry ELSE [xQueueRegistry EXCEPT ![Min(own)] = NoQueue]

vQueueUnregisterQueue(a, q) ==
  /\ App(a) /\ q \in objects /\ ~InUse(q)
  /\ xQueueRegistry' = Unregistered(q)
  /\ UNCHANGED << heap, statically, tasks, objects, xTimerQueue, ownPc >>

vQueueDelete(a, q) ==
  /\ App(a) /\ q \in objects \cap Queues /\ ~InUse(q)
  /\ xQueueRegistry' = Unregistered(q)
  /\ objects' = objects \ {q}
  /\ Goto(a, "freeObject", q)
  /\ UNCHANGED << heap, statically, tasks, xTimerQueue >>

\* The tasks that wait for the group are released first (module EventGroup).
vEventGroupDelete(a, o) ==
  /\ App(a) /\ o \in objects \cap EventGroups /\ ~InUse(o)
  /\ objects' = objects \ {o}
  /\ Goto(a, "freeObject", o)
  /\ UNCHANGED << heap, statically, tasks, xTimerQueue, xQueueRegistry >>

\* tmrCOMMAND_DELETE, which the timer task executes (module Timers).
DeleteTimer(o) ==
  /\ App(TimerTask) /\ o \in objects \cap Timers /\ ~InUse(o)
  /\ objects' = objects \ {o}
  /\ Goto(TimerTask, "freeObject", o)
  /\ UNCHANGED << heap, statically, tasks, xTimerQueue, xQueueRegistry >>

FreeObject(a) ==
  /\ Runs(a, "freeObject")
  /\ heap' = IF statically[ownPc[a].of] = "none"
             THEN heap \ {<< ownPc[a].of, "object" >>} ELSE heap
  /\ statically' = [statically EXCEPT ![ownPc[a].of] = "none"]
  /\ Return(a)
  /\ UNCHANGED << tasks, others >>

Next ==
  \/ vTaskStartScheduler \/ vTaskSwitchContext \/ prvCheckTasksWaitingTermination
  \/ \E o \in Timers : DeleteTimer(o)
  \/ \E a \in Task \cup {Main} :
       \/ AllocateTCB(a) \/ prvAddNewTaskToReadyList(a) \/ DeleteSelf(a)
       \/ prvDeleteTCB(a) \/ prvInitialiseNewTimer(a) \/ WriteEntry(a) \/ FreeObject(a)
       \/ \E t \in Worker :
            \/ vTaskDelete(a, t)
            \/ \E p \in Priorities :
                 \/ prvCreateTask(a, t, p) \/ prvCreateRestrictedTask(a, t, p)
                 \/ prvCreateStaticTask(a, t, p)
       \/ \E o \in Timers : xTimerCreate(a, o) \/ xTimerCreateStatic(a, o)
       \/ \E o \in EventGroups :
            \/ xEventGroupCreate(a, o) \/ xEventGroupCreateStatic(a, o)
            \/ vEventGroupDelete(a, o)
       \/ \E q \in Queues :
            \/ xQueueGenericCreate(a, q) \/ xQueueGenericCreateStatic(a, q)
            \/ vQueueAddToRegistry(a, q) \/ vQueueUnregisterQueue(a, q) \/ vQueueDelete(a, q)

Spec == Init /\ [][Next]_vars
-----------------------------------------------------------------------------
\* What the calls in progress have allocated and not yet handed over or freed.
InTransit(a) ==
  LET h == ownPc[a].of
  IN CASE ownPc[a].at = "TCB" -> {<< h, "stack" >>}
       [] ownPc[a].at \in {"add", "free"} -> Freed(h)
       [] ownPc[a].at \in {"timer", "freeObject"} /\ statically[h] = "none" -> {<< h, "object" >>}
       [] OTHER -> {}

\* Nothing is leaked, freed twice or freed too early: what is allocated is what
\* the existing tasks and objects and the calls in progress have, no more and
\* no less, whichever allocation failed.
MemoryAccounted ==
  heap = (UNION {Freed(t) : t \in Existing})
           \cup {<< o, "object" >> : o \in {o \in objects : statically[o] = "none"}}
           \cup (UNION {InTransit(a) : a \in DOMAIN ownPc})

\* The counts agree with the lists: the loop of the idle task relies on it.
CountsAgree ==
  /\ uxCurrentNumberOfTasks = Cardinality(Existing)
  /\ uxDeletedTasksWaitingCleanUp = Len(xTasksWaitingTermination)

\* The running task, or the one that will run first, exists, and is the
\* highest of those created until the scheduler is started.
CurrentExists ==
  /\ Existing # {} => pxCurrentTCB \in Existing
  /\ ~xSchedulerRunning => \A t \in listed : uxPriority[t] <= uxPriority[pxCurrentTCB]

\* No entry of the registry is of a queue that was deleted, and no queue has
\* two.
RegistryCurrent ==
  /\ \A i \in Entry : xQueueRegistry[i] \in objects \cup {NoQueue, TmrQ}
  /\ \A i, j \in Entry :
       xQueueRegistry[i] = xQueueRegistry[j] /\ xQueueRegistry[i] # NoQueue => i = j

ObjectsSound == MemoryAccounted /\ CountsAgree /\ CurrentExists /\ RegistryCurrent
=============================================================================
