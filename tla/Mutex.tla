------------------------------- MODULE Mutex -------------------------------
(***************************************************************************)
(* The mutexes of queue.c and semphr.h with the priority inheritance of    *)
(* tasks.c on one core.                                                    *)
(*                                                                         *)
(* Tasks take and give mutexes, sleep and change priorities.  One action   *)
(* is one critical section, or the stretch of xQueueSemaphoreTake with the *)
(* scheduler suspended: a mutex is not used by interrupts, so only the     *)
(* tick runs meanwhile, and its work waits for xTaskResumeAll.  Time is    *)
(* abstracted to its end: the tick may end any finite block time at any    *)
(* moment.  A ready list is the set of its tasks, so that a switch may go  *)
(* to any of them; it goes nowhere when the selected list is empty, where  *)
(* the code asserts that it is not.                                        *)
(***************************************************************************)
EXTENDS Integers, Sequences, SequencesExt, FiniteSets, FiniteSetsExt

CONSTANTS
  Task, Idle, NoTask,      \* the tasks, the idle task and NULL
  Mutexes, NoMutex,        \* the mutexes, and none of them
  Recursive,               \* those used by the recursive functions
  configMAX_PRIORITIES,
  CreatedWith,             \* the priority each task is created with
  BlockTimes,              \* of "none", "ticks" (finite) and "ever"
  NewPriorities,           \* the priorities vTaskPrioritySet is called with
  PortOptimised,           \* configUSE_PORT_OPTIMISED_TASK_SELECTION
  MaxRecursion             \* bound: nested recursive takes

Priority == 0..(configMAX_PRIORITIES - 1)

ASSUME MutexAssumption ==
  /\ Idle \in Task /\ NoTask \notin Task
  /\ NoMutex \notin Mutexes /\ Recursive \subseteq Mutexes
  /\ IsFiniteSet(Mutexes)
  /\ configMAX_PRIORITIES \in Nat \ {0}
  /\ CreatedWith \in [Task -> Priority] /\ NewPriorities \subseteq Priority
  /\ BlockTimes \subseteq {"none", "ticks", "ever"}
  /\ PortOptimised \in BOOLEAN
  /\ MaxRecursion \in Nat \ {0}

VARIABLES
  uxMessagesWaiting, xMutexHolder, uxRecursiveCallCount,   \* of each mutex
  xTasksWaitingToReceive,              \* of each mutex: its event list
  uxPriority, uxBasePriority, uxMutexesHeld,               \* of each task
  eventPriority,                       \* MAX_PRIORITIES - xEventListItem's value
  pxReadyTasksLists, uxTopReadyPriority,
  pxDelayed,                           \* tasks on either delayed list
  xSuspended,                          \* tasks on the suspended list
  pxCurrentTCB,
  yieldIrq,                            \* a context switch is requested
  pc, mutex, xTicksToWait, xInheritanceOccurred,   \* a task's call of Take
  owned                                \* history: takes that have returned

mutexes == << uxMessagesWaiting, xMutexHolder, uxRecursiveCallCount, owned >>
waiting == << xTasksWaitingToReceive, pxDelayed, xSuspended >>
priorities == << uxPriority, uxBasePriority, eventPriority >>
lists == << pxReadyTasksLists, uxTopReadyPriority >>
call == << pc, mutex, xTicksToWait, xInheritanceOccurred >>
vars == << mutexes, waiting, priorities, uxMutexesHeld, lists, pxCurrentTCB,
           yieldIrq, call >>
-----------------------------------------------------------------------------
\* The ready lists, as one value: the tasks of each and the recorded priorities.

Lists == [ready |-> pxReadyTasksLists, top |-> uxTopReadyPriority]

SetLists(l) == pxReadyTasksLists' = l.ready /\ uxTopReadyPriority' = l.top

taskRECORD_READY_PRIORITY(top, p) ==
  IF PortOptimised THEN top \cup {p}
  ELSE IF Max(top) < p THEN {p} ELSE top

portRESET_READY_PRIORITY(top, p) == IF PortOptimised THEN top \ {p} ELSE top

prvAddTaskToReadyList(l, t, p) ==
  [ready |-> [l.ready EXCEPT ![p] = @ \cup {t}],
   top   |-> taskRECORD_READY_PRIORITY(l.top, p)]

\* uxListRemove of t from the ready list of p, and the reset of the record of
\* "bit" when that list is left empty.
RemoveReady(l, t, p, bit) ==
  LET left == [l.ready EXCEPT ![p] = @ \ {t}]
  IN  [ready |-> left,
       top   |-> IF left[p] = {} THEN portRESET_READY_PRIORITY(l.top, bit)
                                 ELSE l.top]

IsReady(t) == t \in pxReadyTasksLists[uxPriority[t]]

\* Fault: the task stays in the list of its old priority.
F_StaysInList(t, p, q) == Lists

\* t changes from priority p to q, which its ready list has to follow.
MoveReady(t, p, q) ==
  IF IsReady(t) THEN prvAddTaskToReadyList(RemoveReady(Lists, t, p, p), t, q)
                ELSE Lists

SelectedPriority ==
  IF PortOptimised THEN Max(uxTopReadyPriority)
  ELSE Max({p \in Priority :
              pxReadyTasksLists[p] # {} /\ p <= Max(uxTopReadyPriority)})
-----------------------------------------------------------------------------
\* The event list of a mutex, in the order of the event items' values.

Waiters(m) == ToSet(xTasksWaitingToReceive[m])

\* vListInsert of t into the event list s.
EventInsert(s, t) ==
  LET lower == {i \in 1..Len(s) : eventPriority[s[i]] < eventPriority[t]}
  IN  InsertAt(s, IF lower = {} THEN Len(s) + 1 ELSE Min(lower), t)

\* uxListRemove of t from the event list s, if it is in it.
Without(s, t) ==
  IF t \in ToSet(s) THEN RemoveAt(s, CHOOSE i \in 1..Len(s) : s[i] = t) ELSE s

\* Fault: the first waiter is not looked at.
F_IdlePriority(m) == 0

\* The priority of the first waiter.
prvGetDisinheritPriorityAfterTimeout(m) ==
  IF xTasksWaitingToReceive[m] = << >> THEN 0
  ELSE eventPriority[Head(xTasksWaitingToReceive[m])]
-----------------------------------------------------------------------------
Init ==
  /\ uxMessagesWaiting = [m \in Mutexes |-> 1]
  /\ xMutexHolder = [m \in Mutexes |-> NoTask]
  /\ uxRecursiveCallCount = [m \in Mutexes |-> 0]
  /\ owned = [t \in Task |-> {}]
  /\ xTasksWaitingToReceive = [m \in Mutexes |-> << >>]
  /\ pxDelayed = {} /\ xSuspended = {}
  /\ uxPriority = CreatedWith
  /\ uxBasePriority = CreatedWith
  /\ eventPriority = CreatedWith
  /\ uxMutexesHeld = [t \in Task |-> 0]
  /\ pxReadyTasksLists = [p \in Priority |-> {t \in Task : CreatedWith[t] = p}]
  /\ uxTopReadyPriority =
       LET used == {CreatedWith[t] : t \in Task}
       IN  IF PortOptimised THEN used ELSE {Max(used)}
  /\ pxCurrentTCB \in {t \in Task : \A u \in Task :
                                      CreatedWith[u] <= CreatedWith[t]}
  /\ yieldIrq = FALSE
  /\ pc = [t \in Task |-> "app"]
  /\ mutex = [t \in Task |-> NoMutex]
  /\ xTicksToWait = [t \in Task |-> "none"]
  /\ xInheritanceOccurred = [t \in Task |-> FALSE]

\* The running task is at this point; a requested switch comes first.
At(label) == ~yieldIrq /\ pc[pxCurrentTCB] = label

Goto(label) == pc' = [pc EXCEPT ![pxCurrentTCB] = label]

\* The running task returns from Take; its locals are gone.
ReturnFromTake ==
  /\ Goto("app")
  /\ mutex' = [mutex EXCEPT ![pxCurrentTCB] = NoMutex]
  /\ xTicksToWait' = [xTicksToWait EXCEPT ![pxCurrentTCB] = "none"]
  /\ xInheritanceOccurred' = [xInheritanceOccurred EXCEPT ![pxCurrentTCB] = FALSE]

\* The mutex of the running task's call.
m0 == mutex[pxCurrentTCB]
-----------------------------------------------------------------------------
\* Taking.

\* xQueueTakeMutexRecursive of a mutex that the caller holds.
TakeAgain(m) ==
  /\ At("app")
  /\ m \in Recursive /\ xMutexHolder[m] = pxCurrentTCB
  /\ uxRecursiveCallCount[m] < MaxRecursion
  /\ uxRecursiveCallCount' = [uxRecursiveCallCount EXCEPT ![m] = @ + 1]
  /\ UNCHANGED << uxMessagesWaiting, xMutexHolder, owned, waiting, priorities,
                  uxMutexesHeld, lists, pxCurrentTCB, yieldIrq, call >>

\* xQueueSemaphoreTake is called, by xQueueTakeMutexRecursive or directly.  A
\* task does not wait for itself.
xQueueSemaphoreTake(m, ticks) ==
  /\ At("app")
  /\ pxCurrentTCB # Idle
  /\ xMutexHolder[m] # pxCurrentTCB
  /\ Goto("take")
  /\ mutex' = [mutex EXCEPT ![pxCurrentTCB] = m]
  /\ xTicksToWait' = [xTicksToWait EXCEPT ![pxCurrentTCB] = ticks]
  /\ UNCHANGED << mutexes, waiting, priorities, uxMutexesHeld, lists,
                  pxCurrentTCB, yieldIrq, xInheritanceOccurred >>

\* Fault: the count is not tested.
F_AlwaysAvailable(m) == TRUE

Available(m) == uxMessagesWaiting[m] > 0

pvTaskIncrementMutexHeldCount(t) == uxMutexesHeld[t] + 1

\* Its first critical section finds the mutex free.
TakeSucceeds ==
  /\ At("take")
  /\ Available(m0)
  /\ uxMessagesWaiting' = [uxMessagesWaiting EXCEPT ![m0] = 0]
  /\ xMutexHolder' = [xMutexHolder EXCEPT ![m0] = pxCurrentTCB]
  /\ uxMutexesHeld' = [uxMutexesHeld EXCEPT ![pxCurrentTCB] =
                         pvTaskIncrementMutexHeldCount(pxCurrentTCB)]
  /\ IF m0 \in Recursive
     THEN Goto("count") /\ UNCHANGED << owned, mutex, xTicksToWait,
                                        xInheritanceOccurred >>
     ELSE /\ ReturnFromTake
          /\ owned' = [owned EXCEPT ![pxCurrentTCB] = @ \cup {m0}]
  /\ UNCHANGED << uxRecursiveCallCount, waiting, priorities, lists,
                  pxCurrentTCB, yieldIrq >>

\* xQueueTakeMutexRecursive counts the take it has made.
CountTake ==
  /\ At("count")
  /\ uxRecursiveCallCount' = [uxRecursiveCallCount EXCEPT ![m0] = @ + 1]
  /\ owned' = [owned EXCEPT ![pxCurrentTCB] = @ \cup {m0}]
  /\ ReturnFromTake
  /\ UNCHANGED << uxMessagesWaiting, xMutexHolder, waiting, priorities,
                  uxMutexesHeld, lists, pxCurrentTCB, yieldIrq >>

\* It finds the mutex taken, and fails when there is no time to wait.
TakeFails ==
  /\ At("take")
  /\ ~Available(m0)
  /\ IF xTicksToWait[pxCurrentTCB] = "none"
     THEN ReturnFromTake
     ELSE Goto("check") /\ UNCHANGED << mutex, xTicksToWait,
                                        xInheritanceOccurred >>
  /\ UNCHANGED << mutexes, waiting, priorities, uxMutexesHeld, lists,
                  pxCurrentTCB, yieldIrq >>

\* Fault: nobody inherits.
F_NeverInherits(t, u) == FALSE

\* The holder t has a lower priority than the waiter u.
Inherits(t, u) == uxPriority[t] < uxPriority[u]

\* The ready lists once h has inherited the running task's priority.
ListsInherited(h) ==
  IF h # NoTask /\ Inherits(h, pxCurrentTCB)
  THEN MoveReady(h, uxPriority[h], uxPriority[pxCurrentTCB])
  ELSE Lists

\* The rest of xTaskPriorityInherit(h), and its result.
xTaskPriorityInherit(h) ==
  LET p == uxPriority[pxCurrentTCB]
      result == h # NoTask /\ (Inherits(h, pxCurrentTCB) \/ uxBasePriority[h] < p)
  IN  /\ xInheritanceOccurred' =
           [xInheritanceOccurred EXCEPT ![pxCurrentTCB] = result]
      /\ IF h # NoTask /\ Inherits(h, pxCurrentTCB)
         THEN /\ uxPriority' = [uxPriority EXCEPT ![h] = p]
              /\ eventPriority' = [eventPriority EXCEPT ![h] = p]
         ELSE UNCHANGED << uxPriority, eventPriority >>

\* vTaskPlaceOnEventList of the running task, from the ready lists l.
vTaskPlaceOnEventList(l) ==
  LET p == uxPriority[pxCurrentTCB]
  IN  /\ xTasksWaitingToReceive' = [xTasksWaitingToReceive EXCEPT
                                      ![m0] = EventInsert(@, pxCurrentTCB)]
      /\ SetLists(RemoveReady(l, pxCurrentTCB, p, p))
      /\ IF xTicksToWait[pxCurrentTCB] = "ever"
         THEN xSuspended' = xSuspended \cup {pxCurrentTCB} /\ UNCHANGED pxDelayed
         ELSE pxDelayed' = pxDelayed \cup {pxCurrentTCB} /\ UNCHANGED xSuspended

\* With the scheduler suspended: there is time left and the mutex is taken.
TakeBlocks ==
  /\ At("check")
  /\ xTicksToWait[pxCurrentTCB] \in {"ticks", "ever"}
  /\ uxMessagesWaiting[m0] = 0
  /\ xTaskPriorityInherit(xMutexHolder[m0])
  /\ vTaskPlaceOnEventList(ListsInherited(xMutexHolder[m0]))
  /\ Goto("take")
  /\ yieldIrq' = TRUE
  /\ UNCHANGED << mutexes, uxBasePriority, uxMutexesHeld, pxCurrentTCB, mutex,
                  xTicksToWait >>

\* There is time left and the mutex is free again.
TakeRetries ==
  /\ At("check")
  /\ xTicksToWait[pxCurrentTCB] \in {"ticks", "ever"}
  /\ uxMessagesWaiting[m0] > 0
  /\ Goto("take")
  /\ UNCHANGED << mutexes, waiting, priorities, uxMutexesHeld, lists,
                  pxCurrentTCB, yieldIrq, mutex, xTicksToWait,
                  xInheritanceOccurred >>

\* xTaskCheckForTimeOut finds the time over.
TakeExpires ==
  /\ At("check")
  /\ xTicksToWait[pxCurrentTCB] \in {"ticks", "over"}
  /\ Goto("expired")
  /\ xTicksToWait' = [xTicksToWait EXCEPT ![pxCurrentTCB] = "none"]
  /\ UNCHANGED << mutexes, waiting, priorities, uxMutexesHeld, lists,
                  pxCurrentTCB, yieldIrq, mutex, xInheritanceOccurred >>

\* After the time-out: a mutex that is free is tried once more, else Take
\* fails, once the holder has disinherited what it inherited.
AfterTimeOut ==
  /\ At("expired")
  /\ IF uxMessagesWaiting[m0] > 0
     THEN Goto("take") /\ UNCHANGED << mutex, xTicksToWait, xInheritanceOccurred >>
     ELSE IF xInheritanceOccurred[pxCurrentTCB]
     THEN Goto("disinherit") /\ UNCHANGED << mutex, xTicksToWait,
                                             xInheritanceOccurred >>
     ELSE ReturnFromTake
  /\ UNCHANGED << mutexes, waiting, priorities, uxMutexesHeld, lists,
                  pxCurrentTCB, yieldIrq >>

\* Fault: what was inherited is kept after a time-out.
F_KeepsInherited(h, p) == FALSE

\* Whether vTaskPriorityDisinheritAfterTimeout changes h's priority to p.
Disinherits(h, p) ==
  h # NoTask /\ uxPriority[h] # p /\ uxMutexesHeld[h] = 1

\* The call of vTaskPriorityDisinheritAfterTimeout, and Take fails.  The
\* priority whose record it resets is the one that the task has from now on.
vTaskPriorityDisinheritAfterTimeout ==
  /\ At("disinherit")
  /\ LET h == xMutexHolder[m0]
         p == Max({IF h = NoTask THEN 0 ELSE uxBasePriority[h],
                   prvGetDisinheritPriorityAfterTimeout(m0)})
     IN  IF Disinherits(h, p)
         THEN /\ uxPriority' = [uxPriority EXCEPT ![h] = p]
              /\ eventPriority' = [eventPriority EXCEPT ![h] = p]
              /\ IF IsReady(h)
                 THEN SetLists(prvAddTaskToReadyList(
                        RemoveReady(Lists, h, uxPriority[h], p), h, p))
                 ELSE UNCHANGED lists
         ELSE UNCHANGED << uxPriority, eventPriority, lists >>
  /\ ReturnFromTake
  /\ UNCHANGED << mutexes, waiting, uxBasePriority, uxMutexesHeld,
                  pxCurrentTCB, yieldIrq >>
-----------------------------------------------------------------------------
\* Giving.

\* xQueueGiveMutexRecursive gives the mutex back.
LastGive(m) == uxRecursiveCallCount[m] = 1

\* xQueueGiveMutexRecursive of a mutex taken more than once.
GiveOnce(m) ==
  /\ At("app")
  /\ m \in Recursive
  /\ xMutexHolder[m] = pxCurrentTCB
  /\ ~LastGive(m)
  /\ uxRecursiveCallCount' = [uxRecursiveCallCount EXCEPT ![m] = @ - 1]
  /\ UNCHANGED << uxMessagesWaiting, xMutexHolder, owned, waiting, priorities,
                  uxMutexesHeld, lists, pxCurrentTCB, yieldIrq, call >>

\* Fault: the count is tested before it is decremented.
F_TestedTooEarly(t) == uxPriority[t] # uxBasePriority[t] /\ uxMutexesHeld[t] = 0

\* xTaskPriorityDisinherit lowers t's priority: it gives back its last mutex.
LowersOnGive(t) == uxPriority[t] # uxBasePriority[t] /\ uxMutexesHeld[t] = 1

\* Fault: waiters are not looked for.
F_NobodyWaits(m) == FALSE

SomeoneWaits(m) == xTasksWaitingToReceive[m] # << >>

\* The event list of m loses its first waiter.
FirstLeaves(m) ==
  LET u == Head(xTasksWaitingToReceive[m])
  IN  /\ xTasksWaitingToReceive' = [xTasksWaitingToReceive EXCEPT ![m] = Tail(@)]
      /\ pxDelayed' = pxDelayed \ {u}
      /\ xSuspended' = xSuspended \ {u}

\* The last give of a mutex, by its holder: xQueueGenericSend with no time to
\* wait.  Its critical section lets the holder disinherit, frees the mutex and
\* readies the first waiter.  It yields for a waiter of a higher priority, and
\* if nobody waits also when the holder's priority was lowered.
xQueueSemaphoreGive(m) ==
  /\ At("app")
  /\ xMutexHolder[m] = pxCurrentTCB
  /\ m \in Recursive => LastGive(m)
  /\ uxRecursiveCallCount' = [uxRecursiveCallCount EXCEPT
                                ![m] = IF m \in Recursive THEN @ - 1 ELSE @]
  /\ uxMutexesHeld' = [uxMutexesHeld EXCEPT ![pxCurrentTCB] = @ - 1]
  /\ xMutexHolder' = [xMutexHolder EXCEPT ![m] = NoTask]
  /\ uxMessagesWaiting' = [uxMessagesWaiting EXCEPT ![m] = @ + 1]
  /\ owned' = [owned EXCEPT ![pxCurrentTCB] = @ \ {m}]
  /\ LET t == pxCurrentTCB
         lowers == LowersOnGive(t)
         p == IF lowers THEN uxBasePriority[t] ELSE uxPriority[t]
         l == IF lowers THEN MoveReady(t, uxPriority[t], p) ELSE Lists
         first == Head(xTasksWaitingToReceive[m])
     IN  /\ uxPriority' = [uxPriority EXCEPT ![t] = p]
         /\ eventPriority' = IF lowers THEN [eventPriority EXCEPT ![t] = p]
                                       ELSE eventPriority
         /\ IF SomeoneWaits(m)
            THEN /\ FirstLeaves(m)
                 /\ SetLists(prvAddTaskToReadyList(l, first, uxPriority[first]))
                 /\ yieldIrq' = (uxPriority[first] > p)
            ELSE /\ SetLists(l)
                 /\ yieldIrq' = lowers
                 /\ UNCHANGED waiting
  /\ UNCHANGED << uxBasePriority, pxCurrentTCB, call >>
-----------------------------------------------------------------------------
\* What else tasks and the tick do.

\* vTaskDelay.
vTaskDelay ==
  LET p == uxPriority[pxCurrentTCB]
  IN  /\ At("app")
      /\ pxCurrentTCB # Idle
      /\ SetLists(RemoveReady(Lists, pxCurrentTCB, p, p))
      /\ pxDelayed' = pxDelayed \cup {pxCurrentTCB}
      /\ yieldIrq' = TRUE
      /\ UNCHANGED << mutexes, xTasksWaitingToReceive, xSuspended, priorities,
                      uxMutexesHeld, pxCurrentTCB, call >>

\* An inherited priority stays while it is higher than the new one.
Follows(t, p) == uxBasePriority[t] = uxPriority[t] \/ p > uxPriority[t]

vTaskPrioritySet(t, p) ==
  LET q == IF Follows(t, p) THEN p ELSE uxPriority[t]
  IN  /\ At("app")
      /\ p # uxBasePriority[t]
      /\ uxBasePriority' = [uxBasePriority EXCEPT ![t] = p]
      /\ uxPriority' = [uxPriority EXCEPT ![t] = q]
      /\ eventPriority' = [eventPriority EXCEPT ![t] = p]
      /\ SetLists(MoveReady(t, uxPriority[t], q))
      /\ yieldIrq' = IF p > uxBasePriority[t]
                     THEN t # pxCurrentTCB /\ p > uxPriority[pxCurrentTCB]
                     ELSE t = pxCurrentTCB
      /\ UNCHANGED << mutexes, waiting, uxMutexesHeld, pxCurrentTCB, call >>

\* The tick ends the delay or the block time of t.
TickWakes(t) ==
  /\ t \in pxDelayed
  /\ pxDelayed' = pxDelayed \ {t}
  /\ xTasksWaitingToReceive' =
       [m \in Mutexes |-> Without(xTasksWaitingToReceive[m], t)]
  /\ xTicksToWait' = [xTicksToWait EXCEPT ![t] =
                        IF mutex[t] = NoMutex THEN @ ELSE "over"]
  /\ SetLists(prvAddTaskToReadyList(Lists, t, uxPriority[t]))
  /\ yieldIrq' = (yieldIrq \/ uxPriority[t] > uxPriority[pxCurrentTCB])
  /\ UNCHANGED << mutexes, xSuspended, priorities, uxMutexesHeld, pxCurrentTCB,
                  pc, mutex, xInheritanceOccurred >>

\* The tick lets the ready tasks of the running task's priority share.
TickTimeSlice ==
  /\ ~yieldIrq
  /\ Cardinality(pxReadyTasksLists[uxPriority[pxCurrentTCB]]) > 1
  /\ yieldIrq' = TRUE
  /\ UNCHANGED << mutexes, waiting, priorities, uxMutexesHeld, lists,
                  pxCurrentTCB, call >>

vTaskSwitchContext(t) ==
  /\ yieldIrq
  /\ t \in pxReadyTasksLists[SelectedPriority]
  /\ pxCurrentTCB' = t
  /\ uxTopReadyPriority' = IF PortOptimised THEN uxTopReadyPriority
                                            ELSE {SelectedPriority}
  /\ yieldIrq' = FALSE
  /\ UNCHANGED << mutexes, waiting, priorities, uxMutexesHeld,
                  pxReadyTasksLists, call >>

TakeStep ==
  \/ TakeSucceeds \/ CountTake \/ TakeFails \/ TakeBlocks \/ TakeRetries
  \/ TakeExpires \/ AfterTimeOut \/ vTaskPriorityDisinheritAfterTimeout

GiveStep == \E m \in Mutexes : GiveOnce(m) \/ xQueueSemaphoreGive(m)

Next ==
  \/ TakeStep
  \/ GiveStep
  \/ \E m \in Mutexes :
       \/ TakeAgain(m)
       \/ \E ticks \in BlockTimes : xQueueSemaphoreTake(m, ticks)
  \/ vTaskDelay
  \/ \E t \in Task \ {Idle}, p \in NewPriorities : vTaskPrioritySet(t, p)
  \/ \E t \in Task : TickWakes(t) \/ vTaskSwitchContext(t)
  \/ TickTimeSlice

Spec == Init /\ [][Next]_vars
-----------------------------------------------------------------------------
\* Safety.

\* Every variable has its type; a count of mutexes held is never negative.
TypeOK ==
  /\ uxMessagesWaiting \in [Mutexes -> {0, 1}]
  /\ xMutexHolder \in [Mutexes -> Task \cup {NoTask}]
  /\ uxRecursiveCallCount \in [Mutexes -> 0..MaxRecursion]
  /\ owned \in [Task -> SUBSET Mutexes]
  /\ xTasksWaitingToReceive \in [Mutexes -> Seq(Task)]
  /\ pxDelayed \subseteq Task /\ xSuspended \subseteq Task
  /\ uxPriority \in [Task -> Priority]
  /\ uxBasePriority \in [Task -> Priority]
  /\ eventPriority \in [Task -> Priority]
  /\ uxMutexesHeld \in [Task -> Nat]
  /\ pxReadyTasksLists \in [Priority -> SUBSET Task]
  /\ uxTopReadyPriority \subseteq Priority
  /\ pxCurrentTCB \in Task
  /\ yieldIrq \in BOOLEAN
  /\ pc \in [Task -> {"app", "take", "count", "check", "expired", "disinherit"}]
  /\ mutex \in [Task -> Mutexes \cup {NoMutex}]
  /\ xTicksToWait \in [Task -> {"none", "ticks", "ever", "over"}]
  /\ xInheritanceOccurred \in [Task -> BOOLEAN]

\* The mutexes that t has taken, whether or not its call has returned.
HeldBy(t) == {m \in Mutexes : xMutexHolder[m] = t}

\* A mutex whose take returned to one task is not free and not another's; a
\* recursive one has been counted.  uxMutexesHeld, on which disinheriting
\* depends, is the number of mutexes that a task holds.
MutualExclusion ==
  /\ \A m \in Mutexes :
       /\ \A t \in Task : m \in owned[t] => xMutexHolder[m] = t
       /\ (xMutexHolder[m] = NoTask) = (uxMessagesWaiting[m] = 1)
       /\ m \in Recursive => (uxRecursiveCallCount[m] > 0)
                             = (\E t \in Task : m \in owned[t])
  /\ \A t \in Task : uxMutexesHeld[t] = Cardinality(HeldBy(t))

\* A task runs at its own priority or a higher one, and at its own if it holds
\* nothing: inheritance ends with the last mutex, whatever was set meanwhile.
BasePriorityKept ==
  \A t \in Task : /\ uxPriority[t] >= uxBasePriority[t]
                  /\ HeldBy(t) = {} => uxPriority[t] = uxBasePriority[t]

\* Every task is in the ready list of its priority or on one other list, and
\* tasks wait for the mutex that they asked for.
OneList ==
  /\ \A t \in Task : /\ \A p \in Priority : t \in pxReadyTasksLists[p] =>
                                              p = uxPriority[t]
                     /\ IsReady(t) = (t \notin pxDelayed \cup xSuspended)
  /\ pxDelayed \cap xSuspended = {}
  /\ xSuspended \subseteq UNION {Waiters(m) : m \in Mutexes}
  /\ \A m \in Mutexes : \A t \in Waiters(m) :
       mutex[t] = m /\ t \in pxDelayed \cup xSuspended

\* No priority inversion: a task that waits for a mutex waits for a holder
\* that runs at its priority or a higher one.
NoInversion ==
  \A m \in Mutexes : \A u \in Waiters(m) :
    xMutexHolder[m] # NoTask => uxPriority[xMutexHolder[m]] >= uxPriority[u]

\* u is in a call that has made, or may have made, the holder of m inherit.
InCallOf(m, u) ==
  mutex[u] = m /\ (u \in Waiters(m) \/ pc[u] \in {"take", "check", "expired",
                                                  "disinherit"})

\* A raised priority has a reason: a task of that priority is in a call of Take
\* of a mutex that the raised task holds.
InheritsForAWaiter ==
  \A t \in Task :
    uxPriority[t] > uxBasePriority[t] =>
      \E m \in HeldBy(t), u \in Task :
        InCallOf(m, u) /\ uxPriority[u] >= uxPriority[t]

\* Nobody is left waiting for a mutex that is free while no task is on its way
\* to take it.
FreeMutexIsSought ==
  \A m \in Mutexes :
    uxMessagesWaiting[m] = 1 /\ Waiters(m) # {} =>
      \E u \in Task : mutex[u] = m /\ IsReady(u)

\* Where a switch looks for a task there is one, as the assertion of
\* taskSELECT_HIGHEST_PRIORITY_TASK says.
SelectsOccupiedList ==
  yieldIrq /\ PortOptimised => /\ uxTopReadyPriority # {}
                               /\ pxReadyTasksLists[SelectedPriority] # {}

\* No ready task has a higher priority than the running one unless a switch is
\* requested.
HighestRuns ==
  ~yieldIrq => \A t \in Task : IsReady(t) => uxPriority[t] <= uxPriority[pxCurrentTCB]
-----------------------------------------------------------------------------
\* Liveness.

\* A task that keeps running goes on with its call and gives back what it took.
\* Equal tasks share, which the time slices of the tick bring about.  The tick
\* comes.
FairSpec ==
  /\ Spec
  /\ \A t \in Task :
       /\ SF_vars(pxCurrentTCB = t /\ (TakeStep \/ GiveStep))
       /\ SF_vars(vTaskSwitchContext(t))
       /\ WF_vars(TickWakes(t))
  /\ WF_vars(TickTimeSlice)

\* A waiter of the highest priority gets the mutex, or its time is over,
\* although a task of a priority in between never stops.
HighestTaskServed ==
  \A t \in Task, m \in Mutexes :
    (\A u \in Task \ {t} : CreatedWith[u] < CreatedWith[t]) =>
      (t \in Waiters(m) ~> xMutexHolder[m] = t \/ xTicksToWait[t] = "over")
=============================================================================
