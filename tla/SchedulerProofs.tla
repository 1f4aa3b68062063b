-------------------------- MODULE SchedulerProofs --------------------------
(***************************************************************************)
(* The invariants of the scheduler's lists, and then what the scheduler    *)
(* owes to its tasks, for any number of tasks and priorities, any width of *)
(* the tick count and any bounds.                                          *)
(***************************************************************************)
EXTENDS Scheduler, ListRingProofs, FiniteSetTheorems

\* The tasks of an array of ready lists.
Members(ready) == UNION {Items(ready[p]) : p \in Priority}

\* The record of ready priorities fits an array of ready lists: the bitmap is
\* exact, the generic record is one priority, not below any occupied list.
TopOK(top, ready) ==
  IF PortOptimised THEN top = Occupied(ready)
  ELSE \E q \in Priority : top = {q} /\ \A p \in Occupied(ready) : p <= q

\* The ready lists are rings of tasks.
ReadyOK(ready) ==
  /\ ready \in [Priority -> Seq(Task \cup {ListEnd})]
  /\ \A p \in Priority : IsRing(ready[p], Task)

\* The state lists as one: rings of tasks of the right priority, and no task in
\* two lists.
ListsOK(ready, top, delayed, overflow, suspended, terminated, priority) ==
  /\ ReadyOK(ready)
  /\ top \in SUBSET Priority
  /\ TopOK(top, ready)
  /\ delayed \in SUBSET Task /\ overflow \in SUBSET Task
  /\ suspended \in SUBSET Task /\ terminated \in SUBSET Task
  /\ priority \in [Task -> Priority]
  /\ \A p \in Priority : \A t \in Items(ready[p]) : priority[t] = p
  /\ \A t \in Task :
       /\ t \in Members(ready) =>
            t \notin delayed \cup overflow \cup suspended \cup terminated
       /\ t \in delayed => t \notin overflow \cup suspended \cup terminated
       /\ t \in overflow => t \notin suspended \cup terminated
       /\ t \in suspended => t \notin terminated

Lists ==
  ListsOK(pxReadyTasksLists, uxTopReadyPriority, pxDelayedTaskList,
          pxOverflowDelayedTaskList, xSuspendedTaskList,
          xTasksWaitingTermination, uxPriority)

\* Inside a suspension that an API function of the kernel began.
Suspending == {"delay", "wait", "catchUp", "abort", "abortBlocked", "resume",
               "resumeYield"}

\* Where the running task is still in a ready list.
StillReady == {"app", "delay", "wait", "catchUp", "abort", "abortBlocked",
               "resume", "suspendOther"}

\* The masked loops of xTaskResumeAll, the ticks it makes up for included.
InResume == \/ kernel \in {"drain", "catchUp"}
            \/ kernel \in {"wake", "tickEnd"} /\ ticksLeft > 0

\* What the places of the tasks say about the suspension and the masked loops.
Control ==
  /\ xSchedulerRunning => pxCurrentTCB \in Task /\ Idle \in ReadyTasks
  /\ ~xSchedulerRunning =>
       /\ kernel = "task" /\ ~yieldIrq /\ uxSchedulerSuspended = 0
       /\ pxCurrentTCB \in ReadyTasks \cup {NoTask}
  /\ kernel = "task" => ticksLeft = 0
  /\ kernel # "task" => uxSchedulerSuspended = 0
  /\ InResume => pc[pxCurrentTCB] \in {"resume", "resumeYield"} /\ ~yieldIrq
  /\ \A t \in Task : pc[t] \in Suspending =>
       t = pxCurrentTCB /\ (uxSchedulerSuspended > 0 \/ InResume)
  /\ pc[Idle] = "app"

\* Where the running task's items are.
Current ==
  xSchedulerRunning =>
    /\ pc[pxCurrentTCB] \in {"delay", "wait", "catchUp", "resumeYield"} =>
         uxSchedulerSuspended <= 1
    /\ pc[pxCurrentTCB] \in {"suspendSelf", "yield"} => uxSchedulerSuspended = 0
    /\ /\ pc[pxCurrentTCB] \in StillReady
       /\ ~yieldIrq \/ uxSchedulerSuspended > 0
       => pxCurrentTCB \in ReadyTasks
    /\ pc[pxCurrentTCB] = "abortBlocked" =>
         abortee \in Blocked \cup xSuspendedTaskList

\* The number of tasks, of which there are finitely many.
Count == IsFiniteSet(Created) /\ TaskCountExact

\* The tasks that an event item may belong to.
Waiting == Blocked \cup xSuspendedTaskList

\* The event items: EventItemsSound and the types of their lists.
Events ==
  /\ eventList \in Seq(Task)
  /\ IsInjective(eventList)
  /\ OnEventList \cap xPendingReadyList = {}
  /\ OnEventList \cup xPendingReadyList \subseteq Waiting

\* The types of the other variables.
Types ==
  /\ xSchedulerRunning \in BOOLEAN
  /\ pxCurrentTCB \in Task \cup {NoTask}
  /\ xItemValue \in [Task -> TickType]
  /\ xNextTaskUnblockTime \in TickType
  /\ xTickCount \in TickType
  /\ uxSchedulerSuspended \in 0..MaxNest
  /\ xPendedTicks \in 0..MaxPended
  /\ xYieldPending \in BOOLEAN
  /\ yieldIrq \in BOOLEAN
  /\ pc \in [Task -> Places]
  /\ abortee \in Task \cup {NoTask}
  /\ kernel \in {"task", "drain", "catchUp", "wake", "tickEnd"}
  /\ ticksLeft \in 0..MaxPended
  /\ switchRequired \in BOOLEAN
  /\ readied \in BOOLEAN
  /\ toGo \in [Task -> Int]

\* The inductive invariant.
IInv == Types /\ Lists /\ Events /\ Control /\ Current /\ Count

\* The variables of the state lists.
listVars == << pxReadyTasksLists, uxTopReadyPriority, pxDelayedTaskList,
               pxOverflowDelayedTaskList, xSuspendedTaskList,
               xTasksWaitingTermination, uxPriority >>
-----------------------------------------------------------------------------
\* Operators on the ready lists and on the record of ready priorities.

LEMMA PriorityFacts ==
  /\ Priority \subseteq Nat /\ Priority = 0..(configMAX_PRIORITIES - 1)
  /\ 0 \in Priority /\ configMAX_PRIORITIES - 1 \in Nat
  /\ ListEnd \notin Task /\ Idle \in Task /\ NoTask \notin Task
BY SchedulerAssumption DEF Priority

\* A list is occupied when it has items.
LEMMA OccupiedFacts ==
  ASSUME NEW ready, ReadyOK(ready)
  PROVE  /\ Occupied(ready) \subseteq Priority
         /\ \A p \in Priority : p \in Occupied(ready) <=> Items(ready[p]) # {}
         /\ \A p \in Priority : ListLength(ready[p]) = 0 <=> Items(ready[p]) = {}
<1>1. \A p \in Priority : /\ ListLength(ready[p]) \in Nat
                          /\ ListLength(ready[p]) > 0 <=> Items(ready[p]) # {}
  BY RingLength DEF ReadyOK
<1> QED BY <1>1 DEF Occupied

\* The record's maximum is its only member, or the highest occupied list.
LEMMA GenericMax ==
  ASSUME NEW q \in Priority
  PROVE  Max({q}) = q
<1>1. {q} \subseteq 0..(configMAX_PRIORITIES - 1)
  BY PriorityFacts
<1> QED BY <1>1, MaxIsGreatest, PriorityFacts

\* Recording a priority whose list gets an item.
LEMMA RecordOK ==
  ASSUME NEW top \in SUBSET Priority, NEW ready, NEW new, NEW p \in Priority,
         TopOK(top, ready), Occupied(new) = Occupied(ready) \cup {p},
         Occupied(ready) \subseteq Priority
  PROVE  /\ taskRECORD_READY_PRIORITY(top, p) \in SUBSET Priority
         /\ TopOK(taskRECORD_READY_PRIORITY(top, p), new)
<1>1. CASE PortOptimised
  BY <1>1 DEF TopOK, taskRECORD_READY_PRIORITY
<1>2. CASE ~PortOptimised
  <2>1. PICK q \in Priority : top = {q} /\ \A r \in Occupied(ready) : r <= q
    BY <1>2 DEF TopOK
  <2>2. Max(top) = q
    BY <2>1, GenericMax
  <2>3. q \in Nat /\ p \in Nat /\ Occupied(ready) \subseteq Nat
    BY PriorityFacts
  <2>4. CASE q < p
    <3>1. taskRECORD_READY_PRIORITY(top, p) = {p}
      BY <1>2, <2>2, <2>4 DEF taskRECORD_READY_PRIORITY
    <3>2. \A r \in Occupied(new) : r <= p
      BY <2>1, <2>3, <2>4
    <3> QED BY <1>2, <3>1, <3>2 DEF TopOK
  <2>5. CASE ~(q < p)
    <3>1. taskRECORD_READY_PRIORITY(top, p) = {q}
      BY <1>2, <2>1, <2>2, <2>5 DEF taskRECORD_READY_PRIORITY
    <3>2. \A r \in Occupied(new) : r <= q
      BY <2>1, <2>3, <2>5
    <3> QED BY <1>2, <3>1, <3>2 DEF TopOK
  <2> QED BY <2>4, <2>5
<1> QED BY <1>1, <1>2

\* Resetting a priority whose list has lost an item.
LEMMA ResetOK ==
  ASSUME NEW top \in SUBSET Priority, NEW ready, NEW new, NEW p \in Priority,
         TopOK(top, ready),
         ReadyOK(new),
         Occupied(new) \subseteq Occupied(ready),
         Occupied(ready) \subseteq Occupied(new) \cup {p}
  PROVE  /\ taskRESET_READY_PRIORITY(top, new, p) \in SUBSET Priority
         /\ TopOK(taskRESET_READY_PRIORITY(top, new, p), new)
<1>1. p \in Occupied(new) <=> ~(ListLength(new[p]) = 0)
  BY OccupiedFacts
<1>2. CASE PortOptimised
  BY <1>1, <1>2 DEF TopOK, taskRESET_READY_PRIORITY
<1>3. CASE ~PortOptimised
  BY <1>3 DEF TopOK, taskRESET_READY_PRIORITY
<1> QED BY <1>2, <1>3

\* The ready lists with t inserted at the end of p's.
Inserted(new, ready, p, t) == new = [ready EXCEPT ![p] = vListInsertEnd(@, t)]

\* vListInsertEnd into one of the ready lists.
LEMMA AddReady ==
  ASSUME NEW ready, ReadyOK(ready), NEW t \in Task, NEW p \in Priority, t \notin Items(ready[p]),
         NEW new, Inserted(new, ready, p, t)
  PROVE  /\ ReadyOK(new)
         /\ Items(new[p]) = Items(ready[p]) \cup {t}
         /\ \A q \in Priority : q # p => Items(new[q]) = Items(ready[q])
         /\ Occupied(new) = Occupied(ready) \cup {p}
<1>1. /\ IsRing(vListInsertEnd(ready[p], t), Task)
      /\ Items(vListInsertEnd(ready[p], t)) = Items(ready[p]) \cup {t}
  <2>1. t # ListEnd
    BY PriorityFacts
  <2> QED BY <2>1, InsertEndRing DEF ReadyOK
<1>2. vListInsertEnd(ready[p], t) \in Seq(Task \cup {ListEnd})
  BY <1>1 DEF IsRing
<1>3. /\ new = [ready EXCEPT ![p] = vListInsertEnd(@, t)]
      /\ new[p] = vListInsertEnd(ready[p], t)
      /\ \A q \in Priority : q # p => new[q] = ready[q]
  BY DEF Inserted, ReadyOK
<1>4. new \in [Priority -> Seq(Task \cup {ListEnd})]
  BY <1>2, <1>3 DEF ReadyOK
<1>5. \A q \in Priority : IsRing(new[q], Task)
  BY <1>1, <1>3 DEF ReadyOK
<1>6. /\ Items(new[p]) = Items(ready[p]) \cup {t}
      /\ \A q \in Priority : q # p => Items(new[q]) = Items(ready[q])
  BY <1>1, <1>3
<1>7. \A q \in Priority : q \in Occupied(new) <=> q \in Occupied(ready) \/ q = p
  <2>1. \A q \in Priority : q \in Occupied(new) <=> Items(new[q]) # {}
    BY <1>4, <1>5, OccupiedFacts DEF ReadyOK
  <2>2. \A q \in Priority : q \in Occupied(ready) <=> Items(ready[q]) # {}
    BY OccupiedFacts
  <2> QED BY <1>6, <2>1, <2>2
<1>8. Occupied(new) = Occupied(ready) \cup {p}
  BY <1>7 DEF Occupied
<1> QED BY <1>4, <1>5, <1>6, <1>8 DEF ReadyOK

\* The removal of a task from the ready list that may hold it.
LEMMA RemoveReady ==
  ASSUME ReadyOK(pxReadyTasksLists), NEW t
  PROVE  /\ ReadyOK(WithoutReady(t))
         /\ \A q \in Priority :
              Items(WithoutReady(t)[q]) = Items(pxReadyTasksLists[q]) \ {t}
<1> DEFINE new == WithoutReady(t)
<1>1. ASSUME NEW q \in Priority
      PROVE  /\ new[q] \in Seq(Task \cup {ListEnd})
             /\ IsRing(new[q], Task)
             /\ Items(new[q]) = Items(pxReadyTasksLists[q]) \ {t}
  <2>1. CASE t \in Items(pxReadyTasksLists[q])
    <3>1. new[q] = uxListRemove(pxReadyTasksLists[q], t)
      BY <2>1 DEF WithoutReady
    <3>2. /\ IsRing(new[q], Task)
          /\ Items(new[q]) = Items(pxReadyTasksLists[q]) \ {t}
      BY <2>1, <3>1, RemoveRing DEF ReadyOK
    <3> QED BY <3>2 DEF IsRing
  <2>2. CASE t \notin Items(pxReadyTasksLists[q])
    <3>1. new[q] = pxReadyTasksLists[q]
      BY <2>2 DEF WithoutReady
    <3> QED BY <2>2, <3>1 DEF ReadyOK
  <2> QED BY <2>1, <2>2
<1>2. new = [q \in Priority |-> new[q]]
  BY DEF WithoutReady
<1> HIDE DEF new
<1>3. new \in [Priority -> Seq(Task \cup {ListEnd})]
  BY <1>1, <1>2
<1>4. ReadyOK(new)
  BY <1>1, <1>3 DEF ReadyOK
<1> QED BY <1>1, <1>4 DEF new
-----------------------------------------------------------------------------
\* How the state lists change: a task added to the ready list of its priority,
\* taken out of every list, put in one of the others; a priority changed; an
\* item chosen from a ready list; the delayed lists swapped.

LEMMA AddOK ==
  ASSUME NEW ready, NEW top, NEW d, NEW o, NEW s, NEW w, NEW prio,
         ListsOK(ready, top, d, o, s, w, prio), NEW t \in Task,
         t \notin Members(ready), t \notin w,
         NEW new, Inserted(new, ready, prio[t], t)
  PROVE  /\ ListsOK(new, taskRECORD_READY_PRIORITY(top, prio[t]),
                    d \ {t}, o \ {t}, s \ {t}, w, prio)
         /\ Members(new) = Members(ready) \cup {t}
<1> DEFINE p == prio[t]
<1>1. p \in Priority /\ t \notin Items(ready[p])
  BY DEF ListsOK, Members
<1>2. /\ ReadyOK(new)
      /\ Items(new[p]) = Items(ready[p]) \cup {t}
      /\ \A q \in Priority : q # p => Items(new[q]) = Items(ready[q])
      /\ Occupied(new) = Occupied(ready) \cup {p}
  <2>1. ReadyOK(ready)
    BY DEF ListsOK
  <2>2. Inserted(new, ready, p, t)
    OBVIOUS
  <2> HIDE DEF p
  <2> QED BY ONLY <1>1, <2>1, <2>2, AddReady, t \in Task
<1>3. /\ taskRECORD_READY_PRIORITY(top, p) \in SUBSET Priority
      /\ TopOK(taskRECORD_READY_PRIORITY(top, p), new)
  <2>1. /\ top \in SUBSET Priority /\ TopOK(top, ready)
        /\ Occupied(ready) \subseteq Priority
    BY DEF ListsOK, Occupied
  <2> QED BY <1>1, <1>2, <2>1, RecordOK
<1>4. Members(new) = Members(ready) \cup {t}
  BY <1>1, <1>2 DEF Members
<1>5. \A q \in Priority : \A u \in Items(new[q]) : prio[u] = q
  BY <1>1, <1>2 DEF ListsOK
<1> QED BY <1>2, <1>3, <1>4, <1>5 DEF ListsOK

LEMMA PlaceOK ==
  ASSUME NEW ready, NEW top, NEW d, NEW o, NEW s, NEW w, NEW prio,
         ListsOK(ready, top, d, o, s, w, prio), NEW t \in Task,
         t \notin Members(ready) \cup d \cup o \cup s \cup w
  PROVE  /\ ListsOK(ready, top, d \cup {t}, o, s, w, prio)
         /\ ListsOK(ready, top, d, o \cup {t}, s, w, prio)
         /\ ListsOK(ready, top, d, o, s \cup {t}, w, prio)
         /\ ListsOK(ready, top, d, o, s, w \cup {t}, prio)
BY DEF ListsOK

LEMMA RemoveOK ==
  ASSUME NEW top, NEW d, NEW o, NEW s, NEW w, NEW prio, NEW t \in Task,
         ListsOK(pxReadyTasksLists, top, d, o, s, w, prio)
  PROVE  /\ ListsOK(WithoutReady(t),
                    taskRESET_READY_PRIORITY(top, WithoutReady(t), prio[t]),
                    d \ {t}, o \ {t}, s \ {t}, w \ {t}, prio)
         /\ Members(WithoutReady(t)) = ReadyTasks \ {t}
<1> DEFINE new == WithoutReady(t)
<1>1. /\ ReadyOK(new)
      /\ \A q \in Priority : Items(new[q]) = Items(pxReadyTasksLists[q]) \ {t}
  BY RemoveReady DEF ListsOK
<1> HIDE DEF new
<1>2. \A q \in Priority : q # prio[t] => t \notin Items(pxReadyTasksLists[q])
  BY DEF ListsOK
<1>3. \A q \in Priority : q # prio[t] => Items(new[q]) = Items(pxReadyTasksLists[q])
  BY <1>1, <1>2
<1>4. \A q \in Priority : q \in Occupied(new) <=> Items(new[q]) # {}
  BY <1>1, OccupiedFacts
<1>5. \A q \in Priority :
        q \in Occupied(pxReadyTasksLists) <=> Items(pxReadyTasksLists[q]) # {}
  BY OccupiedFacts DEF ListsOK
<1>6. /\ Occupied(new) \subseteq Occupied(pxReadyTasksLists)
      /\ Occupied(pxReadyTasksLists) \subseteq Occupied(new) \cup {prio[t]}
  <2>1. Occupied(new) \subseteq Priority /\ Occupied(pxReadyTasksLists) \subseteq Priority
    BY DEF Occupied
  <2> QED BY <1>1, <1>3, <1>4, <1>5, <2>1
<1>7. /\ taskRESET_READY_PRIORITY(top, new, prio[t]) \in SUBSET Priority
      /\ TopOK(taskRESET_READY_PRIORITY(top, new, prio[t]), new)
  BY <1>1, <1>6, ResetOK DEF ListsOK
<1>8. Members(new) = ReadyTasks \ {t}
  BY <1>1 DEF Members, ReadyTasks
<1>9. Members(pxReadyTasksLists) = ReadyTasks
  BY DEF Members, ReadyTasks
<1>10. \A q \in Priority : \A u \in Items(new[q]) : prio[u] = q
  BY <1>1 DEF ListsOK
<1>11. ListsOK(new, taskRESET_READY_PRIORITY(top, new, prio[t]),
               d \ {t}, o \ {t}, s \ {t}, w \ {t}, prio)
  BY <1>1, <1>7, <1>8, <1>9, <1>10 DEF ListsOK
<1> QED BY <1>8, <1>11 DEF new

LEMMA PrioOK ==
  ASSUME NEW ready, NEW top, NEW d, NEW o, NEW s, NEW w, NEW prio,
         ListsOK(ready, top, d, o, s, w, prio), NEW t \in Task,
         t \notin Members(ready), NEW p \in Priority
  PROVE  ListsOK(ready, top, d, o, s, w, [prio EXCEPT ![t] = p])
<1>1. \A q \in Priority : \A u \in Items(ready[q]) : u # t
  BY DEF Members
<1>2. \A q \in Priority : \A u \in Items(ready[q]) : u \in Task
  BY DEF ListsOK, ReadyOK, IsRing, Items, ToSet
<1>3. \A u \in Task : u # t => [prio EXCEPT ![t] = p][u] = prio[u]
  BY DEF ListsOK
<1>4. [prio EXCEPT ![t] = p] \in [Task -> Priority]
  BY DEF ListsOK
<1>5. \A q \in Priority : \A u \in Items(ready[q]) : [prio EXCEPT ![t] = p][u] = q
  BY <1>1, <1>2, <1>3 DEF ListsOK
<1> QED BY <1>4, <1>5 DEF ListsOK

LEMMA SwapOK ==
  ASSUME NEW ready, NEW top, NEW d, NEW o, NEW s, NEW w, NEW prio,
         ListsOK(ready, top, d, o, s, w, prio)
  PROVE  ListsOK(ready, top, o, d, s, w, prio)
BY DEF ListsOK

\* The list that taskSELECT_HIGHEST_PRIORITY_TASK takes from has items, and no
\* higher one has.
LEMMA SelectedOccupied ==
  ASSUME Lists, ReadyTasks # {}
  PROVE  /\ SelectedPriority \in Occupied(pxReadyTasksLists)
         /\ SelectedPriority \in Priority
         /\ \A p \in Occupied(pxReadyTasksLists) : p <= SelectedPriority
<1> DEFINE occupied == Occupied(pxReadyTasksLists)
<1>1. occupied \subseteq 0..(configMAX_PRIORITIES - 1) /\ occupied \subseteq Priority
  BY PriorityFacts DEF Occupied
<1>2. occupied # {}
  <2>1. PICK p \in Priority : Items(pxReadyTasksLists[p]) # {}
    BY DEF ReadyTasks
  <2> QED BY <2>1, OccupiedFacts DEF Lists, ListsOK
<1> HIDE DEF occupied
<1>3. Max(occupied) \in occupied /\ \A p \in occupied : p <= Max(occupied)
  BY <1>1, <1>2, MaxIsGreatest, PriorityFacts
<1>4. SelectedPriority = Max(occupied)
  <2>1. CASE PortOptimised
    BY <2>1 DEF SelectedPriority, Lists, ListsOK, TopOK, occupied
  <2>2. CASE ~PortOptimised
    <3>1. PICK q \in Priority : /\ uxTopReadyPriority = {q}
                                /\ \A p \in occupied : p <= q
      BY <2>2 DEF Lists, ListsOK, TopOK, occupied
    <3>2. Max(uxTopReadyPriority) = q
      BY <3>1, GenericMax
    <3>3. {p \in occupied : p <= Max(uxTopReadyPriority)} = occupied
      BY <3>1, <3>2
    <3> QED BY <2>2, <3>3 DEF SelectedPriority, occupied
  <2> QED BY <2>1, <2>2
<1> QED BY <1>1, <1>3, <1>4 DEF occupied

\* vTaskSwitchContext turns the ring of the selected priority.
LEMMA SelectOK ==
  ASSUME Lists, ReadyTasks # {}, NEW new,
         new = [pxReadyTasksLists EXCEPT
                  ![SelectedPriority] = NextEntry(@)],
         NEW top, top = IF PortOptimised THEN uxTopReadyPriority
                        ELSE {SelectedPriority}
  PROVE  /\ ListsOK(new, top, pxDelayedTaskList, pxOverflowDelayedTaskList,
                    xSuspendedTaskList, xTasksWaitingTermination, uxPriority)
         /\ Members(new) = ReadyTasks
         /\ EntryAtIndex(new[SelectedPriority])
              \in Items(pxReadyTasksLists[SelectedPriority])
         /\ EntryAtIndex(new[SelectedPriority]) \in ReadyTasks
<1> DEFINE p == SelectedPriority
<1>1. /\ p \in Priority /\ p \in Occupied(pxReadyTasksLists)
      /\ \A q \in Occupied(pxReadyTasksLists) : q <= p
  BY SelectedOccupied
<1> HIDE DEF p
<1>2. IsRing(pxReadyTasksLists[p], Task) /\ ListLength(pxReadyTasksLists[p]) > 0
  BY <1>1 DEF Lists, ListsOK, ReadyOK, Occupied
<1>3. /\ new[p] = NextEntry(pxReadyTasksLists[p])
      /\ \A q \in Priority : q # p => new[q] = pxReadyTasksLists[q]
  BY <1>1 DEF Lists, ListsOK, ReadyOK, p
<1>4. /\ IsRing(new[p], Task)
      /\ Items(new[p]) = Items(pxReadyTasksLists[p])
      /\ ListLength(new[p]) = ListLength(pxReadyTasksLists[p])
      /\ EntryAtIndex(new[p]) \in Items(pxReadyTasksLists[p])
  BY <1>2, <1>3, NextEntryRing
<1>5. new \in [Priority -> Seq(Task \cup {ListEnd})]
  <2>1. NextEntry(pxReadyTasksLists[p]) \in Seq(Task \cup {ListEnd})
    BY <1>3, <1>4 DEF IsRing
  <2> QED BY <1>1, <2>1 DEF Lists, ListsOK, ReadyOK, p
<1>6. /\ \A q \in Priority : IsRing(new[q], Task)
      /\ \A q \in Priority : Items(new[q]) = Items(pxReadyTasksLists[q])
  BY <1>3, <1>4 DEF Lists, ListsOK, ReadyOK
<1>7. Occupied(new) = Occupied(pxReadyTasksLists)
  BY <1>3, <1>4 DEF Occupied
<1>8. Members(new) = ReadyTasks /\ Members(pxReadyTasksLists) = ReadyTasks
  BY <1>6 DEF Members, ReadyTasks
<1>9. top \in SUBSET Priority /\ TopOK(top, new)
  BY <1>1, <1>7 DEF Lists, ListsOK, TopOK, p
<1>10. EntryAtIndex(new[p]) \in ReadyTasks
  BY <1>1, <1>4 DEF ReadyTasks
<1>11. \A q \in Priority : \A u \in Items(new[q]) : uxPriority[u] = q
  BY <1>6 DEF Lists, ListsOK
<1> QED
  BY <1>4, <1>5, <1>6, <1>8, <1>9, <1>10, <1>11 DEF Lists, ListsOK, ReadyOK, p
-----------------------------------------------------------------------------
\* The event list and the times.

\* The event list without a task's item.
LEMMA WithoutEventFacts ==
  ASSUME Events, NEW t
  PROVE  /\ WithoutEvent(t) \in Seq(Task)
         /\ IsInjective(WithoutEvent(t))
         /\ ToSet(WithoutEvent(t)) = OnEventList \ {t}
<1>1. CASE t \in OnEventList
  <2>1. /\ uxListRemove(eventList, t) \in Seq(Task)
        /\ IsInjective(uxListRemove(eventList, t))
        /\ ToSet(uxListRemove(eventList, t)) = ToSet(eventList) \ {t}
    BY <1>1, RemoveElement DEF Events, OnEventList
  <2> QED BY <1>1, <2>1 DEF WithoutEvent, OnEventList
<1>2. CASE t \notin OnEventList
  BY <1>2 DEF WithoutEvent, Events, OnEventList
<1> QED BY <1>1, <1>2

\* The event list with a new item, wherever its priority puts it.
LEMMA EventInsertFacts ==
  ASSUME Events, NEW t \in Task, t \notin OnEventList
  PROVE  /\ EventInsert(t) \in Seq(Task)
         /\ IsInjective(EventInsert(t))
         /\ ToSet(EventInsert(t)) = OnEventList \cup {t}
<1> DEFINE lower == {i \in 1..Len(eventList) :
                       uxPriority[eventList[i]] < uxPriority[t]}
           k == IF lower = {} THEN Len(eventList) + 1 ELSE Min(lower)
<1>1. Len(eventList) \in Nat
  BY DEF Events
<1>2. lower # {} => Min(lower) \in lower
  <2>1. lower \subseteq Nat
    OBVIOUS
  <2> QED BY <2>1, MinIsLeast
<1>3. k \in Nat /\ 1 <= k /\ k <= Len(eventList) + 1
  BY <1>1, <1>2
<1>4. EventInsert(t) = InsertAt(eventList, k, t)
  BY DEF EventInsert
<1> HIDE DEF k
<1>5. /\ InsertAt(eventList, k, t) \in Seq(Task)
      /\ IsInjective(InsertAt(eventList, k, t))
      /\ ToSet(InsertAt(eventList, k, t)) = ToSet(eventList) \cup {t}
  BY <1>3, InsertElement DEF Events, OnEventList
<1> QED BY <1>4, <1>5 DEF OnEventList

\* The head of the event list and the rest.
LEMMA HeadTailEvent ==
  ASSUME Events, eventList # << >>
  PROVE  /\ Head(eventList) \in Task
         /\ Head(eventList) \in OnEventList
         /\ Tail(eventList) \in Seq(Task)
         /\ IsInjective(Tail(eventList))
         /\ ToSet(Tail(eventList)) = OnEventList \ {Head(eventList)}
<1> DEFINE n == Len(eventList)
           s == Tail(eventList)
           h == Head(eventList)
<1>1. /\ n \in Nat /\ n > 0 /\ DOMAIN eventList = 1..n
      /\ \A i \in 1..n : eventList[i] \in Task
      /\ h = eventList[1]
  BY DEF Events
<1>2. /\ s \in Seq(Task) /\ Len(s) = n - 1
      /\ \A i \in 1..(n - 1) : s[i] = eventList[i + 1]
  <2>1. /\ s \in Seq(Task) /\ Len(s) = n - 1
        /\ \A i \in 1..Len(s) : s[i] = eventList[i + 1]
    BY HeadTailProperties DEF Events
  <2> QED BY <2>1
<1>3. DOMAIN s = 1..(n - 1)
  BY <1>2, LenProperties
<1> HIDE DEF n, s, h
<1>4. \A i, j \in 1..n : eventList[i] = eventList[j] => i = j
  BY <1>1 DEF Events, IsInjective
<1>5. \A i \in 1..(n - 1) : i + 1 \in 1..n /\ i + 1 # 1 /\ i \in Int
  BY <1>1
<1>6. 1 \in 1..n
  BY <1>1
<1>7. ASSUME NEW i \in 1..(n - 1), NEW j \in 1..(n - 1), s[i] = s[j]
      PROVE  i = j
  <2>1. i + 1 = j + 1
    BY <1>2, <1>4, <1>5, <1>7
  <2> QED BY <2>1, <1>5
<1>8. \A i \in 1..(n - 1) : s[i] \in OnEventList /\ s[i] # h
  <2>1. \A i \in 1..(n - 1) : eventList[i + 1] \in OnEventList
    BY ONLY <1>1, <1>5, InToSet DEF OnEventList
  <2> QED BY <1>1, <1>2, <1>4, <1>5, <1>6, <2>1
<1>9. ASSUME NEW i \in 1..n, eventList[i] # h
      PROVE  \E j \in 1..(n - 1) : s[j] = eventList[i]
  <2>1. i - 1 \in 1..(n - 1) /\ (i - 1) + 1 = i
    BY <1>1, <1>9
  <2> QED BY <2>1, <1>2
<1>10. h \in OnEventList /\ h \in Task
  BY ONLY <1>1, <1>6, InToSet DEF OnEventList
<1>11. IsInjective(s)
  BY <1>3, <1>7 DEF IsInjective
<1>12. ToSet(s) = OnEventList \ {h}
  <2>1. \A y : y \in ToSet(s) => y \in OnEventList /\ y # h
    <3> SUFFICES ASSUME NEW y, y \in ToSet(s)
                 PROVE  y \in OnEventList /\ y # h
      OBVIOUS
    <3>1. PICK i \in 1..(n - 1) : y = s[i]
      BY <1>3, InToSet
    <3> QED BY <3>1, <1>8
  <2>2. \A y : y \in OnEventList /\ y # h => y \in ToSet(s)
    BY ONLY <1>1, <1>3, <1>9, InToSet DEF OnEventList
  <2> QED BY ONLY <2>1, <2>2
<1> QED BY <1>2, <1>10, <1>11, <1>12 DEF s, h

LEMMA TickFacts ==
  /\ TickType \subseteq Nat /\ 0 \in TickType /\ portMAX_DELAY \in TickType
  /\ \A i \in Int : i % TickMod \in TickType
BY SchedulerAssumption DEF TickType, portMAX_DELAY

\* The next unblock time is a tick count.
LEMMA UnblockTimeType ==
  ASSUME xItemValue \in [Task -> TickType], NEW list, list \subseteq Task
  PROVE  prvResetNextTaskUnblockTime(list) \in TickType
<1> DEFINE times == {xItemValue[t] : t \in list}
<1>1. times \subseteq TickType
  OBVIOUS
<1>2. ASSUME list # {} PROVE Min(times) \in TickType
  <2>1. times # {} /\ times \subseteq Nat
    BY <1>1, <1>2, TickFacts
  <2> HIDE DEF times
  <2> QED BY <1>1, <2>1, MinIsLeast
<1> QED BY <1>2, TickFacts DEF prvResetNextTaskUnblockTime
-----------------------------------------------------------------------------
\* What a step does to the lists as a whole.

LEMMA SameLists ==
  ASSUME Lists, UNCHANGED listVars
  PROVE  /\ Lists'
         /\ ReadyTasks' = ReadyTasks /\ Waiting' = Waiting
         /\ Created' = Created
BY DEF Lists, listVars, ReadyTasks, Waiting, Blocked, Created

\* A task that is blocked or suspended becomes ready.
LEMMA ReadiedLists ==
  ASSUME Lists, NEW t \in Waiting,
         prvAddTaskToReadyList(t, uxPriority[t], pxReadyTasksLists,
                               uxTopReadyPriority),
         pxDelayedTaskList' = pxDelayedTaskList \ {t},
         pxOverflowDelayedTaskList' = pxOverflowDelayedTaskList \ {t},
         xSuspendedTaskList' = xSuspendedTaskList \ {t},
         UNCHANGED << xTasksWaitingTermination, uxPriority >>
  PROVE  /\ Lists'
         /\ ReadyTasks' = ReadyTasks \cup {t} /\ Waiting' = Waiting \ {t}
         /\ Created' = Created
         /\ t \in Task
<1>1. t \in Task /\ t \notin Members(pxReadyTasksLists) /\ t \notin xTasksWaitingTermination
  BY DEF Lists, ListsOK, Waiting, Blocked
<1>2. Inserted(pxReadyTasksLists', pxReadyTasksLists, uxPriority[t], t)
  BY DEF prvAddTaskToReadyList, Inserted
<1>3. /\ ListsOK(pxReadyTasksLists',
                 taskRECORD_READY_PRIORITY(uxTopReadyPriority, uxPriority[t]),
                 pxDelayedTaskList \ {t}, pxOverflowDelayedTaskList \ {t},
                 xSuspendedTaskList \ {t}, xTasksWaitingTermination, uxPriority)
      /\ Members(pxReadyTasksLists') = Members(pxReadyTasksLists) \cup {t}
  <2>1. ListsOK(pxReadyTasksLists, uxTopReadyPriority, pxDelayedTaskList,
                pxOverflowDelayedTaskList, xSuspendedTaskList,
                xTasksWaitingTermination, uxPriority)
    BY DEF Lists
  <2> QED BY ONLY <1>1, <1>2, <2>1, AddOK
<1>4. Lists'
  BY <1>3 DEF Lists, prvAddTaskToReadyList
<1>5. ReadyTasks' = ReadyTasks \cup {t}
  BY <1>3 DEF Members, ReadyTasks
<1> QED BY <1>1, <1>4, <1>5 DEF Waiting, Blocked, Created

\* A new task becomes ready.
LEMMA CreatedLists ==
  ASSUME Lists, Count, NEW t \in Task, NEW p \in Priority, AddNewTask(t, p)
  PROVE  /\ Lists' /\ Count'
         /\ ReadyTasks' = ReadyTasks \cup {t} /\ Waiting' = Waiting
<1>1. t \notin Members(pxReadyTasksLists) /\ t \notin xTasksWaitingTermination
      /\ t \notin pxDelayedTaskList /\ t \notin pxOverflowDelayedTaskList
      /\ t \notin xSuspendedTaskList
  BY DEF AddNewTask, Created, ReadyTasks, Members, Blocked
<1> DEFINE prio == [uxPriority EXCEPT ![t] = p]
<1>2. ListsOK(pxReadyTasksLists, uxTopReadyPriority, pxDelayedTaskList,
              pxOverflowDelayedTaskList, xSuspendedTaskList,
              xTasksWaitingTermination, prio)
  BY <1>1, PrioOK DEF Lists
<1>3. prio[t] = p /\ uxPriority' = prio
  BY DEF AddNewTask, Lists, ListsOK
<1> HIDE DEF prio
<1>4. Inserted(pxReadyTasksLists', pxReadyTasksLists, p, t)
  BY DEF AddNewTask, prvAddTaskToReadyList, Inserted
<1>5. /\ ListsOK(pxReadyTasksLists',
                 taskRECORD_READY_PRIORITY(uxTopReadyPriority, p),
                 pxDelayedTaskList \ {t}, pxOverflowDelayedTaskList \ {t},
                 xSuspendedTaskList \ {t}, xTasksWaitingTermination, prio)
      /\ Members(pxReadyTasksLists') = Members(pxReadyTasksLists) \cup {t}
  <2>1. Inserted(pxReadyTasksLists', pxReadyTasksLists, prio[t], t)
    BY <1>3, <1>4
  <2>2. /\ ListsOK(pxReadyTasksLists',
                   taskRECORD_READY_PRIORITY(uxTopReadyPriority, prio[t]),
                   pxDelayedTaskList \ {t}, pxOverflowDelayedTaskList \ {t},
                   xSuspendedTaskList \ {t}, xTasksWaitingTermination, prio)
        /\ Members(pxReadyTasksLists') = Members(pxReadyTasksLists) \cup {t}
    BY ONLY <1>1, <1>2, <2>1, AddOK, t \in Task
  <2> QED BY <1>3, <2>2
<1>6. pxDelayedTaskList \ {t} = pxDelayedTaskList /\ xSuspendedTaskList \ {t} = xSuspendedTaskList
      /\ pxOverflowDelayedTaskList \ {t} = pxOverflowDelayedTaskList
  BY <1>1
<1>7. Lists'
  BY <1>3, <1>5, <1>6 DEF Lists, AddNewTask, prvAddTaskToReadyList
<1>8. ReadyTasks' = ReadyTasks \cup {t}
  BY <1>5 DEF Members, ReadyTasks
<1>9. Created' = Created \cup {t} /\ t \notin Created
  BY <1>8 DEF Created, Blocked, AddNewTask
<1>10. Count'
  <2>1. /\ IsFiniteSet(Created \cup {t})
        /\ Cardinality(Created \cup {t}) = Cardinality(Created) + 1
    BY <1>9, FS_AddElement DEF Count
  <2> QED BY <1>9, <2>1 DEF Count, TaskCountExact, AddNewTask
<1> QED BY <1>7, <1>8, <1>10 DEF Waiting, Blocked, AddNewTask

\* A task's place among the lists, when it is ready.
LEMMA ReadyTask ==
  ASSUME Lists, NEW t \in ReadyTasks
  PROVE  /\ t \in Task /\ t \in Members(pxReadyTasksLists)
         /\ t \notin Waiting /\ t \notin xTasksWaitingTermination
<1>1. t \in Members(pxReadyTasksLists)
  BY DEF ReadyTasks, Members
<1>2. t \in Task
  <2>1. PICK p \in Priority : t \in Items(pxReadyTasksLists[p])
    BY DEF ReadyTasks
  <2>2. pxReadyTasksLists[p] \in Seq(Task \cup {ListEnd})
    BY DEF Lists, ListsOK, ReadyOK
  <2>3. \A x \in Items(pxReadyTasksLists[p]) : x \in Task
    BY <2>2 DEF Items, ToSet
  <2> QED BY <2>1, <2>3
<1> QED BY <1>1, <1>2 DEF Lists, ListsOK, Waiting, Blocked

\* The ready lists that LeaveReady leaves.
LEMMA LeftLists ==
  ASSUME Lists, NEW t \in Task, LeaveReady(t)
  PROVE  /\ ListsOK(pxReadyTasksLists', uxTopReadyPriority',
                    pxDelayedTaskList \ {t}, pxOverflowDelayedTaskList \ {t},
                    xSuspendedTaskList \ {t}, xTasksWaitingTermination \ {t},
                    uxPriority)
         /\ Members(pxReadyTasksLists') = ReadyTasks \ {t}
         /\ ReadyTasks' = ReadyTasks \ {t}
<1>1. ListsOK(pxReadyTasksLists, uxTopReadyPriority, pxDelayedTaskList,
              pxOverflowDelayedTaskList, xSuspendedTaskList,
              xTasksWaitingTermination, uxPriority)
  BY DEF Lists
<1>2. /\ ListsOK(WithoutReady(t),
                 taskRESET_READY_PRIORITY(uxTopReadyPriority, WithoutReady(t),
                                          uxPriority[t]),
                 pxDelayedTaskList \ {t}, pxOverflowDelayedTaskList \ {t},
                 xSuspendedTaskList \ {t}, xTasksWaitingTermination \ {t},
                 uxPriority)
      /\ Members(WithoutReady(t)) = ReadyTasks \ {t}
  BY ONLY <1>1, RemoveOK, t \in Task
<1>3. ReadyTasks' = Members(pxReadyTasksLists')
  BY DEF ReadyTasks, Members
<1> QED BY <1>2, <1>3 DEF LeaveReady

\* The running task leaves its ready list for a delayed list or, to wait
\* forever, for the suspended tasks.
LEMMA DelayedLists ==
  ASSUME Lists, pxCurrentTCB \in ReadyTasks, NEW ticks, NEW forever,
         prvAddCurrentTaskToDelayedList(ticks, forever),
         UNCHANGED << xTasksWaitingTermination, uxPriority >>
  PROVE  /\ Lists'
         /\ ReadyTasks' = ReadyTasks \ {pxCurrentTCB}
         /\ Waiting' = Waiting \cup {pxCurrentTCB}
         /\ Created' = Created
<1> DEFINE t == pxCurrentTCB
<1>1. t \in Task /\ t \notin Waiting /\ t \notin xTasksWaitingTermination
  BY ReadyTask
<1>2. LeaveReady(t)
  BY DEF prvAddCurrentTaskToDelayedList
<1> HIDE DEF t
<1>3. /\ pxDelayedTaskList \ {t} = pxDelayedTaskList
      /\ pxOverflowDelayedTaskList \ {t} = pxOverflowDelayedTaskList
      /\ xSuspendedTaskList \ {t} = xSuspendedTaskList
      /\ xTasksWaitingTermination \ {t} = xTasksWaitingTermination
  BY <1>1 DEF Waiting, Blocked
<1>4. /\ ListsOK(pxReadyTasksLists', uxTopReadyPriority', pxDelayedTaskList,
                 pxOverflowDelayedTaskList, xSuspendedTaskList,
                 xTasksWaitingTermination, uxPriority)
      /\ Members(pxReadyTasksLists') = ReadyTasks \ {t}
      /\ ReadyTasks' = ReadyTasks \ {t}
  BY <1>1, <1>2, <1>3, LeftLists
<1>5. t \notin Members(pxReadyTasksLists') \cup pxDelayedTaskList
        \cup pxOverflowDelayedTaskList \cup xSuspendedTaskList
        \cup xTasksWaitingTermination
  BY <1>1, <1>4 DEF Waiting, Blocked
<1>6. /\ ListsOK(pxReadyTasksLists', uxTopReadyPriority', pxDelayedTaskList \cup {t},
                 pxOverflowDelayedTaskList, xSuspendedTaskList,
                 xTasksWaitingTermination, uxPriority)
      /\ ListsOK(pxReadyTasksLists', uxTopReadyPriority', pxDelayedTaskList,
                 pxOverflowDelayedTaskList \cup {t}, xSuspendedTaskList,
                 xTasksWaitingTermination, uxPriority)
      /\ ListsOK(pxReadyTasksLists', uxTopReadyPriority', pxDelayedTaskList,
                 pxOverflowDelayedTaskList, xSuspendedTaskList \cup {t},
                 xTasksWaitingTermination, uxPriority)
  BY ONLY <1>1, <1>4, <1>5, PlaceOK
<1>7. \/ /\ pxDelayedTaskList' = pxDelayedTaskList \cup {t}
         /\ UNCHANGED << pxOverflowDelayedTaskList, xSuspendedTaskList >>
      \/ /\ pxOverflowDelayedTaskList' = pxOverflowDelayedTaskList \cup {t}
         /\ UNCHANGED << pxDelayedTaskList, xSuspendedTaskList >>
      \/ /\ xSuspendedTaskList' = xSuspendedTaskList \cup {t}
         /\ UNCHANGED << pxDelayedTaskList, pxOverflowDelayedTaskList >>
  BY DEF prvAddCurrentTaskToDelayedList, t
<1>8. Lists'
  BY <1>6, <1>7 DEF Lists
<1>9. Waiting' = Waiting \cup {t}
  BY <1>7 DEF Waiting, Blocked
<1>10. Created' = Created
  <2>1. t \in ReadyTasks
    BY DEF t
  <2>2. Created = ReadyTasks \cup Waiting \cup xTasksWaitingTermination
    BY DEF Created, Waiting
  <2>3. Created' = ReadyTasks' \cup Waiting' \cup xTasksWaitingTermination'
    BY DEF Created, Waiting
  <2> QED BY <1>4, <1>9, <2>1, <2>2, <2>3
<1> QED BY <1>4, <1>8, <1>9, <1>10 DEF t

\* vTaskSuspend moves a task from wherever it is.
LEMMA SuspendedLists ==
  ASSUME Lists, NEW t \in Created, t \notin xTasksWaitingTermination,
         LeaveReady(t), LeaveBlocked(t),
         xSuspendedTaskList' = xSuspendedTaskList \cup {t},
         UNCHANGED << xTasksWaitingTermination, uxPriority >>
  PROVE  /\ Lists' /\ t \in Task
         /\ ReadyTasks' = ReadyTasks \ {t}
         /\ Waiting' = Waiting \cup {t}
         /\ Created' = Created
<1>1. t \in Task
  BY ReadyTask DEF Created, Lists, ListsOK, Blocked
<1>2. /\ ListsOK(pxReadyTasksLists', uxTopReadyPriority',
                 pxDelayedTaskList \ {t}, pxOverflowDelayedTaskList \ {t},
                 xSuspendedTaskList \ {t}, xTasksWaitingTermination \ {t},
                 uxPriority)
      /\ Members(pxReadyTasksLists') = ReadyTasks \ {t}
      /\ ReadyTasks' = ReadyTasks \ {t}
  BY <1>1, LeftLists
<1>3. t \notin Members(pxReadyTasksLists') \cup (pxDelayedTaskList \ {t})
        \cup (pxOverflowDelayedTaskList \ {t}) \cup (xSuspendedTaskList \ {t})
        \cup (xTasksWaitingTermination \ {t})
  BY <1>2
<1>4. ListsOK(pxReadyTasksLists', uxTopReadyPriority',
              pxDelayedTaskList \ {t}, pxOverflowDelayedTaskList \ {t},
              (xSuspendedTaskList \ {t}) \cup {t}, xTasksWaitingTermination \ {t},
              uxPriority)
  BY ONLY <1>1, <1>2, <1>3, PlaceOK
<1>5. /\ (xSuspendedTaskList \ {t}) \cup {t} = xSuspendedTaskList'
      /\ xTasksWaitingTermination \ {t} = xTasksWaitingTermination'
      /\ pxDelayedTaskList \ {t} = pxDelayedTaskList'
      /\ pxOverflowDelayedTaskList \ {t} = pxOverflowDelayedTaskList'
  BY DEF LeaveBlocked
<1>6. Lists'
  BY <1>4, <1>5 DEF Lists
<1>7. Waiting' = Waiting \cup {t}
  BY <1>5 DEF Waiting, Blocked
<1>8. Created' = Created
  <2>1. Created = ReadyTasks \cup Waiting \cup xTasksWaitingTermination
    BY DEF Created, Waiting
  <2>2. Created' = ReadyTasks' \cup Waiting' \cup xTasksWaitingTermination'
    BY DEF Created, Waiting
  <2> QED BY <1>2, <1>7, <2>1, <2>2
<1> QED BY <1>1, <1>2, <1>6, <1>7, <1>8

\* vTaskDelete of the running task.
LEMMA DeletedSelfLists ==
  ASSUME Lists, pxCurrentTCB \in ReadyTasks, LeaveReady(pxCurrentTCB),
         xTasksWaitingTermination' = xTasksWaitingTermination \cup {pxCurrentTCB},
         UNCHANGED << pxDelayedTaskList, pxOverflowDelayedTaskList,
                      xSuspendedTaskList, uxPriority >>
  PROVE  /\ Lists'
         /\ ReadyTasks' = ReadyTasks \ {pxCurrentTCB}
         /\ Waiting' = Waiting
         /\ Created' = Created
<1> DEFINE t == pxCurrentTCB
<1>1. t \in Task /\ t \notin Waiting /\ t \notin xTasksWaitingTermination
  BY ReadyTask
<1>2. LeaveReady(t) /\ t \in ReadyTasks
      /\ xTasksWaitingTermination' = xTasksWaitingTermination \cup {t}
  OBVIOUS
<1> HIDE DEF t
<1>3. /\ pxDelayedTaskList \ {t} = pxDelayedTaskList
      /\ pxOverflowDelayedTaskList \ {t} = pxOverflowDelayedTaskList
      /\ xSuspendedTaskList \ {t} = xSuspendedTaskList
      /\ xTasksWaitingTermination \ {t} = xTasksWaitingTermination
  BY <1>1 DEF Waiting, Blocked
<1>4. /\ ListsOK(pxReadyTasksLists', uxTopReadyPriority', pxDelayedTaskList,
                 pxOverflowDelayedTaskList, xSuspendedTaskList,
                 xTasksWaitingTermination, uxPriority)
      /\ Members(pxReadyTasksLists') = ReadyTasks \ {t}
      /\ ReadyTasks' = ReadyTasks \ {t}
  BY <1>1, <1>2, <1>3, LeftLists
<1>5. t \notin Members(pxReadyTasksLists') \cup pxDelayedTaskList
        \cup pxOverflowDelayedTaskList \cup xSuspendedTaskList
        \cup xTasksWaitingTermination
  BY <1>1, <1>4 DEF Waiting, Blocked
<1>6. ListsOK(pxReadyTasksLists', uxTopReadyPriority', pxDelayedTaskList,
              pxOverflowDelayedTaskList, xSuspendedTaskList,
              xTasksWaitingTermination \cup {t}, uxPriority)
  BY ONLY <1>1, <1>4, <1>5, PlaceOK
<1>7. Lists'
  BY <1>2, <1>6 DEF Lists
<1>8. Waiting' = Waiting
  BY DEF Waiting, Blocked
<1>9. Created' = Created
  <2>1. Created = ReadyTasks \cup Waiting \cup xTasksWaitingTermination
    BY DEF Created, Waiting
  <2>2. Created' = ReadyTasks' \cup Waiting' \cup xTasksWaitingTermination'
    BY DEF Created, Waiting
  <2> QED BY <1>2, <1>4, <1>8, <2>1, <2>2
<1> QED BY <1>4, <1>7, <1>8, <1>9 DEF t

\* One task fewer.
LEMMA FreedCount ==
  ASSUME Count, NEW t \in Created, prvDeleteTCB(t), Created' = Created \ {t}
  PROVE  Count'
<1>1. /\ IsFiniteSet(Created \ {t})
      /\ Cardinality(Created \ {t}) = Cardinality(Created) - 1
  BY FS_RemoveElement DEF Count
<1> QED BY <1>1 DEF Count, TaskCountExact, prvDeleteTCB

\* vTaskDelete of another task.
LEMMA DeletedLists ==
  ASSUME Lists, Count, NEW t \in Created, t \notin xTasksWaitingTermination,
         LeaveReady(t), LeaveBlocked(t),
         xSuspendedTaskList' = xSuspendedTaskList \ {t},
         UNCHANGED xTasksWaitingTermination, prvDeleteTCB(t)
  PROVE  /\ Lists' /\ Count' /\ t \in Task
         /\ ReadyTasks' = ReadyTasks \ {t}
         /\ Waiting' = Waiting \ {t}
<1>1. t \in Task
  BY ReadyTask DEF Created, Lists, ListsOK, Blocked
<1>2. /\ ListsOK(pxReadyTasksLists', uxTopReadyPriority',
                 pxDelayedTaskList \ {t}, pxOverflowDelayedTaskList \ {t},
                 xSuspendedTaskList \ {t}, xTasksWaitingTermination \ {t},
                 uxPriority)
      /\ Members(pxReadyTasksLists') = ReadyTasks \ {t}
      /\ ReadyTasks' = ReadyTasks \ {t}
  BY <1>1, LeftLists
<1>3. t \notin Members(pxReadyTasksLists') /\ 0 \in Priority
  BY <1>2, PriorityFacts
<1>4. ListsOK(pxReadyTasksLists', uxTopReadyPriority',
              pxDelayedTaskList \ {t}, pxOverflowDelayedTaskList \ {t},
              xSuspendedTaskList \ {t}, xTasksWaitingTermination \ {t},
              [uxPriority EXCEPT ![t] = 0])
  BY ONLY <1>1, <1>2, <1>3, PrioOK
<1>5. /\ xTasksWaitingTermination \ {t} = xTasksWaitingTermination'
      /\ pxDelayedTaskList \ {t} = pxDelayedTaskList'
      /\ pxOverflowDelayedTaskList \ {t} = pxOverflowDelayedTaskList'
      /\ uxPriority' = [uxPriority EXCEPT ![t] = 0]
  BY DEF LeaveBlocked, prvDeleteTCB
<1>6. Lists'
  BY <1>4, <1>5 DEF Lists
<1>7. Waiting' = Waiting \ {t}
  BY <1>5 DEF Waiting, Blocked
<1>8. Created' = Created \ {t}
  <2>1. Created = ReadyTasks \cup Waiting \cup xTasksWaitingTermination
    BY DEF Created, Waiting
  <2>2. Created' = ReadyTasks' \cup Waiting' \cup xTasksWaitingTermination'
    BY DEF Created, Waiting
  <2> QED BY <1>2, <1>7, <2>1, <2>2
<1> QED BY <1>1, <1>2, <1>6, <1>7, <1>8, FreedCount

\* The idle task frees a task that deleted itself.
LEMMA CleanedLists ==
  ASSUME Lists, Count, NEW t \in xTasksWaitingTermination,
         xTasksWaitingTermination' = xTasksWaitingTermination \ {t},
         UNCHANGED << pxReadyTasksLists, uxTopReadyPriority, pxDelayedTaskList,
                      pxOverflowDelayedTaskList, xSuspendedTaskList >>,
         prvDeleteTCB(t)
  PROVE  /\ Lists' /\ Count' /\ t \in Task
         /\ ReadyTasks' = ReadyTasks /\ Waiting' = Waiting
<1>1. /\ t \in Task /\ t \notin Members(pxReadyTasksLists) /\ t \notin Waiting
      /\ 0 \in Priority
  BY PriorityFacts DEF Lists, ListsOK, Waiting, Blocked
<1>2. ListsOK(pxReadyTasksLists, uxTopReadyPriority, pxDelayedTaskList,
              pxOverflowDelayedTaskList, xSuspendedTaskList,
              xTasksWaitingTermination, uxPriority)
  BY DEF Lists
<1>3. ListsOK(pxReadyTasksLists, uxTopReadyPriority, pxDelayedTaskList,
              pxOverflowDelayedTaskList, xSuspendedTaskList,
              xTasksWaitingTermination, [uxPriority EXCEPT ![t] = 0])
  BY ONLY <1>1, <1>2, PrioOK
<1>4. ListsOK(pxReadyTasksLists, uxTopReadyPriority, pxDelayedTaskList,
              pxOverflowDelayedTaskList, xSuspendedTaskList,
              xTasksWaitingTermination \ {t}, [uxPriority EXCEPT ![t] = 0])
  BY <1>3 DEF ListsOK
<1>5. Lists'
  BY <1>4 DEF Lists, prvDeleteTCB
<1>6. ReadyTasks' = ReadyTasks /\ Waiting' = Waiting
  BY DEF ReadyTasks, Waiting, Blocked
<1>7. Created' = Created \ {t} /\ t \in Created
  <2>1. Created = ReadyTasks \cup Waiting \cup xTasksWaitingTermination
    BY DEF Created, Waiting
  <2>2. Created' = ReadyTasks' \cup Waiting' \cup xTasksWaitingTermination'
    BY DEF Created, Waiting
  <2>3. t \notin ReadyTasks
    BY <1>1 DEF ReadyTasks, Members
  <2> QED BY <1>1, <1>6, <2>1, <2>2, <2>3
<1> QED BY <1>1, <1>5, <1>6, <1>7, FreedCount

\* A task that is in no ready list enters that of its new priority.
LEMMA ReprioritisedOK ==
  ASSUME NEW ready, NEW top, NEW d, NEW o, NEW s, NEW w, NEW prio,
         ListsOK(ready, top, d, o, s, w, prio), NEW t \in Task,
         t \notin Members(ready), t \notin d \cup o \cup s \cup w,
         NEW p \in Priority, NEW new, Inserted(new, ready, p, t)
  PROVE  /\ ListsOK(new, taskRECORD_READY_PRIORITY(top, p), d, o, s, w,
                    [prio EXCEPT ![t] = p])
         /\ Members(new) = Members(ready) \cup {t}
<1> DEFINE after == [prio EXCEPT ![t] = p]
<1>1. ListsOK(ready, top, d, o, s, w, after) /\ after[t] = p
  <2>1. ListsOK(ready, top, d, o, s, w, [prio EXCEPT ![t] = p])
    BY PrioOK
  <2>2. [prio EXCEPT ![t] = p][t] = p
    BY DEF ListsOK
  <2> QED BY <2>1, <2>2
<1> HIDE DEF after
<1>2. t \notin Items(ready[p])
  BY DEF Members
<1>3. /\ ReadyOK(new)
      /\ Items(new[p]) = Items(ready[p]) \cup {t}
      /\ \A q \in Priority : q # p => Items(new[q]) = Items(ready[q])
      /\ Occupied(new) = Occupied(ready) \cup {p}
  <2>1. ReadyOK(ready)
    BY DEF ListsOK
  <2> QED BY ONLY <1>2, <2>1, AddReady, t \in Task, p \in Priority,
                  Inserted(new, ready, p, t)
<1>4. /\ taskRECORD_READY_PRIORITY(top, p) \in SUBSET Priority
      /\ TopOK(taskRECORD_READY_PRIORITY(top, p), new)
  <2>1. /\ top \in SUBSET Priority /\ TopOK(top, ready)
        /\ Occupied(ready) \subseteq Priority
    BY DEF ListsOK, Occupied
  <2> QED BY <1>3, <2>1, RecordOK
<1>5. Members(new) = Members(ready) \cup {t}
  BY <1>3 DEF Members
<1>6. \A q \in Priority : \A u \in Items(new[q]) : after[u] = q
  BY <1>1, <1>3 DEF ListsOK
<1>7. ListsOK(new, taskRECORD_READY_PRIORITY(top, p), d, o, s, w, after)
  BY <1>1, <1>3, <1>4, <1>5, <1>6 DEF ListsOK
<1> QED BY <1>5, <1>7 DEF after

\* vTaskPrioritySet.
LEMMA PriorityLists ==
  ASSUME Lists, NEW t \in Created, t \notin xTasksWaitingTermination,
         NEW p \in Priority, vTaskPrioritySet(t, p)
  PROVE  /\ Lists' /\ Created' = Created
         /\ ReadyTasks' = ReadyTasks /\ Waiting' = Waiting
<1> DEFINE old == uxPriority[t]
           left == WithoutReady(t)
           reset == taskRESET_READY_PRIORITY(uxTopReadyPriority, left, old)
           prio == [uxPriority EXCEPT ![t] = p]
<1>1. t \in Task
  BY ReadyTask DEF Created, Lists, ListsOK, Blocked
<1>2. ListsOK(pxReadyTasksLists, uxTopReadyPriority, pxDelayedTaskList,
              pxOverflowDelayedTaskList, xSuspendedTaskList,
              xTasksWaitingTermination, uxPriority)
  BY DEF Lists
<1>3. /\ uxPriority' = prio /\ prio[t] = p
      /\ UNCHANGED << pxDelayedTaskList, pxOverflowDelayedTaskList,
                      xSuspendedTaskList, xTasksWaitingTermination >>
  BY <1>1 DEF vTaskPrioritySet, Lists, ListsOK
<1>4. CASE t \in Items(pxReadyTasksLists[old])
  <2>1. t \in ReadyTasks
    BY <1>1, <1>4 DEF ReadyTasks, Lists, ListsOK
  <2>2. /\ pxDelayedTaskList \ {t} = pxDelayedTaskList
        /\ pxOverflowDelayedTaskList \ {t} = pxOverflowDelayedTaskList
        /\ xSuspendedTaskList \ {t} = xSuspendedTaskList
        /\ xTasksWaitingTermination \ {t} = xTasksWaitingTermination
        /\ t \notin xTasksWaitingTermination
    BY <2>1, ReadyTask DEF Waiting, Blocked
  <2>3. /\ ListsOK(left, reset, pxDelayedTaskList \ {t},
                   pxOverflowDelayedTaskList \ {t}, xSuspendedTaskList \ {t},
                   xTasksWaitingTermination \ {t}, uxPriority)
        /\ Members(left) = ReadyTasks \ {t}
    BY ONLY <1>1, <1>2, RemoveOK
  <2>4. prvAddTaskToReadyList(t, p, left, reset)
    BY <1>4 DEF vTaskPrioritySet
  <2>5. Inserted(pxReadyTasksLists', left, p, t)
    BY <2>4 DEF Inserted, prvAddTaskToReadyList
  <2>6. uxTopReadyPriority' = taskRECORD_READY_PRIORITY(reset, p)
    BY <2>4 DEF prvAddTaskToReadyList
  <2> HIDE DEF left, reset
  <2>7. ListsOK(left, reset, pxDelayedTaskList, pxOverflowDelayedTaskList,
                xSuspendedTaskList, xTasksWaitingTermination, uxPriority)
    BY <2>2, <2>3
  <2>8. t \notin Members(left)
    BY <2>3
  <2>9. /\ ListsOK(pxReadyTasksLists', taskRECORD_READY_PRIORITY(reset, p),
                   pxDelayedTaskList, pxOverflowDelayedTaskList,
                   xSuspendedTaskList, xTasksWaitingTermination, prio)
        /\ Members(pxReadyTasksLists') = Members(left) \cup {t}
    <3>1. /\ t \notin Members(left)
          /\ t \notin pxDelayedTaskList \cup pxOverflowDelayedTaskList
                \cup xSuspendedTaskList \cup xTasksWaitingTermination
      BY <2>2, <2>8
    <3> QED BY ONLY <1>1, <2>5, <2>7, <3>1, ReprioritisedOK, p \in Priority
  <2>10. Lists'
    BY <1>3, <2>6, <2>9 DEF Lists
  <2>11. ReadyTasks' = ReadyTasks
    BY <2>1, <2>3, <2>9 DEF ReadyTasks, Members
  <2> QED BY <1>3, <2>10, <2>11 DEF Waiting, Blocked, Created
<1>5. CASE t \notin Items(pxReadyTasksLists[old])
  <2>1. t \notin Members(pxReadyTasksLists)
    BY <1>5 DEF Members, Lists, ListsOK
  <2>2. UNCHANGED << pxReadyTasksLists, uxTopReadyPriority >>
    BY <1>5 DEF vTaskPrioritySet
  <2>3. ListsOK(pxReadyTasksLists, uxTopReadyPriority, pxDelayedTaskList,
                pxOverflowDelayedTaskList, xSuspendedTaskList,
                xTasksWaitingTermination, prio)
    BY ONLY <1>1, <1>2, <2>1, PrioOK, p \in Priority
  <2> HIDE DEF prio
  <2>4. Lists'
    BY <1>3, <2>2, <2>3 DEF Lists
  <2> QED BY <1>3, <2>2, <2>4 DEF ReadyTasks, Waiting, Blocked, Created
<1> QED BY <1>4, <1>5

\* vTaskSwitchContext when the scheduler is not suspended.
LEMMA SwitchedLists ==
  ASSUME Lists, ReadyTasks # {}, ~Deferred, vTaskSwitchContext,
         UNCHANGED << pxDelayedTaskList, pxOverflowDelayedTaskList,
                      xSuspendedTaskList, xTasksWaitingTermination, uxPriority >>
  PROVE  /\ Lists' /\ Created' = Created
         /\ ReadyTasks' = ReadyTasks /\ Waiting' = Waiting
         /\ pxCurrentTCB' \in ReadyTasks
         /\ pxCurrentTCB' \in Items(pxReadyTasksLists[SelectedPriority])
<1>1. SelectedPriority \in Priority
  BY SelectedOccupied
<1>2. /\ pxReadyTasksLists' = [pxReadyTasksLists EXCEPT
                                 ![SelectedPriority] = NextEntry(@)]
      /\ uxTopReadyPriority' = IF PortOptimised THEN uxTopReadyPriority
                               ELSE {SelectedPriority}
      /\ pxCurrentTCB' = EntryAtIndex(NextEntry(pxReadyTasksLists[SelectedPriority]))
  BY DEF vTaskSwitchContext
<1>3. pxReadyTasksLists'[SelectedPriority]
        = NextEntry(pxReadyTasksLists[SelectedPriority])
  BY <1>1, <1>2 DEF Lists, ListsOK, ReadyOK
<1>4. /\ ListsOK(pxReadyTasksLists', uxTopReadyPriority', pxDelayedTaskList,
                 pxOverflowDelayedTaskList, xSuspendedTaskList,
                 xTasksWaitingTermination, uxPriority)
      /\ Members(pxReadyTasksLists') = ReadyTasks
      /\ EntryAtIndex(pxReadyTasksLists'[SelectedPriority])
           \in Items(pxReadyTasksLists[SelectedPriority])
      /\ EntryAtIndex(pxReadyTasksLists'[SelectedPriority]) \in ReadyTasks
  BY <1>2, SelectOK
<1>5. Lists'
  BY <1>4 DEF Lists
<1>6. ReadyTasks' = ReadyTasks
  BY <1>4 DEF ReadyTasks, Members
<1> QED BY <1>2, <1>3, <1>4, <1>5, <1>6 DEF Waiting, Blocked, Created

\* A tick may swap the delayed lists.
LEMMA TickLists ==
  ASSUME Lists, AdvanceTick
  PROVE  /\ Lists' /\ Created' = Created
         /\ ReadyTasks' = ReadyTasks /\ Waiting' = Waiting
<1>1. \/ UNCHANGED << pxDelayedTaskList, pxOverflowDelayedTaskList >>
      \/ /\ pxDelayedTaskList' = pxOverflowDelayedTaskList
         /\ pxOverflowDelayedTaskList' = pxDelayedTaskList
  BY DEF AdvanceTick
<1>2. UNCHANGED << pxReadyTasksLists, uxTopReadyPriority, xSuspendedTaskList,
                   xTasksWaitingTermination, uxPriority >>
  BY DEF AdvanceTick, tcbs
<1>3. ListsOK(pxReadyTasksLists, uxTopReadyPriority, pxDelayedTaskList,
              pxOverflowDelayedTaskList, xSuspendedTaskList,
              xTasksWaitingTermination, uxPriority)
  BY DEF Lists
<1>4. ListsOK(pxReadyTasksLists, uxTopReadyPriority, pxOverflowDelayedTaskList,
              pxDelayedTaskList, xSuspendedTaskList, xTasksWaitingTermination,
              uxPriority)
  BY ONLY <1>3, SwapOK
<1>5. Lists'
  BY <1>1, <1>2, <1>3, <1>4 DEF Lists
<1> QED BY <1>1, <1>2, <1>5 DEF ReadyTasks, Waiting, Blocked, Created
-----------------------------------------------------------------------------
\* How a step leaves the event items and the number of tasks.

LEMMA EventsKept ==
  ASSUME Events, UNCHANGED events, Waiting \subseteq Waiting'
  PROVE  Events'
BY DEF Events, events, OnEventList

LEMMA EventsLeft ==
  ASSUME Events, NEW t \in Task, LeaveEvent(t), Waiting \ {t} \subseteq Waiting'
  PROVE  Events'
<1>1. /\ eventList' \in Seq(Task) /\ IsInjective(eventList')
      /\ ToSet(eventList') = OnEventList \ {t}
  BY WithoutEventFacts DEF LeaveEvent
<1>2. OnEventList' = OnEventList \ {t} /\ xPendingReadyList' = xPendingReadyList \ {t}
  BY <1>1 DEF OnEventList, LeaveEvent
<1> QED BY <1>1, <1>2 DEF Events

LEMMA CountKept ==
  ASSUME Count, Created' = Created, UNCHANGED uxCurrentNumberOfTasks
  PROVE  Count'
BY DEF Count, TaskCountExact

\* A step that touches no list.
LEMMA QuietLists ==
  ASSUME IInv, UNCHANGED << lists, events, tcbs >>
  PROVE  /\ Lists' /\ Events' /\ Count'
         /\ ReadyTasks' = ReadyTasks /\ Waiting' = Waiting
<1>1. /\ Lists' /\ Created' = Created
      /\ ReadyTasks' = ReadyTasks /\ Waiting' = Waiting
  BY SameLists DEF IInv, lists, listVars, tcbs
<1>2. Events'
  BY <1>1, EventsKept DEF IInv
<1>3. Count'
  BY <1>1, CountKept DEF IInv, tcbs
<1> QED BY <1>1, <1>2, <1>3

\* The running task is a task.
LEMMA RunningTask ==
  ASSUME IInv, Runs
  PROVE  pxCurrentTCB \in Task /\ xSchedulerRunning /\ kernel = "task" /\ ~yieldIrq
BY DEF IInv, Control, Runs
\* A step of the running task that leaves the masked loops alone.
LEMMA RunningControl ==
  ASSUME IInv, Runs, NEW where, Goto(where),
         UNCHANGED << xSchedulerRunning, pxCurrentTCB, locals >>,
         Idle \in ReadyTasks',
         pxCurrentTCB = Idle => where = "app",
         where \in Suspending => uxSchedulerSuspended' > 0
  PROVE  Control'
<1>1. pxCurrentTCB \in Task /\ xSchedulerRunning /\ kernel = "task"
  BY RunningTask
<1>2. /\ xSchedulerRunning' /\ pxCurrentTCB' \in Task /\ kernel' = "task"
      /\ ticksLeft' = 0 /\ ~InResume'
  BY <1>1 DEF IInv, Control, locals, InResume
<1>3. /\ pc'[pxCurrentTCB] = where
      /\ \A t \in Task : t # pxCurrentTCB => pc'[t] = pc[t]
  BY <1>1 DEF Goto, IInv, Types
<1>4. \A t \in Task : pc[t] \in Suspending => t = pxCurrentTCB
  BY DEF IInv, Control
<1>5. \A t \in Task : pc'[t] \in Suspending =>
        t = pxCurrentTCB' /\ uxSchedulerSuspended' > 0
  BY <1>3, <1>4
<1>6. pc'[Idle] = "app"
  BY <1>3, PriorityFacts DEF IInv, Control
<1> QED BY <1>2, <1>5, <1>6 DEF Control

\* Writing a task's own place back.
LEMMA StaysThere ==
  ASSUME IInv, Runs, UNCHANGED pc
  PROVE  Goto(pc[pxCurrentTCB])
BY RunningTask DEF Goto, IInv, Types
-----------------------------------------------------------------------------
\* The steps that touch no list.

LEMMA YieldStep ==
  ASSUME IInv, Yield \/ IdleYield \/ YieldWithinAPI
  PROVE  IInv'
<1>1. /\ Runs /\ UNCHANGED << lists, events, tcbs, clock, locals, pxCurrentTCB,
                              uxSchedulerSuspended, xYieldPending, abortee >>
      /\ yieldIrq' = TRUE
      /\ pc[pxCurrentTCB] \in {"app", "yield"}
  BY DEF Yield, IdleYield, YieldWithinAPI, App, At
<1>2. /\ Lists' /\ Events' /\ Count'
      /\ ReadyTasks' = ReadyTasks /\ Waiting' = Waiting
  BY <1>1, QuietLists
<1>3. pxCurrentTCB \in Task /\ xSchedulerRunning /\ kernel = "task" /\ ~yieldIrq
  BY <1>1, RunningTask
<1>4. Goto("app")
  BY <1>1, StaysThere DEF Yield, IdleYield, YieldWithinAPI, At, App
<1>5. Types'
  BY <1>1, <1>4 DEF IInv, Types, Goto, lists, tcbs, clock, locals, Places
<1>6. Control'
  <2>1. Idle \in ReadyTasks'
    BY <1>2, <1>3 DEF IInv, Control
  <2>2. "app" \notin Suspending
    BY DEF Suspending
  <2> QED BY <1>1, <1>4, <2>1, <2>2, RunningControl DEF tcbs
<1>7. Current'
  BY <1>1, <1>2, <1>3, <1>4 DEF IInv, Types, Current, Goto, StillReady, tcbs
<1> QED BY <1>2, <1>5, <1>6, <1>7 DEF IInv

\* Inside an API function the running task is not the idle task, and the
\* suspension that the function began holds.
LEMMA RunningPlace ==
  ASSUME IInv, Runs
  PROVE  /\ pc[pxCurrentTCB] # "app" => pxCurrentTCB # Idle
         /\ pc[pxCurrentTCB] \in Suspending => uxSchedulerSuspended > 0
<1>1. pxCurrentTCB \in Task /\ kernel = "task" /\ ~InResume
  BY RunningTask DEF InResume, IInv, Control
<1> QED BY <1>1 DEF IInv, Control

\* The steps between the two halves of a suspension.
LEMMA PlaceStep ==
  ASSUME IInv, Runs, NEW where, Goto(where),
         UNCHANGED << lists, events, tcbs, locals, pxCurrentTCB, yieldIrq >>,
         pxCurrentTCB # Idle, where \in Places, Types',
         where \in Suspending => uxSchedulerSuspended' > 0,
         where \in {"delay", "wait", "catchUp", "resumeYield"} =>
           uxSchedulerSuspended' <= 1,
         where \in {"suspendSelf", "yield"} => uxSchedulerSuspended' = 0,
         where \in StillReady => pxCurrentTCB \in ReadyTasks,
         where = "abortBlocked" => abortee' \in Waiting
  PROVE  IInv'
<1>1. /\ Lists' /\ Events' /\ Count'
      /\ ReadyTasks' = ReadyTasks /\ Waiting' = Waiting
  BY QuietLists
<1>2. pxCurrentTCB \in Task /\ xSchedulerRunning /\ kernel = "task" /\ ~yieldIrq
  BY RunningTask
<1>3. Control'
  <2>1. Idle \in ReadyTasks'
    BY <1>1, <1>2 DEF IInv, Control
  <2> QED BY <2>1, RunningControl DEF tcbs
<1>4. pc'[pxCurrentTCB'] = where /\ pxCurrentTCB' = pxCurrentTCB
  BY <1>2 DEF Goto, IInv, Types
<1>5. Current'
  BY <1>1, <1>4 DEF Current, Waiting
<1> QED BY <1>1, <1>3, <1>5 DEF IInv

LEMMA SuspendAllStep ==
  ASSUME IInv, NEW where \in {"app", "delay", "wait", "catchUp", "abort"},
         vTaskSuspendAll(where)
  PROVE  IInv'
<1>1. /\ Runs /\ pc[pxCurrentTCB] = "app" /\ pxCurrentTCB # Idle /\ Goto(where)
      /\ UNCHANGED << lists, events, tcbs, clock, locals, pxCurrentTCB,
                      xYieldPending, yieldIrq, abortee >>
      /\ uxSchedulerSuspended < MaxNest
      /\ uxSchedulerSuspended' = uxSchedulerSuspended + 1
      /\ where \in {"delay", "wait", "catchUp"} => uxSchedulerSuspended = 0
  BY DEF vTaskSuspendAll, App, At
<1>2. pxCurrentTCB \in Task /\ xSchedulerRunning /\ ~yieldIrq
  BY <1>1, RunningTask
<1>3. uxSchedulerSuspended \in Nat /\ uxSchedulerSuspended' \in 0..MaxNest
  BY <1>1, SchedulerAssumption DEF IInv, Types
<1>4. Types'
  <2>1. Types
    BY DEF IInv
  <2>2. where \in Places
    BY DEF Places
  <2>3. pc' \in [Task -> Places]
    BY <1>1, <1>2, <2>1, <2>2 DEF Goto, Types
  <2>4. UNCHANGED << xSchedulerRunning, pxCurrentTCB, xItemValue,
                     xNextTaskUnblockTime, xTickCount, xPendedTicks,
                     xYieldPending, yieldIrq, abortee, kernel, ticksLeft,
                     switchRequired, readied, toGo >>
    BY <1>1 DEF lists, tcbs, clock, locals, Goto
  <2> QED BY <1>3, <2>1, <2>3, <2>4 DEF Types
<1>5. pxCurrentTCB \in ReadyTasks
  BY <1>1, <1>2 DEF IInv, Current, StillReady
<1> QED BY <1>1, <1>3, <1>4, <1>5, PlaceStep DEF Places

LEMMA MoveOnStep ==
  ASSUME IInv, AppResumeAll \/ DelayUntilPassed
  PROVE  IInv'
<1>1. /\ Runs
      /\ UNCHANGED << lists, events, tcbs, clock, locals, pxCurrentTCB,
                      uxSchedulerSuspended, xYieldPending, yieldIrq, abortee >>
      /\ \/ /\ pc[pxCurrentTCB] = "app" /\ pxCurrentTCB # Idle
            /\ uxSchedulerSuspended > 0 /\ Goto("resume")
         \/ pc[pxCurrentTCB] = "delay" /\ Goto("resumeYield")
  BY DEF AppResumeAll, DelayUntilPassed, App, At
<1>2. pxCurrentTCB \in Task /\ xSchedulerRunning /\ ~yieldIrq
  BY <1>1, RunningTask
<1>3. Types'
  BY <1>1 DEF IInv, Types, Goto, lists, tcbs, clock, locals, Places
<1>4. pxCurrentTCB \in ReadyTasks /\ pxCurrentTCB # Idle /\ uxSchedulerSuspended > 0
  BY <1>1, <1>2, RunningPlace DEF IInv, Current, StillReady, Suspending
<1>5. pc[pxCurrentTCB] = "delay" => uxSchedulerSuspended <= 1
  BY <1>2 DEF IInv, Current
<1> QED BY <1>1, <1>3, <1>4, <1>5, PlaceStep DEF Places

LEMMA CatchUpTicksStep ==
  ASSUME IInv, NEW ticks \in 0..(MaxPended - xPendedTicks),
         xTaskCatchUpTicks(ticks)
  PROVE  IInv'
<1>1. /\ Runs /\ pc[pxCurrentTCB] = "catchUp" /\ Goto("resume")
      /\ UNCHANGED << lists, events, tcbs, xNextTaskUnblockTime, xTickCount,
                      locals, pxCurrentTCB, uxSchedulerSuspended,
                      xYieldPending, yieldIrq, abortee >>
      /\ xPendedTicks' = xPendedTicks + ticks
  BY DEF xTaskCatchUpTicks, At
<1>2. pxCurrentTCB \in Task /\ xSchedulerRunning /\ ~yieldIrq
  BY <1>1, RunningTask
<1>3. xPendedTicks' \in 0..MaxPended
  BY <1>1, SchedulerAssumption DEF IInv, Types
<1>4. Types'
  BY <1>1, <1>3 DEF IInv, Types, Goto, lists, tcbs, locals, Places
<1>5. pxCurrentTCB \in ReadyTasks /\ pxCurrentTCB # Idle /\ uxSchedulerSuspended > 0
  BY <1>1, <1>2, RunningPlace DEF IInv, Current, StillReady, Suspending
<1> QED BY <1>1, <1>4, <1>5, PlaceStep DEF Places

LEMMA AbortCheckStep ==
  ASSUME IInv, NEW t \in Task, AbortCheck(t)
  PROVE  IInv'
<1>1. /\ Runs /\ pc[pxCurrentTCB] = "abort"
      /\ UNCHANGED << lists, events, tcbs, clock, locals, pxCurrentTCB,
                      uxSchedulerSuspended, xYieldPending, yieldIrq >>
      /\ \/ Goto("abortBlocked") /\ abortee' = t /\ t \in Waiting
         \/ Goto("resume") /\ UNCHANGED abortee
  BY DEF AbortCheck, At, eBlocked, Waiting
<1>2. pxCurrentTCB \in Task /\ xSchedulerRunning /\ ~yieldIrq
  BY <1>1, RunningTask
<1>3. Types'
  BY <1>1 DEF IInv, Types, Goto, lists, tcbs, clock, locals, Places
<1>4. pxCurrentTCB \in ReadyTasks /\ pxCurrentTCB # Idle /\ uxSchedulerSuspended > 0
  BY <1>1, <1>2, RunningPlace DEF IInv, Current, StillReady, Suspending
<1> QED BY <1>1, <1>3, <1>4, PlaceStep DEF Places

LEMMA SuspendResetsStep ==
  ASSUME IInv, SuspendResetsUnblockTime
  PROVE  IInv'
<1>1. /\ Runs
      /\ UNCHANGED << lists, events, tcbs, xTickCount, xPendedTicks, locals,
                      pxCurrentTCB, uxSchedulerSuspended, xYieldPending,
                      yieldIrq, abortee >>
      /\ xNextTaskUnblockTime' = prvResetNextTaskUnblockTime(pxDelayedTaskList)
      /\ \/ pc[pxCurrentTCB] = "suspendSelf" /\ Goto("yield")
         \/ pc[pxCurrentTCB] = "suspendOther" /\ Goto("app")
  BY DEF SuspendResetsUnblockTime, At
<1>2. pxCurrentTCB \in Task /\ xSchedulerRunning /\ ~yieldIrq
  BY <1>1, RunningTask
<1>3. xNextTaskUnblockTime' \in TickType
  BY <1>1, UnblockTimeType DEF IInv, Types, Lists, ListsOK
<1>4. Types'
  BY <1>1, <1>3 DEF IInv, Types, Goto, lists, tcbs, locals, Places
<1>5. /\ pxCurrentTCB # Idle
      /\ pc[pxCurrentTCB] = "suspendSelf" => uxSchedulerSuspended = 0
      /\ pc[pxCurrentTCB] = "suspendOther" => pxCurrentTCB \in ReadyTasks
  BY <1>1, <1>2, RunningPlace DEF IInv, Current, StillReady
<1>6. {"yield", "app"} \cap Suspending = {} /\ "yield" \notin StillReady
  BY DEF Suspending, StillReady
<1> QED BY <1>1, <1>4, <1>5, <1>6, PlaceStep DEF Places
-----------------------------------------------------------------------------
\* The steps of the masked loops, and the tick that starts one.

LEMMA MaskedControl ==
  ASSUME IInv, xSchedulerRunning, uxSchedulerSuspended = 0,
         UNCHANGED << xSchedulerRunning, pxCurrentTCB, uxSchedulerSuspended, pc,
                      abortee >>,
         ReadyTasks \subseteq ReadyTasks',
         kernel' = "task" => ticksLeft' = 0,
         InResume' = InResume,
         yieldIrq => yieldIrq', InResume => ~yieldIrq'
  PROVE  Control' /\ Current'
<1>1. Control'
  BY DEF IInv, Control
<1>2. pc[pxCurrentTCB] # "abortBlocked"
  BY DEF IInv, Control, Suspending
<1>3. Current'
  BY <1>2 DEF IInv, Current
<1> QED BY <1>1, <1>3

LEMMA WakeDoneStep ==
  ASSUME IInv, WakeDone
  PROVE  IInv'
<1>1. /\ kernel = "wake" /\ kernel' = "tickEnd"
      /\ xNextTaskUnblockTime' = prvResetNextTaskUnblockTime(pxDelayedTaskList)
      /\ UNCHANGED << lists, events, tcbs, xTickCount, xPendedTicks,
                      switchRequired, readied, ticksLeft, pxCurrentTCB,
                      uxSchedulerSuspended, xYieldPending, yieldIrq, pc,
                      abortee >>
  BY DEF WakeDone
<1>2. /\ Lists' /\ Events' /\ Count'
      /\ ReadyTasks' = ReadyTasks /\ Waiting' = Waiting
  BY <1>1, QuietLists
<1>3. /\ xSchedulerRunning /\ uxSchedulerSuspended = 0 /\ InResume' = InResume
      /\ InResume => ~yieldIrq
  BY <1>1 DEF IInv, Control, InResume
<1>4. Control' /\ Current'
  BY <1>1, <1>2, <1>3, MaskedControl DEF tcbs
<1>5. xNextTaskUnblockTime' \in TickType
  BY <1>1, UnblockTimeType DEF IInv, Types, Lists, ListsOK
<1>6. Types'
  BY <1>1, <1>5 DEF IInv, Types, lists, tcbs
<1> QED BY <1>2, <1>4, <1>6 DEF IInv

LEMMA TickEndStep ==
  ASSUME IInv, TickEnd
  PROVE  IInv'
<1>1. /\ kernel = "tickEnd" /\ switchRequired' = FALSE
      /\ UNCHANGED << lists, events, tcbs, clock, readied, pxCurrentTCB,
                      uxSchedulerSuspended, pc, abortee >>
      /\ \/ /\ ticksLeft = 0 /\ ticksLeft' = 0 /\ kernel' = "task"
            /\ yieldIrq' = (yieldIrq \/ TickSwitches)
            /\ UNCHANGED xYieldPending
         \/ /\ ticksLeft # 0 /\ ticksLeft' = ticksLeft - 1 /\ kernel' = "catchUp"
            /\ xYieldPending' = TickSwitches /\ UNCHANGED yieldIrq
  BY DEF TickEnd
<1>2. /\ Lists' /\ Events' /\ Count'
      /\ ReadyTasks' = ReadyTasks /\ Waiting' = Waiting
  BY <1>1, QuietLists
<1>3. ticksLeft \in Nat
  BY SchedulerAssumption DEF IInv, Types
<1>4. /\ xSchedulerRunning /\ uxSchedulerSuspended = 0 /\ InResume' = InResume
      /\ InResume => ~yieldIrq'
  BY <1>1, <1>3 DEF IInv, Control, InResume
<1>5. Control' /\ Current'
  <2>1. yieldIrq => yieldIrq'
    <3>1. yieldIrq' = (yieldIrq \/ TickSwitches) \/ yieldIrq' = yieldIrq
      BY <1>1
    <3> QED BY ONLY <3>1, Zenon
  <2>2. kernel' = "task" => ticksLeft' = 0
    BY <1>1
  <2>3. ReadyTasks \subseteq ReadyTasks'
    BY <1>2
  <2>4. UNCHANGED << xSchedulerRunning, pxCurrentTCB, uxSchedulerSuspended, pc,
                     abortee >>
    BY <1>1 DEF tcbs
  <2> QED BY ONLY <1>4, <2>1, <2>2, <2>3, <2>4, MaskedControl, IInv
<1>6. TickSwitches \in BOOLEAN
  BY DEF TickSwitches, IInv, Types
<1>7. yieldIrq' \in BOOLEAN /\ xYieldPending' \in BOOLEAN
  BY <1>1, <1>6 DEF IInv, Types
<1>8. ticksLeft' \in 0..MaxPended
  BY <1>1, SchedulerAssumption DEF IInv, Types
<1>9. Types'
  BY <1>1, <1>7, <1>8 DEF IInv, Types, lists, tcbs, clock
<1> QED BY <1>2, <1>5, <1>9 DEF IInv

LEMMA DrainDoneStep ==
  ASSUME IInv, DrainDone
  PROVE  IInv'
<1>1. /\ kernel = "drain" /\ kernel' = "catchUp" /\ ticksLeft' = xPendedTicks
      /\ readied' = FALSE
      /\ xNextTaskUnblockTime' \in
           {xNextTaskUnblockTime, prvResetNextTaskUnblockTime(pxDelayedTaskList)}
      /\ UNCHANGED << lists, events, tcbs, xTickCount, xPendedTicks,
                      switchRequired, pxCurrentTCB, uxSchedulerSuspended,
                      xYieldPending, yieldIrq, pc, abortee >>
  BY DEF DrainDone
<1>2. /\ Lists' /\ Events' /\ Count'
      /\ ReadyTasks' = ReadyTasks /\ Waiting' = Waiting
  BY <1>1, QuietLists
<1>3. /\ xSchedulerRunning /\ uxSchedulerSuspended = 0 /\ InResume' = InResume
      /\ InResume => ~yieldIrq
  BY <1>1 DEF IInv, Control, InResume
<1>4. Control' /\ Current'
  BY <1>1, <1>2, <1>3, MaskedControl DEF tcbs
<1>5. xNextTaskUnblockTime' \in TickType
  BY <1>1, UnblockTimeType DEF IInv, Types, Lists, ListsOK
<1>6. Types'
  BY <1>1, <1>5 DEF IInv, Types, lists, tcbs
<1> QED BY <1>2, <1>4, <1>6 DEF IInv

\* One processed tick.
LEMMA AdvanceTickLists ==
  ASSUME IInv, AdvanceTick
  PROVE  /\ Lists' /\ Events' /\ Count' /\ ReadyTasks' = ReadyTasks
         /\ xTickCount' \in TickType /\ xNextTaskUnblockTime' \in TickType
         /\ toGo' \in [Task -> Int]
         /\ kernel' \in {"wake", "tickEnd"} /\ switchRequired' = FALSE
<1>1. /\ Lists' /\ Created' = Created
      /\ ReadyTasks' = ReadyTasks /\ Waiting' = Waiting
  BY TickLists DEF IInv
<1>2. Events'
  BY <1>1, EventsKept DEF IInv, AdvanceTick
<1>3. Count'
  BY <1>1, CountKept DEF IInv, AdvanceTick, tcbs
<1>4. xTickCount' \in TickType
  <2>1. xTickCount' = (xTickCount + 1) % TickMod /\ xTickCount \in Nat
    BY TickFacts DEF AdvanceTick, IInv, Types
  <2> QED BY <2>1, TickFacts
<1>5. xNextTaskUnblockTime' \in TickType
  <2>1. prvResetNextTaskUnblockTime(pxOverflowDelayedTaskList) \in TickType
    BY UnblockTimeType DEF IInv, Types, Lists, ListsOK
  <2>2. \/ UNCHANGED xNextTaskUnblockTime
        \/ xNextTaskUnblockTime'
             = prvResetNextTaskUnblockTime(pxOverflowDelayedTaskList)
    BY DEF AdvanceTick
  <2> QED BY <2>1, <2>2 DEF IInv, Types
<1>6. toGo' \in [Task -> Int]
  <2>1. toGo' = [t \in Task |-> IF t \in Blocked THEN toGo[t] - 1 ELSE toGo[t]]
    BY DEF AdvanceTick
  <2>2. \A t \in Task : toGo[t] \in Int
    BY DEF IInv, Types
  <2> QED BY <2>1, <2>2
<1>7. kernel' \in {"wake", "tickEnd"} /\ switchRequired' = FALSE
  BY DEF AdvanceTick
<1> QED BY <1>1, <1>2, <1>3, <1>4, <1>5, <1>6, <1>7

LEMMA AdvanceTickStep ==
  ASSUME IInv, AdvanceTick, UNCHANGED xPendedTicks, xSchedulerRunning,
         uxSchedulerSuspended = 0,
         kernel = "task" \/ (kernel = "catchUp" /\ ticksLeft > 0)
  PROVE  IInv'
<1>1. /\ Lists' /\ Events' /\ Count' /\ ReadyTasks' = ReadyTasks
      /\ xTickCount' \in TickType /\ xNextTaskUnblockTime' \in TickType
      /\ toGo' \in [Task -> Int]
      /\ kernel' \in {"wake", "tickEnd"} /\ switchRequired' = FALSE
  BY AdvanceTickLists
<1>2. UNCHANGED << xItemValue, tcbs, readied, ticksLeft, pxCurrentTCB,
                   uxSchedulerSuspended, xYieldPending, yieldIrq, pc, abortee >>
  BY DEF AdvanceTick
<1>3. InResume' = InResume
  BY <1>1, <1>2 DEF InResume, IInv, Control
<1>4. Control' /\ Current'
  BY <1>1, <1>2, <1>3, MaskedControl DEF tcbs, IInv, Control
<1>5. Types'
  BY <1>1, <1>2 DEF IInv, Types, tcbs
<1> QED BY <1>1, <1>4, <1>5 DEF IInv

LEMMA TickISRStep ==
  ASSUME IInv, TickISR
  PROVE  IInv'
<1>1. xSchedulerRunning /\ kernel = "task" /\ uxSchedulerSuspended \in Nat
  BY SchedulerAssumption DEF TickISR, IInv, Types
<1>2. CASE ~Deferred
  <2>1. AdvanceTick /\ UNCHANGED xPendedTicks
    BY <1>2 DEF TickISR
  <2>2. uxSchedulerSuspended = 0
    BY <1>1, <1>2 DEF Deferred
  <2>3. kernel = "task" \/ (kernel = "catchUp" /\ ticksLeft > 0)
    BY <1>1
  <2> QED BY ONLY <1>1, <2>1, <2>2, <2>3, AdvanceTickStep, IInv
<1>3. CASE Deferred
  <2>1. /\ xPendedTicks < MaxPended /\ xPendedTicks' = xPendedTicks + 1
        /\ UNCHANGED << lists, events, tcbs, xNextTaskUnblockTime, xTickCount,
                        locals, pxCurrentTCB, uxSchedulerSuspended,
                        xYieldPending, yieldIrq, pc, abortee >>
    BY <1>3 DEF TickISR
  <2>2. /\ Lists' /\ Events' /\ Count'
        /\ ReadyTasks' = ReadyTasks /\ Waiting' = Waiting
    BY <2>1, QuietLists
  <2>3. xPendedTicks' \in 0..MaxPended
    BY <2>1, SchedulerAssumption DEF IInv, Types
  <2>4. Types'
    BY <2>1, <2>3 DEF IInv, Types, lists, tcbs, locals
  <2>5. Control'
    BY <2>1, <2>2 DEF IInv, Control, InResume, tcbs, locals
  <2>6. Current'
    BY <2>1, <2>2 DEF IInv, Current, tcbs, Waiting
  <2> QED BY <2>2, <2>4, <2>5, <2>6 DEF IInv
<1> QED BY <1>2, <1>3

LEMMA CatchUpTickStep ==
  ASSUME IInv, CatchUpTick
  PROVE  IInv'
<1>1. xSchedulerRunning /\ uxSchedulerSuspended = 0
  BY DEF CatchUpTick, IInv, Control
<1> QED BY <1>1, AdvanceTickStep DEF CatchUpTick

\* The fields that LeaveBlocked clears.
LEMMA LeftTypes ==
  ASSUME IInv, NEW t \in Task, LeaveBlocked(t)
  PROVE  xItemValue' \in [Task -> TickType] /\ toGo' \in [Task -> Int]
BY TickFacts DEF IInv, Types, LeaveBlocked

LEMMA WakeDueStep ==
  ASSUME IInv, NEW t \in Task, WakeDue(t)
  PROVE  IInv'
<1>1. /\ kernel = "wake" /\ t \in pxDelayedTaskList
      /\ LeaveBlocked(t) /\ LeaveEvent(t)
      /\ prvAddTaskToReadyList(t, uxPriority[t], pxReadyTasksLists,
                               uxTopReadyPriority)
      /\ switchRequired' = (switchRequired \/ Outranks(t))
      /\ UNCHANGED << xSuspendedTaskList, xTasksWaitingTermination, tcbs, clock,
                      kernel, readied, ticksLeft, pxCurrentTCB,
                      uxSchedulerSuspended, xYieldPending, yieldIrq, pc,
                      abortee >>
  BY DEF WakeDue
<1>2. t \in Waiting /\ xSuspendedTaskList \ {t} = xSuspendedTaskList
  BY <1>1 DEF IInv, Lists, ListsOK, Waiting, Blocked
<1>3. /\ Lists' /\ Created' = Created
      /\ ReadyTasks' = ReadyTasks \cup {t} /\ Waiting' = Waiting \ {t}
  <2>1. /\ pxDelayedTaskList' = pxDelayedTaskList \ {t}
        /\ pxOverflowDelayedTaskList' = pxOverflowDelayedTaskList \ {t}
        /\ xSuspendedTaskList' = xSuspendedTaskList \ {t}
        /\ UNCHANGED << xTasksWaitingTermination, uxPriority >>
    BY <1>1, <1>2 DEF LeaveBlocked, tcbs
  <2> QED BY <1>1, <1>2, <2>1, ReadiedLists DEF IInv
<1>4. Events'
  BY <1>1, <1>3, EventsLeft DEF IInv
<1>5. Count'
  BY <1>1, <1>3, CountKept DEF IInv, tcbs
<1>6. Control' /\ Current'
  <2>1. /\ xSchedulerRunning /\ uxSchedulerSuspended = 0 /\ InResume' = InResume
        /\ InResume => ~yieldIrq
    BY <1>1 DEF IInv, Control, InResume
  <2> QED BY <1>1, <1>3, <2>1, MaskedControl DEF tcbs
<1>7. xItemValue' \in [Task -> TickType] /\ toGo' \in [Task -> Int]
  BY <1>1, LeftTypes
<1>8. switchRequired' \in BOOLEAN
  <2>1. Outranks(t) \in BOOLEAN /\ switchRequired \in BOOLEAN
    BY DEF Outranks, IInv, Types
  <2> QED BY <1>1, <2>1
<1>9. Types'
  BY <1>1, <1>7, <1>8 DEF IInv, Types, tcbs, clock
<1> QED BY <1>3, <1>4, <1>5, <1>6, <1>9 DEF IInv

LEMMA DrainStep ==
  ASSUME IInv, NEW t \in Task, DrainPendingReady(t)
  PROVE  IInv'
<1>1. /\ kernel = "drain" /\ t \in xPendingReadyList
      /\ xPendingReadyList' = xPendingReadyList \ {t}
      /\ LeaveBlocked(t) /\ xSuspendedTaskList' = xSuspendedTaskList \ {t}
      /\ prvAddTaskToReadyList(t, uxPriority[t], pxReadyTasksLists,
                               uxTopReadyPriority)
      /\ xYieldPending' = (xYieldPending \/ Outranks(t))
      /\ readied' = TRUE
      /\ UNCHANGED << xTasksWaitingTermination, eventList, tcbs, clock, kernel,
                      switchRequired, ticksLeft, pxCurrentTCB,
                      uxSchedulerSuspended, yieldIrq, pc, abortee >>
  BY DEF DrainPendingReady
<1>2. t \in Waiting /\ t \notin OnEventList
  BY <1>1 DEF IInv, Events
<1>3. /\ Lists' /\ Created' = Created
      /\ ReadyTasks' = ReadyTasks \cup {t} /\ Waiting' = Waiting \ {t}
  <2>1. /\ pxDelayedTaskList' = pxDelayedTaskList \ {t}
        /\ pxOverflowDelayedTaskList' = pxOverflowDelayedTaskList \ {t}
        /\ UNCHANGED << xTasksWaitingTermination, uxPriority >>
    BY <1>1 DEF LeaveBlocked, tcbs
  <2> QED BY <1>1, <1>2, <2>1, ReadiedLists DEF IInv
<1>4. Events'
  <2>1. LeaveEvent(t)
    BY <1>1, <1>2 DEF LeaveEvent, WithoutEvent
  <2> QED BY <1>3, <2>1, EventsLeft DEF IInv
<1>5. Count'
  BY <1>1, <1>3, CountKept DEF IInv, tcbs
<1>6. Control' /\ Current'
  <2>1. /\ xSchedulerRunning /\ uxSchedulerSuspended = 0 /\ InResume' = InResume
        /\ InResume => ~yieldIrq
    BY <1>1 DEF IInv, Control, InResume
  <2> QED BY <1>1, <1>3, <2>1, MaskedControl DEF tcbs
<1>7. xItemValue' \in [Task -> TickType] /\ toGo' \in [Task -> Int]
  BY <1>1, LeftTypes
<1>8. xYieldPending' \in BOOLEAN
  <2>1. Outranks(t) \in BOOLEAN /\ xYieldPending \in BOOLEAN
    BY DEF Outranks, IInv, Types
  <2> QED BY <1>1, <2>1
<1>9. Types'
  BY <1>1, <1>7, <1>8 DEF IInv, Types, tcbs, clock
<1> QED BY <1>3, <1>4, <1>5, <1>6, <1>9 DEF IInv

LEMMA ResumeAllStep ==
  ASSUME IInv, xTaskResumeAll
  PROVE  IInv'
<1>1. /\ Runs /\ pc[pxCurrentTCB] \in {"resume", "resumeYield"}
      /\ uxSchedulerSuspended' = uxSchedulerSuspended - 1
      /\ readied' = FALSE
      /\ UNCHANGED << lists, events, tcbs, clock, switchRequired, ticksLeft,
                      pxCurrentTCB, xYieldPending, yieldIrq, abortee >>
  BY DEF xTaskResumeAll, At
<1>2. /\ pxCurrentTCB \in Task /\ xSchedulerRunning /\ kernel = "task"
      /\ ~yieldIrq /\ pxCurrentTCB # Idle /\ uxSchedulerSuspended > 0
      /\ pc[pxCurrentTCB] = "resumeYield" => uxSchedulerSuspended <= 1
  BY <1>1, RunningTask, RunningPlace DEF Suspending, IInv, Current
<1>3. uxSchedulerSuspended \in Nat /\ uxSchedulerSuspended' \in 0..MaxNest
  BY <1>1, <1>2, SchedulerAssumption DEF IInv, Types
<1>4. /\ Lists' /\ Events' /\ Count'
      /\ ReadyTasks' = ReadyTasks /\ Waiting' = Waiting
  BY <1>1, QuietLists
<1>5. pc[pxCurrentTCB] = "resume" => pxCurrentTCB \in ReadyTasks
  BY <1>2 DEF IInv, Current, StillReady
<1>6. Idle \in ReadyTasks'
  BY <1>2, <1>4 DEF IInv, Control
<1>7. CASE uxSchedulerSuspended = 1
  <2>1. kernel' = "drain" /\ UNCHANGED pc
    BY <1>7 DEF xTaskResumeAll
  <2>2. Types'
    BY <1>1, <1>3, <2>1 DEF IInv, Types, lists, tcbs, clock
  <2>3. InResume' /\ uxSchedulerSuspended' = 0
    BY <1>1, <1>7, <2>1 DEF InResume
  <2>4. Control'
    BY <1>1, <1>2, <1>6, <2>1, <2>3 DEF IInv, Control, tcbs
  <2>5. Current'
    BY <1>1, <1>2, <1>4, <1>5, <2>1, <2>3 DEF Current, StillReady, tcbs
  <2> QED BY <1>4, <2>2, <2>4, <2>5 DEF IInv
<1>8. CASE uxSchedulerSuspended # 1
  <2>1. pc[pxCurrentTCB] = "resume"
    BY <1>1, <1>2, <1>3, <1>8
  <2>2. Goto("app") /\ UNCHANGED kernel
    BY <1>8, <2>1 DEF xTaskResumeAll, ResumeReturns, At
  <2>3. Types'
    BY <1>1, <1>3, <2>2 DEF IInv, Types, Goto, lists, tcbs, clock, Places
  <2>4. pc'[pxCurrentTCB] = "app"
        /\ \A t \in Task : t # pxCurrentTCB => pc'[t] = pc[t]
    BY <1>2, <2>2 DEF Goto, IInv, Types
  <2>5. ~InResume' /\ \A t \in Task : pc'[t] \notin Suspending
    BY <1>1, <1>2, <2>2, <2>4 DEF IInv, Control, InResume, Suspending
  <2>6. Control'
    BY <1>1, <1>2, <1>6, <2>2, <2>4, <2>5, PriorityFacts DEF IInv, Control, tcbs
  <2>7. Current'
    BY <1>1, <1>2, <1>4, <1>5, <2>1, <2>4 DEF Current, StillReady, tcbs
  <2> QED BY <1>4, <2>3, <2>6, <2>7 DEF IInv
<1> QED BY <1>7, <1>8

LEMMA CatchUpDoneStep ==
  ASSUME IInv, CatchUpDone
  PROVE  IInv'
<1>1. /\ kernel = "catchUp" /\ kernel' = "task" /\ ticksLeft = 0
      /\ xPendedTicks' = 0 /\ yieldIrq' = xYieldPending
      /\ UNCHANGED << lists, events, tcbs, xNextTaskUnblockTime, xTickCount,
                      switchRequired, readied, ticksLeft, pxCurrentTCB,
                      uxSchedulerSuspended, xYieldPending, abortee >>
  BY DEF CatchUpDone
<1>2. PICK where : where = IF pc[pxCurrentTCB] = "resumeYield" /\ ~xYieldPending
                           THEN "yield" ELSE "app"
  OBVIOUS
<1>3. pc' = [pc EXCEPT ![pxCurrentTCB] = where]
  BY <1>2 DEF CatchUpDone
<1>4. /\ pxCurrentTCB \in Task /\ xSchedulerRunning /\ uxSchedulerSuspended = 0
      /\ pc[pxCurrentTCB] \in {"resume", "resumeYield"} /\ ~yieldIrq
      /\ pxCurrentTCB # Idle /\ Idle \in ReadyTasks
  BY <1>1 DEF IInv, Control, InResume
<1>5. /\ Lists' /\ Events' /\ Count'
      /\ ReadyTasks' = ReadyTasks /\ Waiting' = Waiting
  BY <1>1, QuietLists
<1>6. /\ pc'[pxCurrentTCB] = where /\ where \in {"yield", "app"}
      /\ \A t \in Task : t # pxCurrentTCB => pc'[t] = pc[t]
  BY <1>2, <1>3, <1>4 DEF IInv, Types
<1>7. pc' \in [Task -> Places] /\ yieldIrq' \in BOOLEAN /\ 0 \in 0..MaxPended
  BY <1>1, <1>3, <1>6, SchedulerAssumption DEF IInv, Types, Places
<1>8. Types'
  BY <1>1, <1>7 DEF IInv, Types, lists, tcbs
<1>9. Control'
  <2>1. \A t \in Task : pc[t] \in Suspending => t = pxCurrentTCB
    BY DEF IInv, Control
  <2>2. \A t \in Task : pc'[t] \notin Suspending
    BY <1>6, <2>1 DEF Suspending
  <2>3. pc'[Idle] = "app"
    BY <1>4, <1>6, PriorityFacts DEF IInv, Control
  <2> QED BY <1>1, <1>4, <1>5, <2>2, <2>3 DEF Control, InResume, tcbs
<1>10. Current'
  <2>1. where = "app" /\ ~yieldIrq' => pxCurrentTCB \in ReadyTasks
    BY <1>1, <1>2, <1>4 DEF IInv, Current, StillReady, Types
  <2> QED BY <1>1, <1>4, <1>5, <1>6, <2>1 DEF Current, StillReady, tcbs
<1> QED BY <1>5, <1>8, <1>9, <1>10 DEF IInv
-----------------------------------------------------------------------------
\* The API functions that change a list.

LEMMA RunningStep ==
  ASSUME IInv, Runs, NEW where, pc'[pxCurrentTCB] = where,
         \A t \in Task : t # pxCurrentTCB => pc'[t] \in {pc[t], "app"},
         UNCHANGED << xSchedulerRunning, pxCurrentTCB, locals,
                      uxSchedulerSuspended >>,
         Lists', Events', Count', Types', Idle \in ReadyTasks',
         pxCurrentTCB = Idle => where = "app",
         where \in Suspending => uxSchedulerSuspended > 0,
         where \in {"delay", "wait", "catchUp", "resumeYield"} =>
           uxSchedulerSuspended <= 1,
         where \in {"suspendSelf", "yield"} => uxSchedulerSuspended = 0,
         where \in StillReady => pxCurrentTCB \in ReadyTasks',
         where # "abortBlocked"
  PROVE  IInv'
<1>1. pxCurrentTCB \in Task /\ xSchedulerRunning /\ kernel = "task"
  BY RunningTask
<1>2. /\ xSchedulerRunning' /\ pxCurrentTCB' \in Task /\ kernel' = "task"
      /\ ticksLeft' = 0 /\ ~InResume'
  BY <1>1 DEF IInv, Control, locals, InResume
<1>3. \A t \in Task : pc[t] \in Suspending => t = pxCurrentTCB
  BY DEF IInv, Control
<1>4. \A t \in Task : pc'[t] \in Suspending =>
        t = pxCurrentTCB' /\ uxSchedulerSuspended' > 0
  BY <1>3 DEF Suspending
<1>5. pc'[Idle] = "app"
  BY PriorityFacts DEF IInv, Control
<1>6. Control'
  BY <1>2, <1>4, <1>5 DEF Control
<1>7. Current'
  BY <1>1 DEF Current
<1> QED BY <1>6, <1>7 DEF IInv

\* The places after Goto.
LEMMA GotoFacts ==
  ASSUME IInv, Runs, NEW where, Goto(where)
  PROVE  /\ pc'[pxCurrentTCB] = where
         /\ \A t \in Task : t # pxCurrentTCB => pc'[t] \in {pc[t], "app"}
         /\ where \in Places => pc' \in [Task -> Places]
BY RunningTask DEF Goto, IInv, Types

\* The running task at a place where it is ready.
LEMMA RunningReady ==
  ASSUME IInv, Runs, pc[pxCurrentTCB] \in StillReady
  PROVE  pxCurrentTCB \in ReadyTasks
BY RunningTask DEF IInv, Current

\* The running task starts to wait.
LEMMA DelayFacts ==
  ASSUME IInv, Runs, pc[pxCurrentTCB] \in {"delay", "wait"},
         NEW ticks \in Delays, NEW forever \in BOOLEAN,
         prvAddCurrentTaskToDelayedList(ticks, forever),
         UNCHANGED << xTasksWaitingTermination, tcbs >>
  PROVE  /\ Lists' /\ Count' /\ Waiting' = Waiting \cup {pxCurrentTCB}
         /\ pxCurrentTCB \in Task /\ pxCurrentTCB \notin Waiting
         /\ Idle \in ReadyTasks' /\ pxCurrentTCB # Idle
         /\ xItemValue' \in [Task -> TickType] /\ toGo' \in [Task -> Int]
         /\ xNextTaskUnblockTime' \in TickType
         /\ uxSchedulerSuspended > 0 /\ uxSchedulerSuspended <= 1
<1>1. pxCurrentTCB \in Task /\ xSchedulerRunning /\ ~yieldIrq
  BY RunningTask
<1>2. pxCurrentTCB \in ReadyTasks /\ pxCurrentTCB \notin Waiting
  <2>1. pxCurrentTCB \in ReadyTasks
    BY RunningReady DEF StillReady
  <2> QED BY <2>1, ReadyTask DEF IInv
<1>3. /\ Lists' /\ Created' = Created
      /\ ReadyTasks' = ReadyTasks \ {pxCurrentTCB}
      /\ Waiting' = Waiting \cup {pxCurrentTCB}
  BY <1>2, DelayedLists DEF IInv, tcbs
<1>4. Count'
  BY <1>3, CountKept DEF IInv, tcbs
<1>5. pxCurrentTCB # Idle /\ uxSchedulerSuspended > 0
  BY RunningPlace DEF Suspending
<1>6. uxSchedulerSuspended <= 1
  BY <1>1 DEF IInv, Current
<1>7. Idle \in ReadyTasks'
  BY <1>1, <1>3, <1>5 DEF IInv, Control
<1>8. TimeToWake(ticks) \in TickType /\ ticks \in Int
  <2>1. xTickCount \in Nat /\ ticks \in Nat
    BY TickFacts, SchedulerAssumption DEF IInv, Types
  <2>2. xTickCount + ticks \in Int
    BY <2>1
  <2> QED BY <2>1, <2>2, TickFacts DEF TimeToWake
<1>9. xItemValue' \in [Task -> TickType] /\ toGo' \in [Task -> Int]
  <2>1. /\ xItemValue' \in {xItemValue,
                            [xItemValue EXCEPT ![pxCurrentTCB] = TimeToWake(ticks)]}
        /\ toGo' \in {toGo, [toGo EXCEPT ![pxCurrentTCB] = ticks]}
    BY DEF prvAddCurrentTaskToDelayedList
  <2> QED BY <1>8, <2>1 DEF IInv, Types
<1>10. xNextTaskUnblockTime' \in TickType
  <2>1. xNextTaskUnblockTime' \in {xNextTaskUnblockTime, TimeToWake(ticks)}
    BY DEF prvAddCurrentTaskToDelayedList
  <2> QED BY <1>8, <2>1 DEF IInv, Types
<1> QED BY <1>1, <1>2, <1>3, <1>4, <1>5, <1>6, <1>7, <1>9, <1>10

LEMMA DelayStep ==
  ASSUME IInv, NEW ticks \in Delays, vTaskDelay(ticks)
  PROVE  IInv'
<1>1. /\ Runs /\ pc[pxCurrentTCB] = "delay" /\ Goto("resumeYield")
      /\ prvAddCurrentTaskToDelayedList(ticks, FALSE)
      /\ UNCHANGED << xTasksWaitingTermination, events, tcbs, xTickCount,
                      xPendedTicks, locals, pxCurrentTCB, uxSchedulerSuspended,
                      xYieldPending, yieldIrq, abortee >>
  BY DEF vTaskDelay, At
<1>2. /\ Lists' /\ Count' /\ Waiting' = Waiting \cup {pxCurrentTCB}
      /\ Idle \in ReadyTasks' /\ pxCurrentTCB # Idle
      /\ xItemValue' \in [Task -> TickType] /\ toGo' \in [Task -> Int]
      /\ xNextTaskUnblockTime' \in TickType
      /\ uxSchedulerSuspended > 0 /\ uxSchedulerSuspended <= 1
  BY <1>1, DelayFacts
<1>3. Events'
  BY <1>1, <1>2, EventsKept DEF IInv
<1>4. /\ pc'[pxCurrentTCB] = "resumeYield"
      /\ \A t \in Task : t # pxCurrentTCB => pc'[t] \in {pc[t], "app"}
      /\ pc' \in [Task -> Places]
  BY <1>1, GotoFacts DEF Places
<1>5. Types'
  BY <1>1, <1>2, <1>4 DEF IInv, Types, tcbs, locals
<1> QED BY <1>1, <1>2, <1>3, <1>4, <1>5, RunningStep DEF tcbs, StillReady

LEMMA PlaceOnEventListStep ==
  ASSUME IInv, NEW ticks \in Delays, vTaskPlaceOnEventList(ticks)
  PROVE  IInv'
<1>1. /\ Runs /\ pc[pxCurrentTCB] = "wait" /\ Goto("resumeYield")
      /\ prvAddCurrentTaskToDelayedList(ticks, TRUE)
      /\ eventList' = EventInsert(pxCurrentTCB)
      /\ UNCHANGED << xTasksWaitingTermination, xPendingReadyList, tcbs,
                      xTickCount, xPendedTicks, locals, pxCurrentTCB,
                      uxSchedulerSuspended, xYieldPending, yieldIrq, abortee >>
  BY DEF vTaskPlaceOnEventList, At
<1>2. /\ Lists' /\ Count' /\ Waiting' = Waiting \cup {pxCurrentTCB}
      /\ pxCurrentTCB \in Task /\ pxCurrentTCB \notin Waiting
      /\ Idle \in ReadyTasks' /\ pxCurrentTCB # Idle
      /\ xItemValue' \in [Task -> TickType] /\ toGo' \in [Task -> Int]
      /\ xNextTaskUnblockTime' \in TickType
      /\ uxSchedulerSuspended > 0 /\ uxSchedulerSuspended <= 1
  BY <1>1, DelayFacts
<1>3. Events'
  <2>1. pxCurrentTCB \notin OnEventList \cup xPendingReadyList
    BY <1>2 DEF IInv, Events
  <2>2. /\ eventList' \in Seq(Task) /\ IsInjective(eventList')
        /\ OnEventList' = OnEventList \cup {pxCurrentTCB}
    BY <1>1, <1>2, <2>1, EventInsertFacts DEF IInv, OnEventList
  <2> QED BY <1>1, <1>2, <2>1, <2>2 DEF IInv, Events
<1>4. /\ pc'[pxCurrentTCB] = "resumeYield"
      /\ \A t \in Task : t # pxCurrentTCB => pc'[t] \in {pc[t], "app"}
      /\ pc' \in [Task -> Places]
  BY <1>1, GotoFacts DEF Places
<1>5. Types'
  BY <1>1, <1>2, <1>4 DEF IInv, Types, tcbs, locals
<1> QED BY <1>1, <1>2, <1>3, <1>4, <1>5, RunningStep DEF tcbs, StillReady

LEMMA AbortDelayStep ==
  ASSUME IInv, xTaskAbortDelay
  PROVE  IInv'
<1> DEFINE t == abortee
<1>1. /\ Runs /\ pc[pxCurrentTCB] = "abortBlocked" /\ Goto("resume")
      /\ LeaveBlocked(t) /\ LeaveEvent(t)
      /\ xSuspendedTaskList' = xSuspendedTaskList \ {t}
      /\ prvAddTaskToReadyList(t, uxPriority[t], pxReadyTasksLists,
                               uxTopReadyPriority)
      /\ xYieldPending' = (xYieldPending \/ Outranks(t))
      /\ abortee' = NoTask
      /\ UNCHANGED << xTasksWaitingTermination, tcbs, clock, locals,
                      pxCurrentTCB, uxSchedulerSuspended, yieldIrq >>
  BY DEF xTaskAbortDelay, At
<1>2. t \in Waiting
  BY <1>1, RunningTask DEF IInv, Current, Waiting
<1> HIDE DEF t
<1>3. /\ Lists' /\ Created' = Created /\ t \in Task
      /\ ReadyTasks' = ReadyTasks \cup {t} /\ Waiting' = Waiting \ {t}
  <2>1. /\ pxDelayedTaskList' = pxDelayedTaskList \ {t}
        /\ pxOverflowDelayedTaskList' = pxOverflowDelayedTaskList \ {t}
        /\ UNCHANGED << xTasksWaitingTermination, uxPriority >>
    BY <1>1 DEF LeaveBlocked, tcbs
  <2> QED BY <1>1, <1>2, <2>1, ReadiedLists DEF IInv
<1>4. Events'
  BY <1>1, <1>3, EventsLeft DEF IInv
<1>5. Count'
  BY <1>1, <1>3, CountKept DEF IInv, tcbs
<1>6. xItemValue' \in [Task -> TickType] /\ toGo' \in [Task -> Int]
  BY <1>1, <1>3, LeftTypes
<1>7. xYieldPending' \in BOOLEAN
  <2>1. Outranks(t) \in BOOLEAN /\ xYieldPending \in BOOLEAN
    BY DEF Outranks, IInv, Types
  <2> QED BY <1>1, <2>1
<1>8. /\ pc'[pxCurrentTCB] = "resume"
      /\ \A u \in Task : u # pxCurrentTCB => pc'[u] \in {pc[u], "app"}
      /\ pc' \in [Task -> Places]
  BY <1>1, GotoFacts DEF Places
<1>9. Types'
  BY <1>1, <1>6, <1>7, <1>8 DEF IInv, Types, tcbs, clock, locals
<1>10. /\ pxCurrentTCB \in ReadyTasks' /\ Idle \in ReadyTasks'
       /\ pxCurrentTCB # Idle /\ uxSchedulerSuspended > 0
  <2>1. pxCurrentTCB \in ReadyTasks
    BY <1>1, RunningReady DEF StillReady
  <2>2. pxCurrentTCB # Idle /\ uxSchedulerSuspended > 0
    BY <1>1, RunningPlace DEF Suspending
  <2>3. Idle \in ReadyTasks
    BY <1>1, RunningTask DEF IInv, Control
  <2> QED BY <1>3, <2>1, <2>2, <2>3
<1> QED BY <1>1, <1>3, <1>4, <1>5, <1>8, <1>9, <1>10, RunningStep DEF tcbs

\* What App says.
LEMMA AppFacts ==
  ASSUME IInv, App
  PROVE  /\ Runs /\ pc[pxCurrentTCB] = "app" /\ pxCurrentTCB # Idle
         /\ pxCurrentTCB \in Task /\ pxCurrentTCB \in ReadyTasks
         /\ Idle \in ReadyTasks /\ xSchedulerRunning /\ kernel = "task"
         /\ ~yieldIrq
<1>1. Runs /\ pc[pxCurrentTCB] = "app" /\ pxCurrentTCB # Idle
  BY DEF App, At
<1>2. /\ pxCurrentTCB \in Task /\ xSchedulerRunning /\ kernel = "task"
      /\ ~yieldIrq
  BY <1>1, RunningTask
<1>3. pxCurrentTCB \in ReadyTasks
  BY <1>1, RunningReady DEF StillReady
<1> QED BY <1>1, <1>2, <1>3 DEF IInv, Control

\* The steps that stay in the application.
LEMMA AppStep ==
  ASSUME IInv, App, UNCHANGED pc,
         UNCHANGED << xSchedulerRunning, pxCurrentTCB, locals,
                      uxSchedulerSuspended >>,
         Lists', Events', Count', Types', ReadyTasks \subseteq ReadyTasks'
  PROVE  IInv'
<1>1. /\ Runs /\ pc[pxCurrentTCB] = "app" /\ pxCurrentTCB # Idle
      /\ pxCurrentTCB \in Task /\ pxCurrentTCB \in ReadyTasks'
      /\ Idle \in ReadyTasks'
  BY AppFacts
<1>2. /\ pc'[pxCurrentTCB] = "app"
      /\ \A t \in Task : t # pxCurrentTCB => pc'[t] \in {pc[t], "app"}
  BY <1>1
<1>3. "app" \notin Suspending
  BY DEF Suspending
<1> QED BY <1>1, <1>2, <1>3, RunningStep

LEMMA SuspendStep ==
  ASSUME IInv, NEW t \in Task, vTaskSuspend(t)
  PROVE  IInv'
<1>0. PICK where : where = IF t = pxCurrentTCB THEN "suspendSelf"
                           ELSE "suspendOther"
  OBVIOUS
<1>1. /\ App /\ t \in Created /\ t # Idle /\ t \notin xTasksWaitingTermination
      /\ t = pxCurrentTCB => uxSchedulerSuspended = 0
      /\ LeaveReady(t) /\ LeaveBlocked(t) /\ LeaveEvent(t)
      /\ xSuspendedTaskList' = xSuspendedTaskList \cup {t}
      /\ Goto(where)
      /\ UNCHANGED << xTasksWaitingTermination, tcbs, clock, locals,
                      pxCurrentTCB, uxSchedulerSuspended, xYieldPending,
                      yieldIrq, abortee >>
  BY <1>0 DEF vTaskSuspend
<1>2. /\ Runs /\ pxCurrentTCB # Idle /\ pxCurrentTCB \in ReadyTasks
      /\ Idle \in ReadyTasks
  BY <1>1, AppFacts
<1>3. /\ Lists' /\ Created' = Created
      /\ ReadyTasks' = ReadyTasks \ {t} /\ Waiting' = Waiting \cup {t}
  BY <1>1, SuspendedLists DEF IInv, tcbs
<1>4. Events'
  BY <1>1, <1>3, EventsLeft DEF IInv
<1>5. Count'
  BY <1>1, <1>3, CountKept DEF IInv, tcbs
<1>6. xItemValue' \in [Task -> TickType] /\ toGo' \in [Task -> Int]
  BY <1>1, LeftTypes
<1>7. /\ where \in Places /\ where \in {"suspendSelf", "suspendOther"}
      /\ where = "suspendSelf" <=> t = pxCurrentTCB
  BY <1>0 DEF Places
<1>8. /\ pc'[pxCurrentTCB] = where
      /\ \A u \in Task : u # pxCurrentTCB => pc'[u] \in {pc[u], "app"}
      /\ pc' \in [Task -> Places]
  BY <1>1, <1>2, <1>7, GotoFacts
<1>9. Types'
  BY <1>1, <1>6, <1>8 DEF IInv, Types, tcbs, clock, locals
<1>10. /\ where \notin Suspending
       /\ where \in StillReady => pxCurrentTCB \in ReadyTasks'
       /\ Idle \in ReadyTasks'
  BY <1>1, <1>2, <1>3, <1>7 DEF Suspending, StillReady
<1> QED BY <1>1, <1>2, <1>3, <1>4, <1>5, <1>7, <1>8, <1>9, <1>10, RunningStep
        DEF tcbs

\* A suspended task whose event item is in no list becomes ready.
LEMMA ResumedFacts ==
  ASSUME IInv, NEW t \in Task, prvTaskIsTaskSuspended(t),
         xSuspendedTaskList' = xSuspendedTaskList \ {t},
         prvAddTaskToReadyList(t, uxPriority[t], pxReadyTasksLists,
                               uxTopReadyPriority),
         UNCHANGED << pxDelayedTaskList, pxOverflowDelayedTaskList,
                      xTasksWaitingTermination, tcbs, events >>
  PROVE  /\ Lists' /\ Events' /\ Count'
         /\ ReadyTasks' = ReadyTasks \cup {t}
<1>1. /\ t \in xSuspendedTaskList /\ t \notin xPendingReadyList
      /\ t \notin OnEventList
  BY DEF prvTaskIsTaskSuspended
<1>2. /\ t \in Waiting /\ pxDelayedTaskList \ {t} = pxDelayedTaskList
      /\ pxOverflowDelayedTaskList \ {t} = pxOverflowDelayedTaskList
  BY <1>1 DEF IInv, Lists, ListsOK, Waiting
<1>3. /\ Lists' /\ Created' = Created
      /\ ReadyTasks' = ReadyTasks \cup {t} /\ Waiting' = Waiting \ {t}
  <2>1. /\ pxDelayedTaskList' = pxDelayedTaskList \ {t}
        /\ pxOverflowDelayedTaskList' = pxOverflowDelayedTaskList \ {t}
        /\ UNCHANGED << xTasksWaitingTermination, uxPriority >>
    BY <1>2 DEF tcbs
  <2> QED BY <1>2, <2>1, ReadiedLists DEF IInv
<1>4. Events'
  <2>1. LeaveEvent(t)
    BY <1>1 DEF LeaveEvent, WithoutEvent, events
  <2> QED BY <1>3, <2>1, EventsLeft DEF IInv
<1>5. Count'
  BY <1>3, CountKept DEF IInv, tcbs
<1> QED BY <1>3, <1>4, <1>5

LEMMA ResumeStep ==
  ASSUME IInv, NEW t \in Task, vTaskResume(t)
  PROVE  IInv'
<1>1. /\ App /\ prvTaskIsTaskSuspended(t)
      /\ xSuspendedTaskList' = xSuspendedTaskList \ {t}
      /\ prvAddTaskToReadyList(t, uxPriority[t], pxReadyTasksLists,
                               uxTopReadyPriority)
      /\ yieldIrq' = Outranks(t)
      /\ UNCHANGED << pxDelayedTaskList, pxOverflowDelayedTaskList, xItemValue,
                      xTasksWaitingTermination, toGo, events, tcbs, clock,
                      locals, pxCurrentTCB, uxSchedulerSuspended,
                      xYieldPending, pc, abortee >>
  BY DEF vTaskResume
<1>2. /\ Lists' /\ Events' /\ Count'
      /\ ReadyTasks' = ReadyTasks \cup {t}
  BY <1>1, ResumedFacts
<1>3. yieldIrq' \in BOOLEAN
  BY <1>1 DEF Outranks
<1>4. Types'
  BY <1>1, <1>3 DEF IInv, Types, tcbs, clock, locals
<1> QED BY <1>1, <1>2, <1>4, AppStep DEF tcbs

LEMMA PrioritySetStep ==
  ASSUME IInv, NEW t \in Task, NEW p \in Priority, vTaskPrioritySet(t, p)
  PROVE  IInv'
<1>1. /\ App /\ t \in Created /\ t \notin xTasksWaitingTermination
      /\ yieldIrq' = PrioritySetYields(t, p)
      /\ UNCHANGED << pxDelayedTaskList, pxOverflowDelayedTaskList, xItemValue,
                      xSuspendedTaskList, xTasksWaitingTermination, toGo,
                      events, xSchedulerRunning, uxCurrentNumberOfTasks, clock,
                      locals, pxCurrentTCB, uxSchedulerSuspended,
                      xYieldPending, pc, abortee >>
  BY DEF vTaskPrioritySet
<1>2. /\ Lists' /\ Created' = Created
      /\ ReadyTasks' = ReadyTasks /\ Waiting' = Waiting
  BY <1>1, PriorityLists DEF IInv
<1>3. Events'
  BY <1>1, <1>2, EventsKept DEF IInv
<1>4. Count'
  BY <1>1, <1>2, CountKept DEF IInv
<1>5. yieldIrq' \in BOOLEAN
  <2>1. PrioritySetYields(t, p) \in BOOLEAN
    <3>1. CASE t = pxCurrentTCB
      BY <3>1 DEF PrioritySetYields
    <3>2. CASE t # pxCurrentTCB
      BY <3>2 DEF PrioritySetYields
    <3> QED BY <3>1, <3>2
  <2> QED BY <1>1, <2>1
<1>6. Types'
  BY <1>1, <1>5 DEF IInv, Types, clock, locals
<1> QED BY <1>1, <1>2, <1>3, <1>4, <1>6, AppStep

LEMMA CreateStep ==
  ASSUME IInv, NEW t \in Task, NEW p \in Priority, Create(t, p)
  PROVE  IInv'
<1>1. /\ App /\ AddNewTask(t, p)
      /\ yieldIrq' = (uxPriority[pxCurrentTCB] < p)
      /\ UNCHANGED << xSchedulerRunning, pxCurrentTCB, clock >>
  BY DEF Create
<1>2. UNCHANGED << xItemValue, toGo, events, locals, uxSchedulerSuspended,
                   xYieldPending, pc, abortee >>
  BY <1>1 DEF AddNewTask
<1>3. /\ Lists' /\ Count'
      /\ ReadyTasks' = ReadyTasks \cup {t} /\ Waiting' = Waiting
  BY <1>1, CreatedLists DEF IInv
<1>4. Events'
  BY <1>2, <1>3, EventsKept DEF IInv
<1>5. yieldIrq' \in BOOLEAN
  BY <1>1
<1>6. Types'
  BY <1>1, <1>2, <1>5 DEF IInv, Types, clock, locals
<1> QED BY <1>1, <1>2, <1>3, <1>4, <1>6, AppStep

LEMMA DeleteOtherStep ==
  ASSUME IInv, NEW t \in Task, DeleteOther(t)
  PROVE  IInv'
<1>1. /\ App /\ t \in Created /\ t # Idle /\ t # pxCurrentTCB
      /\ t \notin xTasksWaitingTermination
      /\ LeaveReady(t) /\ LeaveBlocked(t) /\ LeaveEvent(t)
      /\ xSuspendedTaskList' = xSuspendedTaskList \ {t}
      /\ prvDeleteTCB(t)
      /\ xNextTaskUnblockTime' =
           prvResetNextTaskUnblockTime(pxDelayedTaskList \ {t})
      /\ UNCHANGED << xTasksWaitingTermination, xSchedulerRunning, xTickCount,
                      xPendedTicks, locals, pxCurrentTCB, uxSchedulerSuspended,
                      xYieldPending, yieldIrq, abortee >>
  BY DEF DeleteOther
<1>2. /\ Runs /\ pc[pxCurrentTCB] = "app" /\ pxCurrentTCB # Idle
      /\ pxCurrentTCB \in Task /\ pxCurrentTCB \in ReadyTasks
      /\ Idle \in ReadyTasks
  BY <1>1, AppFacts
<1>3. /\ Lists' /\ Count' /\ ReadyTasks' = ReadyTasks \ {t}
      /\ Waiting' = Waiting \ {t}
  BY <1>1, DeletedLists DEF IInv
<1>4. Events'
  BY <1>1, <1>3, EventsLeft DEF IInv
<1>5. xItemValue' \in [Task -> TickType] /\ toGo' \in [Task -> Int]
  BY <1>1, LeftTypes
<1>6. xNextTaskUnblockTime' \in TickType
  <2>1. pxDelayedTaskList \ {t} \subseteq Task
    BY DEF IInv, Lists, ListsOK
  <2>2. prvResetNextTaskUnblockTime(pxDelayedTaskList \ {t}) \in TickType
    BY <2>1, UnblockTimeType DEF IInv, Types
  <2> QED BY <1>1, <2>2
<1>7. /\ pc'[pxCurrentTCB] = "app"
      /\ \A u \in Task : u # pxCurrentTCB => pc'[u] \in {pc[u], "app"}
      /\ pc' \in [Task -> Places]
  BY <1>1, <1>2 DEF prvDeleteTCB, IInv, Types, Places
<1>8. Types'
  BY <1>1, <1>5, <1>6, <1>7 DEF IInv, Types, locals
<1>9. "app" \notin Suspending
  BY DEF Suspending
<1> QED BY <1>1, <1>2, <1>3, <1>4, <1>7, <1>8, <1>9, RunningStep

LEMMA DeleteSelfStep ==
  ASSUME IInv, DeleteSelf
  PROVE  IInv'
<1>1. /\ App /\ uxSchedulerSuspended = 0 /\ LeaveReady(pxCurrentTCB)
      /\ xTasksWaitingTermination'
           = xTasksWaitingTermination \cup {pxCurrentTCB}
      /\ Goto("yield")
      /\ UNCHANGED << pxDelayedTaskList, pxOverflowDelayedTaskList, xItemValue,
                      xSuspendedTaskList, toGo, events, tcbs, clock, locals,
                      pxCurrentTCB, uxSchedulerSuspended, xYieldPending,
                      yieldIrq, abortee >>
  BY DEF DeleteSelf
<1>2. /\ Runs /\ pxCurrentTCB # Idle /\ pxCurrentTCB \in ReadyTasks
      /\ Idle \in ReadyTasks
  BY <1>1, AppFacts
<1>3. /\ Lists' /\ Created' = Created /\ Waiting' = Waiting
      /\ ReadyTasks' = ReadyTasks \ {pxCurrentTCB}
  BY <1>1, <1>2, DeletedSelfLists DEF IInv, tcbs
<1>4. Events'
  BY <1>1, <1>3, EventsKept DEF IInv
<1>5. Count'
  BY <1>1, <1>3, CountKept DEF IInv, tcbs
<1>6. /\ pc'[pxCurrentTCB] = "yield"
      /\ \A t \in Task : t # pxCurrentTCB => pc'[t] \in {pc[t], "app"}
      /\ pc' \in [Task -> Places]
  BY <1>1, <1>2, GotoFacts DEF Places
<1>7. Types'
  BY <1>1, <1>6 DEF IInv, Types, tcbs, clock, locals
<1>8. "yield" \notin Suspending /\ "yield" \notin StillReady
      /\ Idle \in ReadyTasks'
  BY <1>2, <1>3 DEF Suspending, StillReady
<1> QED BY <1>1, <1>2, <1>3, <1>4, <1>5, <1>6, <1>7, <1>8, RunningStep DEF tcbs

LEMMA CleanUpStep ==
  ASSUME IInv, NEW t \in Task, prvCheckTasksWaitingTermination(t)
  PROVE  IInv'
<1>1. /\ Runs /\ pc[pxCurrentTCB] = "app" /\ pxCurrentTCB = Idle
      /\ t \in xTasksWaitingTermination
      /\ xTasksWaitingTermination' = xTasksWaitingTermination \ {t}
      /\ prvDeleteTCB(t)
      /\ UNCHANGED << pxReadyTasksLists, uxTopReadyPriority, pxDelayedTaskList,
                      pxOverflowDelayedTaskList, xItemValue,
                      xSuspendedTaskList, toGo, events, xSchedulerRunning,
                      clock, locals, pxCurrentTCB, uxSchedulerSuspended,
                      xYieldPending, yieldIrq, abortee >>
  BY DEF prvCheckTasksWaitingTermination, At
<1>2. Idle \in ReadyTasks /\ Idle \in Task
  BY <1>1, RunningTask, PriorityFacts DEF IInv, Control
<1>3. t # Idle
  BY <1>1, <1>2, ReadyTask DEF IInv
<1>4. /\ Lists' /\ Count' /\ ReadyTasks' = ReadyTasks /\ Waiting' = Waiting
  BY <1>1, CleanedLists DEF IInv
<1>5. Events'
  BY <1>1, <1>4, EventsKept DEF IInv
<1>6. /\ pc'[pxCurrentTCB] = "app"
      /\ \A u \in Task : u # pxCurrentTCB => pc'[u] \in {pc[u], "app"}
      /\ pc' \in [Task -> Places]
  BY <1>1, <1>2, <1>3 DEF prvDeleteTCB, IInv, Types, Places
<1>7. Types'
  BY <1>1, <1>6 DEF IInv, Types, clock, locals
<1>8. "app" \notin Suspending
  BY DEF Suspending
<1> QED BY <1>1, <1>2, <1>4, <1>5, <1>6, <1>7, <1>8, RunningStep
-----------------------------------------------------------------------------
\* Before the scheduler runs.

LEMMA BootStep ==
  ASSUME IInv, NEW t \in Task, NEW p \in Priority, ~xSchedulerRunning,
         AddNewTask(t, p), pxCurrentTCB' = FirstToRun(t, p),
         UNCHANGED << xPendedTicks, yieldIrq >>,
         xNextTaskUnblockTime' \in TickType, xTickCount' \in TickType,
         \/ UNCHANGED xSchedulerRunning
         \/ xSchedulerRunning' = TRUE /\ t = Idle
  PROVE  IInv'
<1>1. /\ Lists' /\ Count'
      /\ ReadyTasks' = ReadyTasks \cup {t} /\ Waiting' = Waiting
  BY CreatedLists DEF IInv
<1>2. UNCHANGED << xItemValue, toGo, events, locals, uxSchedulerSuspended,
                   xYieldPending, pc, abortee >>
  BY DEF AddNewTask
<1>3. Events'
  BY <1>1, <1>2, EventsKept DEF IInv
<1>4. /\ kernel = "task" /\ ~yieldIrq /\ uxSchedulerSuspended = 0
      /\ pxCurrentTCB \in ReadyTasks \cup {NoTask}
      /\ ticksLeft = 0 /\ ~InResume
  BY DEF IInv, Control, InResume
<1>5. pxCurrentTCB' \in ReadyTasks'
  BY <1>1, <1>4 DEF FirstToRun
<1>6. pxCurrentTCB' \in Task
  <2>1. \A u \in ReadyTasks : u \in Task
    BY ReadyTask DEF IInv
  <2> QED BY <1>1, <1>5, <2>1
<1>7. Types'
  BY <1>2, <1>6 DEF IInv, Types, locals
<1>8. \A u \in Task : pc[u] \notin Suspending
  BY <1>4 DEF IInv, Control
<1>9. Control'
  BY <1>1, <1>2, <1>4, <1>5, <1>6, <1>8 DEF IInv, Control, InResume, locals
<1>10. Current'
  BY <1>2, <1>4, <1>5, <1>6, <1>8 DEF Current, Suspending
<1> QED BY <1>1, <1>3, <1>7, <1>9, <1>10 DEF IInv

LEMMA MainCreateStep ==
  ASSUME IInv, NEW t \in Task, NEW p \in Priority, MainCreate(t, p)
  PROVE  IInv'
<1>1. /\ ~xSchedulerRunning /\ AddNewTask(t, p)
      /\ pxCurrentTCB' = FirstToRun(t, p)
      /\ UNCHANGED << xPendedTicks, yieldIrq >> /\ UNCHANGED xSchedulerRunning
      /\ xNextTaskUnblockTime' \in TickType /\ xTickCount' \in TickType
  BY DEF MainCreate, clock, IInv, Types
<1> QED BY <1>1, BootStep

LEMMA StartStep ==
  ASSUME IInv, vTaskStartScheduler
  PROVE  IInv'
<1>1. /\ ~xSchedulerRunning /\ AddNewTask(Idle, 0)
      /\ pxCurrentTCB' = FirstToRun(Idle, 0)
      /\ UNCHANGED << xPendedTicks, yieldIrq >> /\ xSchedulerRunning' = TRUE
      /\ xNextTaskUnblockTime' \in TickType /\ xTickCount' \in TickType
  BY TickFacts DEF vTaskStartScheduler
<1>2. Idle \in Task /\ 0 \in Priority
  BY PriorityFacts
<1> QED BY <1>1, <1>2, BootStep
-----------------------------------------------------------------------------
\* Interrupts and signals.

\* An interrupt leaves the running task where it is.
LEMMA InterruptControl ==
  ASSUME IInv, xSchedulerRunning, kernel = "task",
         UNCHANGED << xSchedulerRunning, pxCurrentTCB, uxSchedulerSuspended, pc,
                      abortee, locals >>,
         ReadyTasks \subseteq ReadyTasks',
         yieldIrq => yieldIrq',
         Deferred => Waiting' = Waiting
  PROVE  Control' /\ Current'
<1>1. uxSchedulerSuspended \in Nat /\ ~InResume /\ ~InResume'
  BY SchedulerAssumption DEF IInv, Types, InResume, locals
<1>2. Control'
  BY <1>1 DEF IInv, Control, locals
<1>3. pc[pxCurrentTCB] = "abortBlocked" => Deferred
  BY <1>1 DEF IInv, Control, Suspending, Deferred
<1>4. Current'
  BY <1>1, <1>3 DEF IInv, Current, Deferred, Waiting
<1> QED BY <1>2, <1>4

LEMMA RemoveFromEventListFacts ==
  ASSUME IInv, NEW t \in Task, xTaskRemoveFromEventList(t)
  PROVE  /\ Lists' /\ Events' /\ Count'
         /\ ReadyTasks \subseteq ReadyTasks'
         /\ Deferred => Waiting' = Waiting
         /\ xItemValue' \in [Task -> TickType] /\ toGo' \in [Task -> Int]
         /\ xYieldPending' \in BOOLEAN
         /\ UNCHANGED << tcbs, clock, locals, pxCurrentTCB,
                         uxSchedulerSuspended, pc, abortee >>
<1>1. /\ eventList # << >> /\ t = Head(eventList)
      /\ eventList' = Tail(eventList)
      /\ xYieldPending' = (xYieldPending \/ Outranks(t))
      /\ UNCHANGED << xTasksWaitingTermination, tcbs, clock, locals,
                      pxCurrentTCB, uxSchedulerSuspended, pc, abortee >>
  BY DEF xTaskRemoveFromEventList
<1>2. /\ t \in OnEventList /\ eventList' \in Seq(Task)
      /\ IsInjective(eventList') /\ OnEventList' = OnEventList \ {t}
  BY <1>1, HeadTailEvent DEF IInv, OnEventList
<1>3. t \in Waiting /\ t \notin xPendingReadyList
  BY <1>2 DEF IInv, Events
<1>4. xYieldPending' \in BOOLEAN
  <2>1. Outranks(t) \in BOOLEAN /\ xYieldPending \in BOOLEAN
    BY DEF Outranks, IInv, Types
  <2> QED BY <1>1, <2>1
<1>5. CASE ~Deferred
  <2>1. /\ LeaveBlocked(t) /\ xSuspendedTaskList' = xSuspendedTaskList \ {t}
        /\ prvAddTaskToReadyList(t, uxPriority[t], pxReadyTasksLists,
                                 uxTopReadyPriority)
        /\ UNCHANGED xPendingReadyList
    BY <1>5 DEF xTaskRemoveFromEventList
  <2>2. /\ Lists' /\ Created' = Created
        /\ ReadyTasks' = ReadyTasks \cup {t} /\ Waiting' = Waiting \ {t}
    <3>1. /\ pxDelayedTaskList' = pxDelayedTaskList \ {t}
          /\ pxOverflowDelayedTaskList' = pxOverflowDelayedTaskList \ {t}
          /\ UNCHANGED << xTasksWaitingTermination, uxPriority >>
      BY <1>1, <2>1 DEF LeaveBlocked, tcbs
    <3> QED BY <1>3, <2>1, <3>1, ReadiedLists DEF IInv
  <2>3. Events'
    BY <1>2, <1>3, <2>1, <2>2 DEF IInv, Events
  <2>4. Count'
    BY <1>1, <2>2, CountKept DEF IInv, tcbs
  <2>5. xItemValue' \in [Task -> TickType] /\ toGo' \in [Task -> Int]
    BY <2>1, LeftTypes
  <2> QED BY <1>1, <1>4, <1>5, <2>2, <2>3, <2>4, <2>5
<1>6. CASE Deferred
  <2>1. /\ xPendingReadyList' = xPendingReadyList \cup {t}
        /\ UNCHANGED << pxDelayedTaskList, pxOverflowDelayedTaskList,
                        xItemValue, toGo, xSuspendedTaskList,
                        pxReadyTasksLists, uxTopReadyPriority >>
    BY <1>6 DEF xTaskRemoveFromEventList
  <2>2. /\ Lists' /\ Created' = Created
        /\ ReadyTasks' = ReadyTasks /\ Waiting' = Waiting
    BY <1>1, <2>1, SameLists DEF IInv, listVars, tcbs
  <2>3. Events'
    BY <1>2, <1>3, <2>1, <2>2 DEF IInv, Events
  <2>4. Count'
    BY <1>1, <2>2, CountKept DEF IInv, tcbs
  <2> QED BY <1>1, <1>4, <2>1, <2>2, <2>3, <2>4 DEF IInv, Types
<1> QED BY <1>5, <1>6

LEMMA SignalStep ==
  ASSUME IInv, NEW t \in Task, Signal(t)
  PROVE  IInv'
<1>1. App /\ xTaskRemoveFromEventList(t) /\ yieldIrq' = Outranks(t)
  BY DEF Signal
<1>2. /\ Lists' /\ Events' /\ Count' /\ ReadyTasks \subseteq ReadyTasks'
      /\ xItemValue' \in [Task -> TickType] /\ toGo' \in [Task -> Int]
      /\ xYieldPending' \in BOOLEAN
      /\ UNCHANGED << tcbs, clock, locals, pxCurrentTCB,
                      uxSchedulerSuspended, pc, abortee >>
  BY <1>1, RemoveFromEventListFacts
<1>3. yieldIrq' \in BOOLEAN
  BY <1>1 DEF Outranks
<1>4. Types'
  BY <1>2, <1>3 DEF IInv, Types, tcbs, clock, locals
<1> QED BY <1>1, <1>2, <1>4, AppStep DEF tcbs

\* An interrupt that may ask for a yield on leaving.
LEMMA MayYield ==
  ASSUME IInv, NEW yields \in BOOLEAN, yieldIrq' = (yieldIrq \/ yields)
  PROVE  yieldIrq' \in BOOLEAN /\ (yieldIrq => yieldIrq')
<1>1. yieldIrq \in BOOLEAN
  BY DEF IInv, Types
<1> QED BY ONLY <1>1, yields \in BOOLEAN, yieldIrq' = (yieldIrq \/ yields), Zenon

LEMMA SignalFromISRStep ==
  ASSUME IInv, NEW t \in Task, NEW yields \in BOOLEAN, SignalFromISR(t, yields)
  PROVE  IInv'
<1>1. /\ xSchedulerRunning /\ kernel = "task" /\ xTaskRemoveFromEventList(t)
      /\ yieldIrq' = (yieldIrq \/ yields)
  BY DEF SignalFromISR
<1>2. /\ Lists' /\ Events' /\ Count' /\ ReadyTasks \subseteq ReadyTasks'
      /\ Deferred => Waiting' = Waiting
      /\ xItemValue' \in [Task -> TickType] /\ toGo' \in [Task -> Int]
      /\ xYieldPending' \in BOOLEAN
      /\ UNCHANGED << tcbs, clock, locals, pxCurrentTCB,
                      uxSchedulerSuspended, pc, abortee >>
  BY <1>1, RemoveFromEventListFacts
<1>3. yieldIrq' \in BOOLEAN /\ (yieldIrq => yieldIrq')
  BY <1>1, MayYield
<1>4. Types'
  BY <1>2, <1>3 DEF IInv, Types, tcbs, clock, locals
<1>5. Control' /\ Current'
  BY <1>1, <1>2, <1>3, InterruptControl DEF tcbs
<1> QED BY <1>2, <1>4, <1>5 DEF IInv

LEMMA ResumeFromISRStep ==
  ASSUME IInv, NEW t \in Task, NEW yields \in BOOLEAN,
         xTaskResumeFromISR(t, yields)
  PROVE  IInv'
<1>1. /\ xSchedulerRunning /\ kernel = "task" /\ prvTaskIsTaskSuspended(t)
      /\ yieldIrq' = (yieldIrq \/ yields)
      /\ UNCHANGED << pxDelayedTaskList, pxOverflowDelayedTaskList, xItemValue,
                      xTasksWaitingTermination, toGo, eventList, tcbs, clock,
                      locals, pxCurrentTCB, uxSchedulerSuspended, pc, abortee >>
  BY DEF xTaskResumeFromISR
<1>2. yieldIrq' \in BOOLEAN /\ (yieldIrq => yieldIrq')
  BY <1>1, MayYield
<1>3. /\ Lists' /\ Events' /\ Count' /\ ReadyTasks \subseteq ReadyTasks'
      /\ Deferred => Waiting' = Waiting
      /\ xYieldPending' \in BOOLEAN
  <2>1. CASE ~Deferred
    <3>1. /\ xYieldPending' = (xYieldPending \/ Outranks(t))
          /\ xSuspendedTaskList' = xSuspendedTaskList \ {t}
          /\ prvAddTaskToReadyList(t, uxPriority[t], pxReadyTasksLists,
                                   uxTopReadyPriority)
          /\ UNCHANGED xPendingReadyList
      BY <2>1 DEF xTaskResumeFromISR
    <3>2. /\ Lists' /\ Events' /\ Count'
          /\ ReadyTasks' = ReadyTasks \cup {t}
      BY <1>1, <3>1, ResumedFacts DEF events
    <3>3. Outranks(t) \in BOOLEAN /\ xYieldPending \in BOOLEAN
      BY DEF Outranks, IInv, Types
    <3> QED BY <2>1, <3>1, <3>2, <3>3
  <2>2. CASE Deferred
    <3>1. /\ xPendingReadyList' = xPendingReadyList \cup {t}
          /\ UNCHANGED << pxReadyTasksLists, uxTopReadyPriority,
                          xSuspendedTaskList, xYieldPending >>
      BY <2>2 DEF xTaskResumeFromISR
    <3>2. /\ Lists' /\ Created' = Created
          /\ ReadyTasks' = ReadyTasks /\ Waiting' = Waiting
      BY <1>1, <3>1, SameLists DEF IInv, listVars, tcbs
    <3>3. Events'
      BY <1>1, <3>1, <3>2 DEF IInv, Events, OnEventList,
         prvTaskIsTaskSuspended, Waiting
    <3>4. Count'
      BY <1>1, <3>2, CountKept DEF IInv, tcbs
    <3> QED BY <3>1, <3>2, <3>3, <3>4 DEF IInv, Types
  <2> QED BY <2>1, <2>2
<1>4. Types'
  BY <1>1, <1>2, <1>3 DEF IInv, Types, tcbs, clock, locals
<1>5. Control' /\ Current'
  BY <1>1, <1>2, <1>3, InterruptControl DEF tcbs
<1> QED BY <1>3, <1>4, <1>5 DEF IInv

LEMMA YieldISRStep ==
  ASSUME IInv, YieldISR
  PROVE  IInv'
<1>1. /\ yieldIrq /\ kernel = "task" /\ yieldIrq' = FALSE /\ vTaskSwitchContext
      /\ UNCHANGED << pxDelayedTaskList, pxOverflowDelayedTaskList, xItemValue,
                      xSuspendedTaskList, xTasksWaitingTermination, toGo,
                      events, tcbs, clock, locals, uxSchedulerSuspended, pc,
                      abortee >>
  BY DEF YieldISR
<1>2. /\ xSchedulerRunning /\ uxSchedulerSuspended \in Nat /\ Idle \in ReadyTasks
      /\ pxCurrentTCB \in Task /\ ticksLeft = 0 /\ ~InResume /\ ~InResume'
  BY <1>1, SchedulerAssumption DEF IInv, Control, Types, InResume, locals
<1>3. CASE Deferred
  <2>1. /\ xYieldPending' = TRUE
        /\ UNCHANGED << pxReadyTasksLists, uxTopReadyPriority, pxCurrentTCB >>
    BY <1>1, <1>3 DEF vTaskSwitchContext
  <2>2. /\ Lists' /\ Events' /\ Count'
        /\ ReadyTasks' = ReadyTasks /\ Waiting' = Waiting
    BY <1>1, <2>1, QuietLists DEF lists
  <2>3. Types'
    BY <1>1, <2>1 DEF IInv, Types, tcbs, clock, locals
  <2>4. Control'
    BY <1>1, <1>2, <2>1, <2>2 DEF IInv, Control, tcbs, locals
  <2>5. Current'
    BY <1>1, <1>2, <1>3, <2>1, <2>2 DEF IInv, Current, Deferred, Waiting, tcbs
  <2> QED BY <2>2, <2>3, <2>4, <2>5 DEF IInv
<1>4. CASE ~Deferred
  <2>1. /\ Lists' /\ Created' = Created
        /\ ReadyTasks' = ReadyTasks /\ Waiting' = Waiting
        /\ pxCurrentTCB' \in ReadyTasks
    BY <1>1, <1>2, <1>4, SwitchedLists DEF IInv, tcbs
  <2>2. pxCurrentTCB' \in Task
    BY <2>1, ReadyTask DEF IInv
  <2>3. xYieldPending' = FALSE
    BY <1>1, <1>4 DEF vTaskSwitchContext
  <2>4. Events'
    BY <1>1, <2>1, EventsKept DEF IInv
  <2>5. Count'
    BY <1>1, <2>1, CountKept DEF IInv, tcbs
  <2>6. Types'
    BY <1>1, <2>2, <2>3 DEF IInv, Types, tcbs, clock, locals
  <2>7. uxSchedulerSuspended = 0 /\ \A t \in Task : pc[t] \notin Suspending
    BY <1>2, <1>4 DEF IInv, Control, Deferred
  <2>8. Control'
    BY <1>1, <1>2, <2>1, <2>2, <2>7 DEF IInv, Control, tcbs, locals
  <2>9. Current'
    BY <1>1, <2>1, <2>2, <2>7 DEF Current, Suspending
  <2> QED BY <2>1, <2>4, <2>5, <2>6, <2>8, <2>9 DEF IInv
<1> QED BY <1>3, <1>4
-----------------------------------------------------------------------------
\* The theorems.

LEMMA InitIInv ==
  ASSUME Init
  PROVE  IInv
<1> USE DEF Init
<1>1. ReadyOK(pxReadyTasksLists) /\ \A p \in Priority : Items(pxReadyTasksLists[p]) = {}
  <2>1. /\ IsRing(vListInitialise, Task) /\ Items(vListInitialise) = {}
        /\ vListInitialise \in Seq(Task \cup {ListEnd})
    BY InitRing, PriorityFacts DEF IsRing
  <2> QED BY <2>1 DEF ReadyOK
<1>2. Occupied(pxReadyTasksLists) = {}
  BY <1>1, OccupiedFacts
<1>3. TopOK(uxTopReadyPriority, pxReadyTasksLists)
  BY <1>2, PriorityFacts DEF TopOK
<1>4. ReadyTasks = {} /\ Members(pxReadyTasksLists) = {}
  BY <1>1 DEF ReadyTasks, Members
<1>5. Lists
  <2>1. uxTopReadyPriority \in SUBSET Priority
    BY PriorityFacts
  <2>2. uxPriority \in [Task -> Priority]
    BY PriorityFacts
  <2> QED BY <1>1, <1>3, <1>4, <2>1, <2>2 DEF Lists, ListsOK
<1>6. Created = {} /\ Waiting = {}
  BY <1>4 DEF Created, Waiting, Blocked
<1>7. Count
  BY <1>6, FS_EmptySet DEF Count, TaskCountExact
<1>8. Events
  BY DEF Events, OnEventList, IsInjective, ToSet
<1>9. Types
  <2>1. 0 \in TickType /\ 0 \in 0..MaxNest /\ 0 \in 0..MaxPended
    BY TickFacts, SchedulerAssumption
  <2>2. /\ xItemValue \in [Task -> TickType] /\ pc \in [Task -> Places]
        /\ toGo \in [Task -> Int]
    BY <2>1 DEF Places
  <2> QED BY <2>1, <2>2 DEF Types
<1>10. Control
  BY PriorityFacts DEF Control, InResume, Suspending
<1>11. Current
  BY DEF Current
<1> QED BY <1>5, <1>7, <1>8, <1>9, <1>10, <1>11 DEF IInv

LEMMA NextIInv ==
  ASSUME IInv, Next
  PROVE  IInv'
<1>1. CASE Boot
  BY <1>1, StartStep, MainCreateStep DEF Boot
<1>2. CASE TaskStep
  <2>1. CASE SuspendingCall
    BY <2>1, SuspendAllStep, MoveOnStep, AbortDelayStep, ResumeAllStep,
       AbortCheckStep, DelayStep, PlaceOnEventListStep, CatchUpTicksStep
       DEF SuspendingCall
  <2>2. CASE SuspendCall
    BY <2>2, SuspendResetsStep, SuspendStep, ResumeStep DEF SuspendCall
  <2>3. CASE LifeCycleCall
    BY <2>3, DeleteSelfStep, DeleteOtherStep, CreateStep, CleanUpStep
       DEF LifeCycleCall
  <2>4. CASE PriorityCall
    BY <2>4, PrioritySetStep DEF PriorityCall
  <2> QED BY <1>2, <2>1, <2>2, <2>3, <2>4, YieldStep, SignalStep DEF TaskStep
<1>3. CASE InterruptStep
  BY <1>3, TickISRStep, YieldISRStep, SignalFromISRStep, ResumeFromISRStep
     DEF InterruptStep
<1>4. CASE MaskedStep
  BY <1>4, WakeDoneStep, TickEndStep, DrainDoneStep, CatchUpTickStep,
     CatchUpDoneStep, WakeDueStep, DrainStep DEF MaskedStep
<1> QED BY <1>1, <1>2, <1>3, <1>4 DEF Next

LEMMA StutterIInv ==
  ASSUME IInv, UNCHANGED vars
  PROVE  IInv'
<1> USE DEF vars, lists, events, tcbs, clock, locals
<1>1. /\ Lists' /\ Events' /\ Count'
      /\ ReadyTasks' = ReadyTasks /\ Waiting' = Waiting
  BY QuietLists
<1>2. Types'
  BY DEF IInv, Types
<1>3. Control'
  BY <1>1 DEF IInv, Control, InResume
<1>4. Current'
  BY <1>1 DEF IInv, Current, Waiting
<1> QED BY <1>1, <1>2, <1>3, <1>4 DEF IInv

\* The lists, the event items, the suspension count and the places of the
\* tasks fit together in every state that the scheduler reaches.
THEOREM SchedulerInvariant == Spec => []IInv
<1>1. Init => IInv
  BY InitIInv
<1>2. IInv /\ [Next]_vars => IInv'
  BY NextIInv, StutterIInv
<1> QED BY <1>1, <1>2, PTL DEF Spec

\* Every variable keeps its type.
THEOREM SchedulerTypeOK == Spec => []TypeOK
<1>1. IInv => TypeOK
  <2> SUFFICES ASSUME IInv PROVE TypeOK
    OBVIOUS
  <2>1. uxCurrentNumberOfTasks \in Nat
    BY FS_CardinalityType DEF IInv, Count, TaskCountExact
  <2>2. /\ uxPriority \in [Task -> Priority]
        /\ pxReadyTasksLists \in [Priority -> Seq(Task \cup {ListEnd})]
        /\ uxTopReadyPriority \in SUBSET Priority
        /\ pxDelayedTaskList \in SUBSET Task
        /\ pxOverflowDelayedTaskList \in SUBSET Task
        /\ xSuspendedTaskList \in SUBSET Task
        /\ xTasksWaitingTermination \in SUBSET Task
    BY DEF IInv, Lists, ListsOK, ReadyOK
  <2>3. eventList \in Seq(Task)
    BY DEF IInv, Events
  <2>4. xPendingReadyList \in SUBSET Task
    BY <2>2 DEF IInv, Events, Waiting, Blocked
  <2>5. Types
    BY DEF IInv
  <2> QED BY ONLY <2>1, <2>2, <2>3, <2>4, <2>5 DEF Types, TypeOK
<1> QED BY <1>1, SchedulerInvariant, PTL

\* A task's state item is in one list only, a ready task in the list of its
\* present priority, whatever moves it: prvAddTaskToReadyList, uxListRemove
\* and prvAddCurrentTaskToDelayedList in API calls, ticks and interrupts.
THEOREM TasksInOneStateList == Spec => []OneStateList
<1>1. IInv => OneStateList
  <2> SUFFICES ASSUME IInv PROVE OneStateList
    OBVIOUS
  <2>1. \A p \in Priority :
          /\ IsInjective(pxReadyTasksLists[p])
          /\ \A t \in Items(pxReadyTasksLists[p]) : uxPriority[t] = p
    BY DEF IInv, Lists, ListsOK, ReadyOK, IsRing
  <2>2. ReadyTasks \cap (Waiting \cup xTasksWaitingTermination) = {}
    BY ReadyTask DEF IInv
  <2>3. /\ Blocked \cap (xSuspendedTaskList \cup xTasksWaitingTermination) = {}
        /\ xSuspendedTaskList \cap xTasksWaitingTermination = {}
        /\ pxDelayedTaskList \cap pxOverflowDelayedTaskList = {}
    BY DEF IInv, Lists, ListsOK, Blocked
  <2> QED BY <2>1, <2>2, <2>3 DEF OneStateList, Waiting
<1> QED BY <1>1, SchedulerInvariant, PTL

\* A task's event item is in one list only, and only while the task waits:
\* xTaskRemoveFromEventList, the tick, xTaskAbortDelay and xTaskResumeAll
\* never wake a task twice.
THEOREM TasksOnOneEventList == Spec => []EventItemsSound
<1>1. IInv => EventItemsSound
  BY DEF IInv, Events, EventItemsSound, Waiting
<1> QED BY <1>1, SchedulerInvariant, PTL

\* uxTopReadyPriority is never below a priority with a ready task; as the
\* port's bitmap it is exact.
THEOREM TopPriorityInvariant == Spec => []TopPriorityRecorded
<1>1. IInv => TopPriorityRecorded
  <2> SUFFICES ASSUME IInv PROVE TopPriorityRecorded
    OBVIOUS
  <2>1. TopOK(uxTopReadyPriority, pxReadyTasksLists)
    BY DEF IInv, Lists, ListsOK
  <2>2. \A p \in Occupied(pxReadyTasksLists) : p >= p
    BY PriorityFacts DEF Occupied
  <2>3. CASE PortOptimised
    BY <2>1, <2>2, <2>3 DEF TopOK, TopPriorityRecorded
  <2>4. CASE ~PortOptimised
    <3>1. PICK q \in Priority : /\ uxTopReadyPriority = {q}
                                /\ \A p \in Occupied(pxReadyTasksLists) : p <= q
      BY <2>1, <2>4 DEF TopOK
    <3>2. \A p \in Occupied(pxReadyTasksLists) : q >= p
      BY <3>1, PriorityFacts DEF Occupied
    <3> QED BY <2>4, <3>1, <3>2 DEF TopPriorityRecorded
  <2> QED BY <2>3, <2>4
<1> QED BY <1>1, SchedulerInvariant, PTL

\* uxCurrentNumberOfTasks is the number of tasks that exist, a task that
\* deleted itself included until the idle task has freed it.
THEOREM TaskCountInvariant == Spec => []TaskCountExact
<1>1. IInv => TaskCountExact
  BY DEF IInv, Count
<1> QED BY <1>1, SchedulerInvariant, PTL
-----------------------------------------------------------------------------
(***************************************************************************)
(* What the scheduler owes to its tasks: what interrupts leave in a        *)
(* suspension is made up for, a delay ends at its tick and not before, the *)
(* highest ready task runs, and the first task of an event list is the one *)
(* with the highest priority.  Each duty adds an invariant to IInv.        *)
(***************************************************************************)
\* Where xTaskIncrementTick is at work.
InTick == kernel \in {"wake", "tickEnd"}

\* What interrupts have left is there in a suspension, and until the masked
\* loops of xTaskResumeAll have come to it.
Pending ==
  /\ (uxSchedulerSuspended = 0 /\ kernel = "task") =>
       (xPendingReadyList = {} /\ xPendedTicks = 0)
  /\ kernel \in {"catchUp", "wake", "tickEnd"} => xPendingReadyList = {}
  /\ (InTick /\ ticksLeft = 0) => xPendedTicks = 0

\* A switch has been asked for.
Asked == yieldIrq \/ xYieldPending \/ switchRequired

\* No ready task has a higher priority than the running one until a switch is
\* asked for, in a suspension and in the masked loops as well.
Highest ==
  /\ ~InTick => ~switchRequired
  /\ ~Asked => \A u \in ReadyTasks :
                 pxCurrentTCB # NoTask /\ uxPriority[u] <= uxPriority[pxCurrentTCB]

\* No delay is overdue.
NotOverdue == \A t \in Blocked : toGo[t] >= 0

\* The times of the delayed tasks.
Clock ==
  /\ UnblockTimeSound /\ WakeTimesSound /\ NoLateWakeUp /\ NotOverdue
  /\ ~xSchedulerRunning => Blocked = {}

\* The event list is in the order of the priorities.
Ordered == Descending(eventList, uxPriority)

\* vTaskPrioritySet is not called; it leaves the event lists as they are.
PrioritiesStay == "priority" \notin ApiCalls
-----------------------------------------------------------------------------
\* With the scheduler suspended an interrupt only pends what it wants done: it
\* changes no state list, no tick count and not the running task.
THEOREM InterruptsOnlyPend == Spec => SuspensionProtectsLists
<1>1. ASSUME uxSchedulerSuspended > 0, InterruptStep
      PROVE  UNCHANGED << lists, pxCurrentTCB, xTickCount >>
  <2>1. Deferred
    BY <1>1 DEF Deferred
  <2>2. CASE TickISR
    BY <2>1, <2>2 DEF TickISR
  <2>3. CASE YieldISR
    BY <2>1, <2>3 DEF YieldISR, vTaskSwitchContext, lists, clock
  <2>4. ASSUME NEW t \in Task, NEW yields \in BOOLEAN, SignalFromISR(t, yields)
        PROVE  UNCHANGED << lists, pxCurrentTCB, xTickCount >>
    BY <2>1, <2>4 DEF SignalFromISR, xTaskRemoveFromEventList, lists, clock
  <2>5. ASSUME NEW t \in Task, NEW yields \in BOOLEAN, xTaskResumeFromISR(t, yields)
        PROVE  UNCHANGED << lists, pxCurrentTCB, xTickCount >>
    BY <2>1, <2>5 DEF xTaskResumeFromISR, lists, clock
  <2> QED BY <1>1, <2>2, <2>3, <2>4, <2>5 DEF InterruptStep
<1>2. [Next]_vars => [uxSchedulerSuspended > 0 /\ InterruptStep =>
                        UNCHANGED << lists, pxCurrentTCB, xTickCount >>]_vars
  BY <1>1
<1> QED BY <1>2, PTL DEF Spec, SuspensionProtectsLists
-----------------------------------------------------------------------------
\* What is pending.

\* A step that only takes tasks off xPendingReadyList.
LEMMA PendingKept ==
  ASSUME Pending, xPendingReadyList' \subseteq xPendingReadyList,
         UNCHANGED << uxSchedulerSuspended, kernel, ticksLeft, xPendedTicks >>
  PROVE  Pending'
BY DEF Pending, InTick

\* A step in a suspension.
LEMMA PendingSuspended ==
  ASSUME IInv, kernel' = "task", uxSchedulerSuspended' > 0
  PROVE  Pending'
BY DEF Pending, InTick

\* A task or an interrupt signals the event.
LEMMA PendingSignalled ==
  ASSUME IInv, Pending, NEW t \in Task, kernel = "task", xTaskRemoveFromEventList(t)
  PROVE  Pending'
<1>1. UNCHANGED << uxSchedulerSuspended, kernel, ticksLeft, xPendedTicks >>
  BY DEF xTaskRemoveFromEventList, clock, locals
<1>2. CASE Deferred
  BY <1>1, <1>2, PendingSuspended DEF Deferred
<1>3. CASE ~Deferred
  BY <1>1, <1>3, PendingKept DEF xTaskRemoveFromEventList
<1> QED BY <1>2, <1>3

\* The running task takes a step that leaves the suspension and the loops.
LEMMA PendingTaskStep ==
  ASSUME IInv, Pending, TaskStep
  PROVE  Pending'
<1> USE DEF locals, clock, events, App, At
<1>1. CASE Yield \/ YieldWithinAPI \/ IdleYield
  BY <1>1, PendingKept DEF Yield, YieldWithinAPI, IdleYield
<1>2. CASE SuspendingCall
  <2>1. ASSUME NEW where, vTaskSuspendAll(where) PROVE Pending'
    <3>1. uxSchedulerSuspended' > 0 /\ kernel' = "task"
      BY <2>1, SchedulerAssumption DEF vTaskSuspendAll, Runs, IInv, Types
    <3> QED BY <3>1, PendingSuspended
  <2>2. CASE AppResumeAll \/ DelayUntilPassed
    BY <2>2, PendingKept DEF AppResumeAll, DelayUntilPassed
  <2>3. CASE xTaskAbortDelay
    BY <2>3, PendingKept DEF xTaskAbortDelay, LeaveEvent
  <2>4. CASE xTaskResumeAll
    <3>1. uxSchedulerSuspended \in Nat \ {0} /\ kernel = "task"
      BY <2>4, RunningPlace, SchedulerAssumption
         DEF xTaskResumeAll, IInv, Types, Runs, Suspending
    <3>2. CASE uxSchedulerSuspended = 1
      BY <2>4, <3>1, <3>2 DEF xTaskResumeAll, Pending, InTick
    <3>3. CASE uxSchedulerSuspended # 1
      BY <2>4, <3>1, <3>3, PendingSuspended DEF xTaskResumeAll
    <3> QED BY <3>2, <3>3
  <2>5. ASSUME NEW t \in Task, AbortCheck(t) PROVE Pending'
    BY <2>5, PendingKept DEF AbortCheck
  <2>6. ASSUME NEW ticks, vTaskDelay(ticks) PROVE Pending'
    BY <2>6, PendingKept DEF vTaskDelay
  <2>7. ASSUME NEW ticks, vTaskPlaceOnEventList(ticks) PROVE Pending'
    BY <2>7, PendingKept DEF vTaskPlaceOnEventList
  <2>8. ASSUME NEW ticks, xTaskCatchUpTicks(ticks) PROVE Pending'
    <3>1. uxSchedulerSuspended' > 0 /\ kernel' = "task"
      BY <2>8, RunningPlace DEF xTaskCatchUpTicks, Runs, Suspending
    <3> QED BY <3>1, PendingSuspended
  <2> QED BY <1>2, <2>1, <2>2, <2>3, <2>4, <2>5, <2>6, <2>7, <2>8 DEF SuspendingCall
<1>3. CASE SuspendCall
  <2>1. CASE SuspendResetsUnblockTime
    BY <2>1, PendingKept DEF SuspendResetsUnblockTime
  <2>2. ASSUME NEW t \in Task, vTaskSuspend(t) \/ vTaskResume(t) PROVE Pending'
    BY <2>2, PendingKept DEF vTaskSuspend, vTaskResume, LeaveEvent
  <2> QED BY <1>3, <2>1, <2>2 DEF SuspendCall
<1>4. CASE LifeCycleCall
  <2>1. CASE DeleteSelf
    BY <2>1, PendingKept DEF DeleteSelf
  <2>2. ASSUME NEW t \in Task, DeleteOther(t) PROVE Pending'
    BY <2>2, PendingKept DEF DeleteOther, LeaveEvent
  <2>3. ASSUME NEW t \in Task, NEW p \in Priority, Create(t, p) PROVE Pending'
    BY <2>3, PendingKept DEF Create, AddNewTask
  <2>4. ASSUME NEW t \in Task, prvCheckTasksWaitingTermination(t) PROVE Pending'
    BY <2>4, PendingKept DEF prvCheckTasksWaitingTermination
  <2> QED BY <1>4, <2>1, <2>2, <2>3, <2>4 DEF LifeCycleCall
<1>5. CASE PriorityCall
  BY <1>5, PendingKept DEF PriorityCall, vTaskPrioritySet
<1>6. ASSUME NEW t \in Task, Signal(t) PROVE Pending'
  BY <1>6, PendingSignalled DEF Signal, Runs
<1> QED BY <1>1, <1>2, <1>3, <1>4, <1>5, <1>6 DEF TaskStep

\* The masked loops come to what is pending before they end.
LEMMA PendingMaskedStep ==
  ASSUME IInv, Pending, MaskedStep
  PROVE  Pending'
<1> USE DEF locals, clock, events
<1>1. kernel # "task" => uxSchedulerSuspended = 0
  BY DEF IInv, Control
<1>2. ticksLeft \in Nat /\ kernel \in {"task", "drain", "catchUp", "wake", "tickEnd"}
  BY SchedulerAssumption DEF IInv, Types
<1>3. CASE WakeDone
  BY <1>3 DEF WakeDone, Pending, InTick
<1>4. CASE TickEnd
  BY <1>2, <1>4 DEF TickEnd, Pending, InTick
<1>5. CASE DrainDone
  BY <1>5 DEF DrainDone, Drained, Pending, InTick
<1>6. CASE CatchUpTick
  BY <1>2, <1>6 DEF CatchUpTick, AdvanceTick, Pending, InTick
<1>7. CASE CatchUpDone
  BY <1>7 DEF CatchUpDone, Pending, InTick
<1>8. ASSUME NEW t \in Task, WakeDue(t) PROVE Pending'
  BY <1>8, PendingKept DEF WakeDue, LeaveEvent
<1>9. ASSUME NEW t \in Task, DrainPendingReady(t) PROVE Pending'
  BY <1>9, PendingKept DEF DrainPendingReady
<1> QED BY <1>3, <1>4, <1>5, <1>6, <1>7, <1>8, <1>9 DEF MaskedStep

\* Interrupts leave something only in a suspension.
LEMMA PendingInterruptStep ==
  ASSUME IInv, Pending, InterruptStep
  PROVE  Pending'
<1> USE DEF locals, clock, events
<1>1. uxSchedulerSuspended \in Nat
  BY SchedulerAssumption DEF IInv, Types
<1>2. CASE TickISR
  <2>1. CASE Deferred
    BY <1>2, <2>1, PendingSuspended DEF TickISR, Deferred
  <2>2. CASE ~Deferred
    BY <1>1, <1>2, <2>2 DEF TickISR, Deferred, AdvanceTick, Pending, InTick
  <2> QED BY <2>1, <2>2
<1>3. CASE YieldISR
  BY <1>3, PendingKept DEF YieldISR
<1>4. ASSUME NEW t \in Task, NEW yields \in BOOLEAN, SignalFromISR(t, yields)
      PROVE  Pending'
  BY <1>4, PendingSignalled DEF SignalFromISR
<1>5. ASSUME NEW t \in Task, NEW yields \in BOOLEAN, xTaskResumeFromISR(t, yields)
      PROVE  Pending'
  <2>1. CASE Deferred
    BY <1>5, <2>1, PendingSuspended DEF xTaskResumeFromISR, Deferred
  <2>2. CASE ~Deferred
    BY <1>5, <2>2, PendingKept DEF xTaskResumeFromISR
  <2> QED BY <2>1, <2>2
<1> QED BY <1>2, <1>3, <1>4, <1>5 DEF InterruptStep

\* What interrupts leave in a suspension, tasks to be readied and ticks to be
\* counted, has been made up for when xTaskResumeAll returns.
THEOREM NothingForgotten == Spec => []NothingLeftPending
<1>1. Init => Pending
  BY DEF Init, Pending, InTick
<1>2. ASSUME IInv, Pending, [Next]_vars PROVE Pending'
  <2>1. CASE Boot
    BY <1>2, <2>1, PendingKept
       DEF Boot, vTaskStartScheduler, MainCreate, AddNewTask, events, locals, clock
  <2>2. CASE UNCHANGED vars
    BY <1>2, <2>2, PendingKept DEF vars, events, locals, clock
  <2> QED BY <1>2, <2>1, <2>2, PendingTaskStep, PendingMaskedStep,
             PendingInterruptStep DEF Next
<1>3. IInv /\ Pending => NothingLeftPending
  BY DEF IInv, Types, Pending, NothingLeftPending
<1> QED BY <1>1, <1>2, <1>3, SchedulerInvariant, PTL DEF Spec
-----------------------------------------------------------------------------
\* The order of the event list.

\* An order depends on the ranks of the listed elements only.
LEMMA DescendingSame ==
  ASSUME NEW s, NEW rank, NEW new, Descending(s, rank),
         \A i \in DOMAIN s : new[s[i]] = rank[s[i]]
  PROVE  Descending(s, new)
BY DEF Descending

\* A task on the event list is blocked or suspended.
LEMMA ListedWaits ==
  ASSUME IInv, NEW i \in DOMAIN eventList
  PROVE  /\ eventList[i] \in Waiting /\ eventList[i] \in Task
         /\ eventList[i] \in Created /\ eventList[i] \notin xTasksWaitingTermination
<1>1. eventList[i] \in OnEventList
  BY InToSet DEF IInv, Events, OnEventList
<1>2. eventList[i] \in Waiting
  BY <1>1 DEF IInv, Events
<1> QED BY <1>2 DEF IInv, Lists, ListsOK, Waiting, Blocked, Created

\* A task leaves the event list, or no task does.
LEMMA OrderedLeaves ==
  ASSUME IInv, Ordered, NEW t, eventList' = WithoutEvent(t), UNCHANGED uxPriority
  PROVE  Ordered'
<1>1. CASE t \in OnEventList
  <2>1. eventList \in Seq(Task) /\ t \in ToSet(eventList)
    BY <1>1 DEF IInv, Events, OnEventList
  <2>2. Descending(uxListRemove(eventList, t), uxPriority)
    BY <2>1, DescendingRemove DEF Ordered
  <2> QED BY <1>1, <2>2 DEF WithoutEvent, Ordered
<1>2. CASE t \notin OnEventList
  BY <1>2 DEF WithoutEvent, Ordered
<1> QED BY <1>1, <1>2

\* The first task of the event list is woken.
LEMMA OrderedHead ==
  ASSUME IInv, Ordered, NEW t, xTaskRemoveFromEventList(t)
  PROVE  Ordered'
<1>1. uxPriority \in [Task -> Int] /\ eventList \in Seq(Task) /\ eventList # << >>
  BY PriorityFacts DEF IInv, Lists, ListsOK, Events, xTaskRemoveFromEventList
<1>2. Descending(Tail(eventList), uxPriority)
  BY <1>1, DescendingHead DEF Ordered
<1> QED BY <1>2 DEF xTaskRemoveFromEventList, tcbs, Ordered

\* vListInsert keeps the order.
LEMMA OrderedInsert ==
  ASSUME IInv, Ordered, NEW t \in Task, eventList' = EventInsert(t), UNCHANGED uxPriority
  PROVE  Ordered'
<1> DEFINE lower == {i \in 1..Len(eventList) :
                       uxPriority[eventList[i]] < uxPriority[t]}
           k == IF lower = {} THEN Len(eventList) + 1 ELSE Min(lower)
<1>1. /\ uxPriority \in [Task -> Int] /\ eventList \in Seq(Task)
      /\ Len(eventList) \in Nat
      /\ \A i \in 1..Len(eventList) : eventList[i] \in Task
  BY PriorityFacts DEF IInv, Lists, ListsOK, Events
<1>2. lower # {} => Min(lower) \in lower /\ \A i \in lower : Min(lower) <= i
  <2>1. lower \subseteq Nat
    OBVIOUS
  <2> HIDE DEF lower
  <2> QED BY <2>1, MinIsLeast
<1>3. k \in Nat /\ 1 <= k /\ k <= Len(eventList) + 1
  BY <1>1, <1>2
<1>4. ASSUME NEW i \in 1..Len(eventList), i < k PROVE i \notin lower
  <2>1. CASE lower = {}
    BY <2>1
  <2>2. CASE lower # {}
    <3>1. k = Min(lower) /\ k \in Nat /\ i \in Nat
      BY <1>3, <2>2
    <3> QED BY <1>2, <1>4, <2>2, <3>1
  <2> QED BY <2>1, <2>2
<1>5. ASSUME NEW i \in 1..Len(eventList), i < k
      PROVE  uxPriority[eventList[i]] >= uxPriority[t]
  <2>1. ~(uxPriority[eventList[i]] < uxPriority[t])
    BY <1>4, <1>5
  <2>2. uxPriority[eventList[i]] \in Int /\ uxPriority[t] \in Int
    BY <1>1
  <2> QED BY <2>1, <2>2
<1>6. k \in 1..Len(eventList) => uxPriority[eventList[k]] <= uxPriority[t]
  <2>1. k \in 1..Len(eventList) => k \in lower
    BY <1>1, <1>2
  <2> QED BY <1>1, <2>1
<1>7. EventInsert(t) = InsertAt(eventList, k, t)
  BY DEF EventInsert
<1> HIDE DEF k, lower
<1>8. Descending(InsertAt(eventList, k, t), uxPriority)
  BY <1>1, <1>3, <1>5, <1>6, DescendingInsert DEF Ordered
<1> QED BY <1>7, <1>8 DEF Ordered

\* A task is created or freed that is not on the list.
LEMMA OrderedOther ==
  ASSUME IInv, Ordered, NEW t \in Task, NEW p,
         uxPriority' = [uxPriority EXCEPT ![t] = p], UNCHANGED eventList,
         t \notin Waiting
  PROVE  Ordered'
<1>1. \A i \in DOMAIN eventList : uxPriority'[eventList[i]] = uxPriority[eventList[i]]
  BY ListedWaits DEF IInv, Lists, ListsOK
<1>2. Descending(eventList, uxPriority')
  BY <1>1 DEF Ordered, Descending
<1> QED BY <1>2 DEF Ordered

\* Every step keeps the order, if no priority is set.
LEMMA OrderedNext ==
  ASSUME PrioritiesStay, IInv, Ordered, Next
  PROVE  Ordered'
<1> USE DEF events, tcbs
<1>1. CASE Boot
  <2>1. PICK t \in Task, p \in Priority : AddNewTask(t, p)
    BY <1>1, PriorityFacts DEF Boot, vTaskStartScheduler, MainCreate
  <2>2. t \notin Waiting
    BY <2>1 DEF AddNewTask, Created, Waiting, Blocked
  <2> QED BY <2>1, <2>2, OrderedOther DEF AddNewTask
<1>2. CASE TaskStep
  <2>1. CASE Yield \/ YieldWithinAPI \/ IdleYield
    BY <2>1 DEF Yield, YieldWithinAPI, IdleYield, Ordered
  <2>2. CASE SuspendingCall
    <3>1. ASSUME NEW where, vTaskSuspendAll(where) PROVE Ordered'
      BY <3>1 DEF vTaskSuspendAll, Ordered
    <3>2. CASE AppResumeAll \/ DelayUntilPassed \/ xTaskResumeAll
      BY <3>2 DEF AppResumeAll, DelayUntilPassed, xTaskResumeAll, Ordered
    <3>3. CASE xTaskAbortDelay
      BY <3>3, OrderedLeaves DEF xTaskAbortDelay, LeaveEvent
    <3>4. ASSUME NEW t \in Task, AbortCheck(t) PROVE Ordered'
      BY <3>4 DEF AbortCheck, Ordered
    <3>5. ASSUME NEW ticks, vTaskDelay(ticks) \/ xTaskCatchUpTicks(ticks)
          PROVE  Ordered'
      BY <3>5 DEF vTaskDelay, xTaskCatchUpTicks, Ordered
    <3>6. ASSUME NEW ticks, vTaskPlaceOnEventList(ticks) PROVE Ordered'
      BY <3>6, OrderedInsert, RunningTask DEF vTaskPlaceOnEventList, At
    <3> QED BY <2>2, <3>1, <3>2, <3>3, <3>4, <3>5, <3>6 DEF SuspendingCall
  <2>3. CASE SuspendCall
    BY <2>3, OrderedLeaves
       DEF SuspendCall, SuspendResetsUnblockTime, vTaskSuspend, vTaskResume,
           LeaveEvent, Ordered
  <2>4. CASE LifeCycleCall
    <3>1. CASE DeleteSelf
      BY <3>1 DEF DeleteSelf, Ordered
    <3>2. ASSUME NEW t \in Task, DeleteOther(t) PROVE Ordered'
      <4>1. Descending(WithoutEvent(t), uxPriority)
        <5>1. CASE t \in OnEventList
          BY <5>1, DescendingRemove DEF WithoutEvent, Ordered, OnEventList, IInv, Events
        <5>2. CASE t \notin OnEventList
          BY <5>2 DEF WithoutEvent, Ordered
        <5> QED BY <5>1, <5>2
      <4>2. WithoutEvent(t) \in Seq(Task) /\ ToSet(WithoutEvent(t)) = OnEventList \ {t}
        BY WithoutEventFacts DEF IInv
      <4>3. \A i \in DOMAIN WithoutEvent(t) : WithoutEvent(t)[i] \in Task \ {t}
        BY <4>2, InToSet
      <4>4. uxPriority' = [uxPriority EXCEPT ![t] = 0]
        BY <3>2 DEF DeleteOther, prvDeleteTCB
      <4>5. \A i \in DOMAIN WithoutEvent(t) :
              uxPriority'[WithoutEvent(t)[i]] = uxPriority[WithoutEvent(t)[i]]
        BY <4>3, <4>4 DEF IInv, Lists, ListsOK
      <4>6. Descending(WithoutEvent(t), uxPriority')
        BY <4>1, <4>5, DescendingSame
      <4> QED BY <3>2, <4>6 DEF DeleteOther, LeaveEvent, Ordered
    <3>3. ASSUME NEW t \in Task, NEW p \in Priority, Create(t, p) PROVE Ordered'
      <4>1. t \notin Waiting
        BY <3>3 DEF Create, AddNewTask, Created, Waiting, Blocked
      <4> QED BY <3>3, <4>1, OrderedOther DEF Create, AddNewTask
    <3>4. ASSUME NEW t \in Task, prvCheckTasksWaitingTermination(t) PROVE Ordered'
      <4>1. t \notin Waiting
        BY <3>4 DEF prvCheckTasksWaitingTermination, IInv, Lists, ListsOK,
                    Waiting, Blocked
      <4> QED BY <3>4, <4>1, OrderedOther
              DEF prvCheckTasksWaitingTermination, prvDeleteTCB
    <3> QED BY <2>4, <3>1, <3>2, <3>3, <3>4 DEF LifeCycleCall
  <2>5. ASSUME NEW t \in Task, Signal(t) PROVE Ordered'
    BY <2>5, OrderedHead DEF Signal
  <2> QED BY <1>2, <2>1, <2>2, <2>3, <2>4, <2>5 DEF TaskStep, PriorityCall, PrioritiesStay
<1>3. CASE InterruptStep
  <2>1. CASE TickISR
    BY <2>1 DEF TickISR, AdvanceTick, Ordered
  <2>2. CASE YieldISR
    BY <2>2 DEF YieldISR, Ordered
  <2>3. ASSUME NEW t \in Task, NEW yields, SignalFromISR(t, yields) PROVE Ordered'
    BY <2>3, OrderedHead DEF SignalFromISR
  <2>4. ASSUME NEW t \in Task, NEW yields, xTaskResumeFromISR(t, yields) PROVE Ordered'
    BY <2>4 DEF xTaskResumeFromISR, Ordered
  <2> QED BY <1>3, <2>1, <2>2, <2>3, <2>4 DEF InterruptStep
<1>4. CASE MaskedStep
  <2>1. CASE WakeDone \/ TickEnd \/ DrainDone \/ CatchUpTick \/ CatchUpDone
    BY <2>1 DEF WakeDone, TickEnd, DrainDone, CatchUpTick, CatchUpDone, AdvanceTick,
                Ordered
  <2>2. ASSUME NEW t \in Task, WakeDue(t) PROVE Ordered'
    BY <2>2, OrderedLeaves DEF WakeDue, LeaveEvent
  <2>3. ASSUME NEW t \in Task, DrainPendingReady(t) PROVE Ordered'
    BY <2>3 DEF DrainPendingReady, Ordered
  <2> QED BY <1>4, <2>1, <2>2, <2>3 DEF MaskedStep
<1> QED BY <1>1, <1>2, <1>3, <1>4 DEF Next

\* The first task of an event list, the one xTaskRemoveFromEventList wakes, has
\* the highest priority of those waiting, unless vTaskPrioritySet is called.
THEOREM HighestWaiterFirst ==
  ASSUME PrioritiesStay
  PROVE  Spec => []EventListInPriorityOrder
<1>1. Init => Ordered
  BY DEF Init, Ordered, Descending
<1>2. ASSUME IInv, Ordered, [Next]_vars PROVE Ordered'
  <2>1. CASE UNCHANGED vars
    BY <1>2, <2>1 DEF vars, events, tcbs, Ordered
  <2> QED BY <1>2, <2>1, OrderedNext
<1>3. ASSUME IInv, Ordered PROVE EventListInPriorityOrder
  <2>1. SUFFICES ASSUME NEW i \in 1..Len(eventList)
                 PROVE  uxPriority[eventList[i]] <= uxPriority[Head(eventList)]
    BY DEF EventListInPriorityOrder
  <2>2. /\ uxPriority \in [Task -> Int] /\ eventList \in Seq(Task)
        /\ Head(eventList) = eventList[1] /\ 1 \in DOMAIN eventList
        /\ i \in DOMAIN eventList /\ i \in Nat /\ 1 <= i
        /\ eventList[i] \in Task /\ eventList[1] \in Task
    BY <1>3, <2>1, PriorityFacts DEF IInv, Lists, ListsOK, Events
  <2>3. CASE i = 1
    BY <2>2, <2>3
  <2>4. CASE i # 1
    <3>1. uxPriority[eventList[1]] >= uxPriority[eventList[i]]
      BY <1>3, <2>2, <2>4 DEF Ordered, Descending
    <3> QED BY <2>2, <3>1
  <2> QED BY <2>3, <2>4
<1> QED BY <1>1, <1>2, <1>3, SchedulerInvariant, PTL DEF Spec
-----------------------------------------------------------------------------
\* Preemption.

\* A ready task is a task, in an occupied list.
LEMMA ReadyPriority ==
  ASSUME Lists, NEW u \in ReadyTasks
  PROVE  u \in Task /\ uxPriority[u] \in Occupied(pxReadyTasksLists)
<1>1. PICK p \in Priority : u \in Items(pxReadyTasksLists[p])
  BY DEF ReadyTasks
<1>2. uxPriority[u] = p /\ p \in Occupied(pxReadyTasksLists)
  BY <1>1, OccupiedFacts DEF Lists, ListsOK
<1> QED BY <1>2, ReadyTask

\* Priorities are numbers.
LEMMA PrioritiesTyped ==
  ASSUME IInv
  PROVE  uxPriority \in [Task -> Priority] /\ uxPriority \in [Task -> Int]
BY PriorityFacts DEF IInv, Lists, ListsOK

\* A step that readies at most one task, and asks for a switch if need be.
LEMMA HighestStep ==
  ASSUME IInv, Highest, NEW t \in Task, Outranks(t) => Asked',
         ReadyTasks' \subseteq ReadyTasks \cup {t},
         UNCHANGED << uxPriority, pxCurrentTCB >>, pxCurrentTCB \in Task,
         Asked => Asked', ~InTick' => ~switchRequired'
  PROVE  Highest'
<1>1. ASSUME ~Asked', NEW u \in ReadyTasks'
      PROVE  pxCurrentTCB # NoTask /\ uxPriority[u] <= uxPriority[pxCurrentTCB]
  <2>1. CASE u \in ReadyTasks
    BY <1>1, <2>1 DEF Highest
  <2>2. CASE u = t
    BY <1>1, <2>2, PrioritiesTyped, PriorityFacts DEF Outranks
  <2> QED BY <2>1, <2>2
<1> QED BY <1>1 DEF Highest

\* A step that readies nobody.
LEMMA HighestKept ==
  ASSUME IInv, Highest, ReadyTasks' \subseteq ReadyTasks,
         UNCHANGED << uxPriority, pxCurrentTCB >>,
         Asked => Asked', ~InTick' => ~switchRequired'
  PROVE  Highest'
BY DEF Highest

\* A task that does not run is created or freed.
LEMMA HighestOther ==
  ASSUME IInv, Highest, NEW t \in Task, NEW p \in Priority, t # pxCurrentTCB,
         uxPriority' = [uxPriority EXCEPT ![t] = p],
         ReadyTasks' \subseteq ReadyTasks \cup {t},
         (t \in ReadyTasks' /\ uxPriority[pxCurrentTCB] < p) => Asked',
         UNCHANGED pxCurrentTCB, pxCurrentTCB \in Task,
         Asked => Asked', ~InTick' => ~switchRequired'
  PROVE  Highest'
<1>1. ASSUME ~Asked', NEW u \in ReadyTasks'
      PROVE  pxCurrentTCB # NoTask /\ uxPriority'[u] <= uxPriority'[pxCurrentTCB]
  <2>1. uxPriority'[pxCurrentTCB] = uxPriority[pxCurrentTCB] /\ pxCurrentTCB # NoTask
    BY PrioritiesTyped, PriorityFacts
  <2>2. CASE u = t
    BY <1>1, <2>1, <2>2, PrioritiesTyped, PriorityFacts
  <2>3. CASE u # t
    <3>1. u \in ReadyTasks /\ u \in Task
      BY <1>1, <2>3, ReadyPriority DEF IInv
    <3> QED BY <1>1, <2>1, <2>3, <3>1, PrioritiesTyped DEF Highest
  <2> QED BY <2>2, <2>3
<1> QED BY <1>1 DEF Highest

\* The running task sets a priority.
LEMMA HighestPrioritySet ==
  ASSUME IInv, Highest, NEW t \in Task, NEW p \in Priority, vTaskPrioritySet(t, p)
  PROVE  Highest'
<1>1. App /\ t \in Created /\ t \notin xTasksWaitingTermination /\ p # uxPriority[t]
      /\ uxPriority' = [uxPriority EXCEPT ![t] = p]
      /\ yieldIrq' = PrioritySetYields(t, p)
      /\ UNCHANGED << locals, xYieldPending, pxCurrentTCB >>
  BY DEF vTaskPrioritySet
<1>2. pxCurrentTCB \in Task /\ pxCurrentTCB \in ReadyTasks /\ kernel = "task" /\ ~yieldIrq
      /\ pxCurrentTCB # NoTask
  BY <1>1, AppFacts, PriorityFacts
<1>3. ReadyTasks' = ReadyTasks
  BY <1>1, PriorityLists DEF IInv
<1>4. ~switchRequired /\ ~switchRequired'
  BY <1>1, <1>2 DEF Highest, InTick, locals
<1>5. ASSUME ~Asked', NEW u \in ReadyTasks
      PROVE  uxPriority'[u] <= uxPriority'[pxCurrentTCB]
  <2>1. ~PrioritySetYields(t, p) /\ ~Asked
    BY <1>1, <1>2, <1>4, <1>5 DEF Asked
  <2>2. u \in Task /\ uxPriority[u] <= uxPriority[pxCurrentTCB]
    BY <1>5, <2>1, ReadyPriority DEF IInv, Highest
  <2>3. uxPriority \in [Task -> Int] /\ p \in Int
    BY PrioritiesTyped, PriorityFacts
  <2>4. CASE t = pxCurrentTCB
    BY <1>1, <2>1, <2>2, <2>3, <2>4 DEF PrioritySetYields
  <2>5. CASE t # pxCurrentTCB
    BY <1>1, <1>2, <2>1, <2>2, <2>3, <2>5 DEF PrioritySetYields
  <2> QED BY <2>4, <2>5
<1> QED BY <1>1, <1>2, <1>3, <1>4, <1>5 DEF Highest

\* The first task of the event list is woken.
LEMMA HighestSignalled ==
  ASSUME IInv, Highest, NEW t \in Task, xTaskRemoveFromEventList(t),
         kernel = "task", xSchedulerRunning, yieldIrq => Asked'
  PROVE  Highest'
<1>1. pxCurrentTCB \in Task
  BY DEF IInv, Control
<1>2. UNCHANGED << uxPriority, pxCurrentTCB, locals >>
      /\ xYieldPending' = (xYieldPending \/ Outranks(t))
  BY DEF xTaskRemoveFromEventList, tcbs
<1>3. ReadyTasks' \subseteq ReadyTasks \cup {t}
  <2>1. CASE Deferred
    BY <2>1 DEF xTaskRemoveFromEventList, ReadyTasks
  <2>2. CASE ~Deferred
    <3>1. t \in Waiting
      BY HeadTailEvent DEF IInv, Events, xTaskRemoveFromEventList
    <3> QED BY <2>2, <3>1, ReadiedLists
            DEF IInv, xTaskRemoveFromEventList, LeaveBlocked, tcbs
  <2> QED BY <2>1, <2>2
<1>4. ~switchRequired /\ ~switchRequired'
  BY <1>2 DEF Highest, InTick, locals
<1>5. (Outranks(t) => Asked') /\ (Asked => Asked')
  BY <1>2, <1>4 DEF Asked
<1> QED BY <1>1, <1>2, <1>3, <1>4, <1>5, HighestStep

\* A suspended task is resumed.
LEMMA HighestResumed ==
  ASSUME IInv, Highest, NEW t \in Task, prvTaskIsTaskSuspended(t),
         xSuspendedTaskList' = xSuspendedTaskList \ {t},
         prvAddTaskToReadyList(t, uxPriority[t], pxReadyTasksLists,
                               uxTopReadyPriority),
         UNCHANGED << pxDelayedTaskList, pxOverflowDelayedTaskList,
                      xTasksWaitingTermination, tcbs, events, locals, pxCurrentTCB >>,
         kernel = "task", xSchedulerRunning, Asked => Asked', Outranks(t) => Asked'
  PROVE  Highest'
<1>1. pxCurrentTCB \in Task
  BY DEF IInv, Control
<1>2. ReadyTasks' \subseteq ReadyTasks \cup {t}
  BY ResumedFacts
<1>3. ~switchRequired'
  BY DEF Highest, InTick, locals
<1> QED BY <1>1, <1>2, <1>3, HighestStep DEF tcbs

\* The yield interrupt chooses a task of the highest ready priority.
LEMMA HighestSwitch ==
  ASSUME IInv, Highest, YieldISR
  PROVE  Highest'
<1>1. yieldIrq /\ kernel = "task" /\ yieldIrq' = FALSE /\ vTaskSwitchContext
      /\ UNCHANGED << pxDelayedTaskList, pxOverflowDelayedTaskList, locals,
                      xSuspendedTaskList, xTasksWaitingTermination, uxPriority >>
  BY DEF YieldISR, tcbs
<1>2. ~switchRequired'
  BY <1>1 DEF Highest, InTick, locals
<1>3. CASE Deferred
  BY <1>1, <1>2, <1>3 DEF vTaskSwitchContext, Highest, Asked
<1>4. CASE ~Deferred
  <2>1. ReadyTasks # {}
    BY <1>1 DEF IInv, Control
  <2>2. /\ ReadyTasks' = ReadyTasks /\ pxCurrentTCB' \in ReadyTasks
        /\ pxCurrentTCB' \in Items(pxReadyTasksLists[SelectedPriority])
    BY <1>1, <1>4, <2>1, SwitchedLists DEF IInv
  <2>3. /\ SelectedPriority \in Priority
        /\ \A p \in Occupied(pxReadyTasksLists) : p <= SelectedPriority
    BY <2>1, SelectedOccupied DEF IInv
  <2>4. uxPriority[pxCurrentTCB'] = SelectedPriority
    BY <2>2, <2>3 DEF IInv, Lists, ListsOK
  <2>5. \A u \in ReadyTasks : uxPriority[u] <= uxPriority[pxCurrentTCB']
    BY <2>3, <2>4, ReadyPriority DEF IInv
  <2>6. pxCurrentTCB' # NoTask
    BY <2>2, ReadyPriority, PriorityFacts DEF IInv
  <2> QED BY <1>1, <1>2, <2>2, <2>5, <2>6 DEF Highest
<1> QED BY <1>3, <1>4

\* Inside the loops of the tick the switch that is required is noted, and asked
\* for at their end.
LEMMA HighestTickEnd ==
  ASSUME IInv, Highest, TickEnd
  PROVE  Highest'
<1>1. /\ switchRequired' = FALSE
      /\ UNCHANGED << pxReadyTasksLists, uxPriority, pxCurrentTCB >>
  BY DEF TickEnd, lists, tcbs
<1>2. Asked => Asked'
  BY DEF TickEnd, Asked, TickSwitches
<1>3. ReadyTasks' = ReadyTasks
  BY <1>1 DEF ReadyTasks
<1> QED BY <1>1, <1>2, <1>3, HighestKept

\* The masked loops ready tasks and count ticks.
LEMMA HighestMaskedStep ==
  ASSUME IInv, Highest, MaskedStep
  PROVE  Highest'
<1> USE DEF tcbs, lists, locals
<1>1. kernel # "task" => pxCurrentTCB \in Task
  BY DEF IInv, Control
<1>2. CASE WakeDone
  <2>1. ReadyTasks' = ReadyTasks
    BY <1>2 DEF WakeDone, ReadyTasks
  <2> QED BY <1>2, <2>1, HighestKept DEF WakeDone, Asked, InTick
<1>3. CASE DrainDone
  <2>1. ReadyTasks' = ReadyTasks
    BY <1>3 DEF DrainDone, ReadyTasks
  <2>2. ~switchRequired'
    BY <1>3 DEF DrainDone, Highest, InTick
  <2> QED BY <1>3, <2>1, <2>2, HighestKept DEF DrainDone, Asked
<1>4. CASE CatchUpTick
  <2>1. ReadyTasks' = ReadyTasks /\ switchRequired' = FALSE
    BY <1>4 DEF CatchUpTick, AdvanceTick, ReadyTasks
  <2>2. ~switchRequired
    BY <1>4 DEF CatchUpTick, Highest, InTick
  <2> QED BY <1>4, <2>1, <2>2, HighestKept DEF CatchUpTick, AdvanceTick, Asked
<1>5. CASE CatchUpDone
  <2>1. ReadyTasks' = ReadyTasks
    BY <1>5 DEF CatchUpDone, ReadyTasks
  <2>2. ~switchRequired' /\ ~switchRequired
    BY <1>5 DEF CatchUpDone, Highest, InTick
  <2>3. ~yieldIrq
    BY <1>5 DEF CatchUpDone, IInv, Control, InResume
  <2> QED BY <1>5, <2>1, <2>2, <2>3, HighestKept DEF CatchUpDone, Asked
<1>6. ASSUME NEW t \in Task, WakeDue(t) PROVE Highest'
  <2>1. ReadyTasks' = ReadyTasks \cup {t}
    <3>1. t \in Waiting /\ xSuspendedTaskList' = xSuspendedTaskList \ {t}
      BY <1>6 DEF WakeDue, Waiting, Blocked, IInv, Lists, ListsOK
    <3> QED BY <1>6, <3>1, ReadiedLists DEF IInv, WakeDue, LeaveBlocked
  <2>2. (Outranks(t) => Asked') /\ (Asked => Asked')
    BY <1>6 DEF WakeDue, Asked
  <2>3. InTick' /\ pxCurrentTCB \in Task /\ UNCHANGED << uxPriority, pxCurrentTCB >>
    BY <1>1, <1>6 DEF WakeDue, InTick
  <2> QED BY <2>1, <2>2, <2>3, HighestStep
<1>7. ASSUME NEW t \in Task, DrainPendingReady(t) PROVE Highest'
  <2>1. ReadyTasks' = ReadyTasks \cup {t}
    <3>1. t \in Waiting
      BY <1>7 DEF DrainPendingReady, IInv, Events
    <3> QED BY <1>7, <3>1, ReadiedLists DEF IInv, DrainPendingReady, LeaveBlocked
  <2>2. (Outranks(t) => Asked') /\ (Asked => Asked')
    BY <1>7 DEF DrainPendingReady, Asked
  <2>3. ~switchRequired' /\ pxCurrentTCB \in Task
        /\ UNCHANGED << uxPriority, pxCurrentTCB >>
    BY <1>1, <1>7 DEF DrainPendingReady, Highest, InTick
  <2> QED BY <2>1, <2>2, <2>3, HighestStep
<1> QED BY <1>2, <1>3, <1>4, <1>5, <1>6, <1>7, HighestTickEnd DEF MaskedStep

\* An interrupt asks for the switch that it makes necessary, or pends it.
LEMMA HighestInterruptStep ==
  ASSUME IInv, Highest, InterruptStep
  PROVE  Highest'
<1>1. CASE TickISR
  <2>1. ReadyTasks' = ReadyTasks /\ UNCHANGED << uxPriority, pxCurrentTCB >>
    BY <1>1 DEF TickISR, AdvanceTick, ReadyTasks, lists, tcbs
  <2>2. ~switchRequired /\ ~switchRequired' /\ UNCHANGED << yieldIrq, xYieldPending >>
    BY <1>1 DEF TickISR, AdvanceTick, Highest, InTick, locals
  <2> QED BY <2>1, <2>2, HighestKept DEF Asked
<1>2. ASSUME NEW t \in Task, NEW yields \in BOOLEAN, SignalFromISR(t, yields)
      PROVE  Highest'
  <2>1. yieldIrq' = (yieldIrq \/ yields)
    BY <1>2 DEF SignalFromISR
  <2>2. yieldIrq => Asked'
    BY <2>1 DEF Asked
  <2> QED BY <1>2, <2>2, HighestSignalled DEF SignalFromISR
<1>3. ASSUME NEW t \in Task, NEW yields \in BOOLEAN, xTaskResumeFromISR(t, yields)
      PROVE  Highest'
  <2>1. /\ xSchedulerRunning /\ kernel = "task" /\ prvTaskIsTaskSuspended(t)
        /\ yieldIrq' = (yieldIrq \/ yields)
        /\ UNCHANGED << pxDelayedTaskList, pxOverflowDelayedTaskList, eventList,
                        xTasksWaitingTermination, tcbs, locals, pxCurrentTCB >>
    BY <1>3 DEF xTaskResumeFromISR
  <2>2. CASE Deferred
    <3>1. ReadyTasks' = ReadyTasks /\ xYieldPending' = xYieldPending
      BY <1>3, <2>2 DEF xTaskResumeFromISR, ReadyTasks
    <3>2. ~switchRequired' /\ (Asked => Asked')
      BY <2>1, <3>1 DEF Highest, InTick, locals, Asked
    <3> QED BY <2>1, <3>1, <3>2, HighestKept DEF tcbs
  <2>3. CASE ~Deferred
    <3>1. /\ xYieldPending' = (xYieldPending \/ Outranks(t))
          /\ xSuspendedTaskList' = xSuspendedTaskList \ {t}
          /\ prvAddTaskToReadyList(t, uxPriority[t], pxReadyTasksLists,
                                   uxTopReadyPriority)
          /\ UNCHANGED xPendingReadyList
      BY <1>3, <2>3 DEF xTaskResumeFromISR
    <3>2. (Outranks(t) => Asked') /\ (Asked => Asked')
      BY <2>1, <3>1 DEF Asked, locals
    <3> QED BY <2>1, <3>1, <3>2, HighestResumed DEF events
  <2> QED BY <2>2, <2>3
<1> QED BY <1>1, <1>2, <1>3, HighestSwitch DEF InterruptStep

\* The running task readies nobody.
LEMMA HighestQuiet ==
  ASSUME IInv, Highest, Runs, ReadyTasks' \subseteq ReadyTasks,
         UNCHANGED << uxPriority, pxCurrentTCB, switchRequired, xYieldPending >>
  PROVE  Highest'
<1>1. ~yieldIrq /\ ~switchRequired
  BY DEF Runs, Highest, InTick
<1> QED BY <1>1, HighestKept DEF Asked

\* The running task makes a call that suspends or resumes the scheduler.
LEMMA HighestSuspendingCall ==
  ASSUME IInv, Highest, SuspendingCall
  PROVE  Highest'
<1> USE DEF tcbs, lists, locals
<1>1. ASSUME NEW where, vTaskSuspendAll(where) PROVE Highest'
  <2>1. ReadyTasks' = ReadyTasks
    BY <1>1 DEF vTaskSuspendAll, ReadyTasks
  <2> QED BY <1>1, <2>1, HighestQuiet DEF vTaskSuspendAll, App, At
<1>2. CASE AppResumeAll \/ DelayUntilPassed \/ xTaskResumeAll
  <2>1. ReadyTasks' = ReadyTasks
    BY <1>2 DEF AppResumeAll, DelayUntilPassed, xTaskResumeAll, ReadyTasks
  <2> QED BY <1>2, <2>1, HighestQuiet
          DEF AppResumeAll, DelayUntilPassed, xTaskResumeAll, App, At
<1>3. CASE xTaskAbortDelay
  <2>1. /\ Runs /\ pc[pxCurrentTCB] = "abortBlocked"
        /\ xYieldPending' = (xYieldPending \/ Outranks(abortee))
        /\ UNCHANGED << uxPriority, pxCurrentTCB, switchRequired, yieldIrq >>
    BY <1>3 DEF xTaskAbortDelay, At
  <2>2. pxCurrentTCB \in Task /\ abortee \in Waiting
    BY <2>1, RunningTask DEF IInv, Current, Waiting
  <2>3. ReadyTasks' = ReadyTasks \cup {abortee} /\ abortee \in Task
    <3>1. /\ pxDelayedTaskList' = pxDelayedTaskList \ {abortee}
          /\ pxOverflowDelayedTaskList' = pxOverflowDelayedTaskList \ {abortee}
          /\ xSuspendedTaskList' = xSuspendedTaskList \ {abortee}
          /\ UNCHANGED xTasksWaitingTermination
          /\ prvAddTaskToReadyList(abortee, uxPriority[abortee],
                                   pxReadyTasksLists, uxTopReadyPriority)
      BY <1>3 DEF xTaskAbortDelay, LeaveBlocked
    <3> QED BY <2>1, <2>2, <3>1, ReadiedLists DEF IInv
  <2>4. (Outranks(abortee) => Asked') /\ (Asked => Asked')
    BY <2>1 DEF Asked
  <2>5. ~switchRequired'
    BY <2>1 DEF Runs, Highest, InTick
  <2> QED BY <2>1, <2>2, <2>3, <2>4, <2>5, HighestStep
<1>4. ASSUME NEW t \in Task, AbortCheck(t) PROVE Highest'
  <2>1. ReadyTasks' = ReadyTasks
    BY <1>4 DEF AbortCheck, ReadyTasks
  <2> QED BY <1>4, <2>1, HighestQuiet DEF AbortCheck, At
<1>5. ASSUME NEW ticks, vTaskDelay(ticks) \/ vTaskPlaceOnEventList(ticks)
      PROVE  Highest'
  <2>1. /\ Runs /\ pc[pxCurrentTCB] \in {"delay", "wait"}
        /\ \E forever : prvAddCurrentTaskToDelayedList(ticks, forever)
        /\ UNCHANGED << xTasksWaitingTermination, uxPriority, pxCurrentTCB,
                        switchRequired, xYieldPending >>
    BY <1>5 DEF vTaskDelay, vTaskPlaceOnEventList, At
  <2>2. pxCurrentTCB \in ReadyTasks
    BY <2>1, RunningReady DEF StillReady
  <2>3. ReadyTasks' = ReadyTasks \ {pxCurrentTCB}
    BY <2>1, <2>2, DelayedLists DEF IInv
  <2> QED BY <2>1, <2>3, HighestQuiet
<1>6. ASSUME NEW ticks, xTaskCatchUpTicks(ticks) PROVE Highest'
  <2>1. ReadyTasks' = ReadyTasks
    BY <1>6 DEF xTaskCatchUpTicks, ReadyTasks
  <2> QED BY <1>6, <2>1, HighestQuiet DEF xTaskCatchUpTicks, At
<1> QED BY <1>1, <1>2, <1>3, <1>4, <1>5, <1>6 DEF SuspendingCall

\* The running task takes a step.
LEMMA HighestTaskStep ==
  ASSUME IInv, Highest, TaskStep
  PROVE  Highest'
<1> USE DEF tcbs, lists, locals
<1>1. CASE Yield \/ YieldWithinAPI \/ IdleYield
  <2>1. ReadyTasks' = ReadyTasks
    BY <1>1 DEF Yield, YieldWithinAPI, IdleYield, ReadyTasks
  <2> QED BY <1>1, <2>1, HighestQuiet DEF Yield, YieldWithinAPI, IdleYield, App, At
<1>2. CASE SuspendCall
  <2>1. CASE SuspendResetsUnblockTime
    <3>1. ReadyTasks' = ReadyTasks
      BY <2>1 DEF SuspendResetsUnblockTime, ReadyTasks
    <3> QED BY <2>1, <3>1, HighestQuiet DEF SuspendResetsUnblockTime, At
  <2>2. ASSUME NEW t \in Task, vTaskSuspend(t) PROVE Highest'
    <3>1. ReadyTasks' = ReadyTasks \ {t}
      BY <2>2, SuspendedLists DEF IInv, vTaskSuspend
    <3> QED BY <2>2, <3>1, HighestQuiet DEF vTaskSuspend, App, At
  <2>3. ASSUME NEW t \in Task, vTaskResume(t) PROVE Highest'
    <3>1. xSchedulerRunning /\ kernel = "task" /\ ~yieldIrq
      BY <2>3, AppFacts DEF vTaskResume
    <3>2. ~switchRequired
      BY <3>1 DEF Highest, InTick
    <3>3. (Outranks(t) => Asked') /\ (Asked => Asked')
      BY <2>3, <3>1, <3>2 DEF vTaskResume, Asked
    <3> QED BY <2>3, <3>1, <3>3, HighestResumed DEF vTaskResume
  <2> QED BY <1>2, <2>1, <2>2, <2>3 DEF SuspendCall
<1>3. CASE LifeCycleCall
  <2>1. CASE DeleteSelf
    <3>1. pxCurrentTCB \in ReadyTasks /\ Runs
      BY <2>1, AppFacts DEF DeleteSelf
    <3>2. ReadyTasks' = ReadyTasks \ {pxCurrentTCB}
      BY <2>1, <3>1, DeletedSelfLists DEF IInv, DeleteSelf
    <3> QED BY <2>1, <3>1, <3>2, HighestQuiet DEF DeleteSelf
  <2>2. ASSUME NEW t \in Task, DeleteOther(t) PROVE Highest'
    <3>1. /\ Runs /\ pxCurrentTCB \in Task /\ kernel = "task"
          /\ t \in Created /\ t # pxCurrentTCB /\ t \notin xTasksWaitingTermination
      BY <2>2, AppFacts DEF DeleteOther
    <3>2. ReadyTasks' = ReadyTasks \ {t}
      BY <2>2, <3>1, DeletedLists DEF IInv, DeleteOther
    <3>3. /\ uxPriority' = [uxPriority EXCEPT ![t] = 0] /\ 0 \in Priority
          /\ UNCHANGED << pxCurrentTCB, switchRequired, yieldIrq, xYieldPending >>
      BY <2>2, PriorityFacts DEF DeleteOther, prvDeleteTCB
    <3>4. ~switchRequired' /\ (Asked => Asked')
      BY <3>1, <3>3 DEF Highest, InTick, Asked
    <3> QED BY <3>1, <3>2, <3>3, <3>4, HighestOther
  <2>3. ASSUME NEW t \in Task, NEW p \in Priority, Create(t, p) PROVE Highest'
    <3>1. /\ App /\ AddNewTask(t, p) /\ yieldIrq' = (uxPriority[pxCurrentTCB] < p)
          /\ uxPriority' = [uxPriority EXCEPT ![t] = p]
          /\ UNCHANGED << pxCurrentTCB, switchRequired, xYieldPending >>
      BY <2>3 DEF Create, AddNewTask
    <3>2. /\ pxCurrentTCB \in Task /\ pxCurrentTCB \in ReadyTasks /\ ~yieldIrq
          /\ kernel = "task"
      BY <3>1, AppFacts
    <3>3. t # pxCurrentTCB
      BY <3>1, <3>2 DEF AddNewTask, Created
    <3>4. ReadyTasks' = ReadyTasks \cup {t}
      BY <3>1, CreatedLists DEF IInv
    <3>5. ~switchRequired'
      BY <3>1, <3>2 DEF Highest, InTick
    <3>6. (uxPriority[pxCurrentTCB] < p => Asked') /\ (Asked => Asked')
      BY <3>1, <3>2, <3>5 DEF Asked
    <3> QED BY <3>1, <3>2, <3>3, <3>4, <3>5, <3>6, HighestOther
  <2>4. ASSUME NEW t \in Task, prvCheckTasksWaitingTermination(t) PROVE Highest'
    <3>1. /\ Runs /\ pxCurrentTCB = Idle /\ t \in xTasksWaitingTermination
          /\ xSchedulerRunning /\ kernel = "task"
      BY <2>4 DEF prvCheckTasksWaitingTermination, At, Runs
    <3>2. pxCurrentTCB \in Task /\ pxCurrentTCB # t
      <4>1. Idle \in ReadyTasks
        BY <3>1 DEF IInv, Control
      <4> QED BY <3>1, <4>1, ReadyTask DEF IInv
    <3>3. ReadyTasks' = ReadyTasks
      BY <2>4 DEF prvCheckTasksWaitingTermination, ReadyTasks
    <3>4. t \notin ReadyTasks
      BY <3>1, ReadyTask DEF IInv
    <3>5. /\ uxPriority' = [uxPriority EXCEPT ![t] = 0] /\ 0 \in Priority
          /\ UNCHANGED << pxCurrentTCB, switchRequired, yieldIrq, xYieldPending >>
      BY <2>4, PriorityFacts DEF prvCheckTasksWaitingTermination, prvDeleteTCB
    <3>6. ~switchRequired' /\ (Asked => Asked')
      BY <3>1, <3>5 DEF Highest, InTick, Asked
    <3> QED BY <3>1, <3>2, <3>3, <3>4, <3>5, <3>6, HighestOther
  <2> QED BY <1>3, <2>1, <2>2, <2>3, <2>4 DEF LifeCycleCall
<1>4. CASE PriorityCall
  BY <1>4, HighestPrioritySet DEF PriorityCall
<1>5. ASSUME NEW t \in Task, Signal(t) PROVE Highest'
  <2>1. xSchedulerRunning /\ kernel = "task" /\ ~yieldIrq
    BY <1>5, AppFacts DEF Signal
  <2> QED BY <1>5, <2>1, HighestSignalled DEF Signal
<1> QED BY <1>1, <1>2, <1>3, <1>4, <1>5, HighestSuspendingCall DEF TaskStep

\* The first task of the highest priority is the first to run.
LEMMA HighestBoot ==
  ASSUME IInv, Highest, Boot
  PROVE  Highest'
<1>1. PICK t \in Task, p \in Priority :
        ~xSchedulerRunning /\ AddNewTask(t, p) /\ pxCurrentTCB' = FirstToRun(t, p)
        /\ UNCHANGED yieldIrq
  BY PriorityFacts DEF Boot, vTaskStartScheduler, MainCreate
<1>2. /\ t \notin Created /\ uxPriority' = [uxPriority EXCEPT ![t] = p]
      /\ UNCHANGED << switchRequired, xYieldPending, kernel >>
  BY <1>1 DEF AddNewTask, locals
<1>3. ReadyTasks' = ReadyTasks \cup {t}
  BY <1>1, CreatedLists DEF IInv
<1>4. kernel = "task" /\ pxCurrentTCB \in ReadyTasks \cup {NoTask}
  BY <1>1 DEF IInv, Control
<1>5. /\ ~switchRequired' /\ (Asked => Asked') /\ ~switchRequired
  BY <1>1, <1>2, <1>4 DEF Highest, InTick, Asked
<1>6. /\ uxPriority \in [Task -> Int] /\ p \in Int
      /\ uxPriority'[t] = p /\ \A u \in Task : u # t => uxPriority'[u] = uxPriority[u]
  BY <1>2, PrioritiesTyped, PriorityFacts
<1>7. \A u \in ReadyTasks : u \in Task /\ u # t
  BY <1>2, ReadyPriority DEF IInv, Created
<1>8. ASSUME ~Asked, NEW u \in ReadyTasks \cup {t}
      PROVE  /\ pxCurrentTCB' # NoTask
             /\ uxPriority'[u] <= uxPriority'[pxCurrentTCB']
  <2>1. ASSUME NEW v \in ReadyTasks
        PROVE  pxCurrentTCB # NoTask /\ uxPriority[v] <= uxPriority[pxCurrentTCB]
    BY <1>8, <2>1 DEF Highest
  <2>2. CASE pxCurrentTCB = NoTask
    <3>1. u = t /\ pxCurrentTCB' = t
      BY <1>1, <1>8, <2>1, <2>2 DEF FirstToRun
    <3> QED BY <1>6, <3>1, PriorityFacts
  <2>3. CASE pxCurrentTCB # NoTask
    <3>1. pxCurrentTCB \in ReadyTasks
      BY <1>4, <2>3
    <3>2. pxCurrentTCB \in Task /\ pxCurrentTCB # t
      BY <1>7, <3>1
    <3>3. CASE uxPriority[pxCurrentTCB] <= p
      <4>1. pxCurrentTCB' = t
        BY <1>1, <3>3 DEF FirstToRun
      <4>2. CASE u = t
        BY <1>6, <4>1, <4>2, PriorityFacts
      <4>3. CASE u # t
        <5>1. u \in ReadyTasks /\ u \in Task
          BY <1>7, <1>8, <4>3
        <5>2. uxPriority[u] <= uxPriority[pxCurrentTCB]
          BY <2>1, <5>1
        <5> QED BY <1>6, <3>2, <3>3, <4>1, <4>3, <5>1, <5>2, PriorityFacts
      <4> QED BY <4>2, <4>3
    <3>4. CASE ~(uxPriority[pxCurrentTCB] <= p)
      <4>1. pxCurrentTCB' = pxCurrentTCB
        BY <1>1, <2>3, <3>4 DEF FirstToRun
      <4>2. CASE u = t
        BY <1>6, <2>3, <3>2, <3>4, <4>1, <4>2
      <4>3. CASE u # t
        <5>1. u \in ReadyTasks /\ u \in Task
          BY <1>7, <1>8, <4>3
        <5>2. uxPriority[u] <= uxPriority[pxCurrentTCB]
          BY <2>1, <5>1
        <5> QED BY <1>6, <2>3, <3>2, <4>1, <4>3, <5>1, <5>2
      <4> QED BY <4>2, <4>3
    <3> QED BY <3>3, <3>4
  <2> QED BY <2>2, <2>3
<1> QED BY <1>3, <1>5, <1>8 DEF Highest

\* Preemption: with no switch pending or deferred, no ready task has a higher
\* priority than the running one, whatever readied it.
THEOREM HighestTaskRuns == Spec => []HighestRuns
<1>1. Init => Highest
  <2> SUFFICES ASSUME Init PROVE Highest
    OBVIOUS
  <2>1. \A p \in Priority : Items(pxReadyTasksLists[p]) = {}
    BY InitRing, PriorityFacts DEF Init
  <2>2. ReadyTasks = {}
    BY <2>1 DEF ReadyTasks
  <2> QED BY <2>2 DEF Init, Highest, InTick
<1>2. ASSUME IInv, Highest, [Next]_vars PROVE Highest'
  <2>1. CASE UNCHANGED vars
    <3>1. ReadyTasks' = ReadyTasks
      BY <2>1 DEF vars, lists, ReadyTasks
    <3> QED BY <1>2, <2>1, <3>1 DEF vars, tcbs, locals, Highest, Asked, InTick
  <2> QED BY <1>2, <2>1, HighestBoot, HighestTaskStep, HighestMaskedStep,
             HighestInterruptStep DEF Next
<1>3. ASSUME IInv, Highest PROVE HighestRuns
  <2>1. SUFFICES ASSUME kernel = "task", ~yieldIrq, ~xYieldPending,
                        NEW p \in Occupied(pxReadyTasksLists)
                 PROVE  p <= uxPriority[pxCurrentTCB]
    BY DEF HighestRuns
  <2>2. ~Asked
    BY <1>3, <2>1 DEF Highest, InTick, Asked
  <2>3. ReadyOK(pxReadyTasksLists) /\ p \in Priority
    BY <1>3 DEF IInv, Lists, ListsOK, Occupied
  <2>4. PICK u : u \in Items(pxReadyTasksLists[p])
    BY <2>3, OccupiedFacts
  <2>5. u \in ReadyTasks /\ uxPriority[u] = p
    BY <1>3, <2>3, <2>4 DEF ReadyTasks, IInv, Lists, ListsOK
  <2> QED BY <1>3, <2>2, <2>5 DEF Highest
<1> QED BY <1>1, <1>2, <1>3, SchedulerInvariant, PTL DEF Spec
-----------------------------------------------------------------------------
\* The clock.

\* The sum of two tick counts in the width of TickType_t.
LEMMA TickSum ==
  ASSUME NEW a \in TickType, NEW d \in TickType
  PROVE  (a + d) % TickMod = IF a + d < TickMod THEN a + d ELSE a + d - TickMod
<1>1. TickMod \in Nat /\ TickMod > 1 /\ a \in 0..(TickMod - 1) /\ d \in 0..(TickMod - 1)
  BY SchedulerAssumption DEF TickType
<1>2. CASE a + d < TickMod
  BY <1>1, <1>2
<1>3. CASE ~(a + d < TickMod)
  <2>1. (a + d) % TickMod = (a + d - TickMod) % TickMod
    BY <1>1, <1>3
  <2>2. a + d - TickMod \in Nat /\ a + d - TickMod < TickMod
    BY <1>1, <1>3
  <2> QED BY <1>1, <1>3, <2>1, <2>2
<1> QED BY <1>2, <1>3

\* The next unblock time that is computed anew is not later than any wake time.
LEMMA ResetSound ==
  ASSUME xItemValue \in [Task -> TickType], NEW list, list \subseteq Task, NEW t \in list
  PROVE  prvResetNextTaskUnblockTime(list) <= xItemValue[t]
<1> DEFINE times == {xItemValue[u] : u \in list}
<1>1. times \subseteq Nat /\ xItemValue[t] \in times
  BY TickFacts
<1>2. prvResetNextTaskUnblockTime(list) = Min(times)
  BY DEF prvResetNextTaskUnblockTime
<1> HIDE DEF times
<1>3. Min(times) <= xItemValue[t]
  BY <1>1, MinIsLeast
<1> QED BY <1>2, <1>3

\* The types of what the clock is about.
LEMMA ClockTypes ==
  ASSUME IInv
  PROVE  /\ pxDelayedTaskList \subseteq Task /\ pxOverflowDelayedTaskList \subseteq Task
         /\ xItemValue \in [Task -> TickType] /\ toGo \in [Task -> Int]
         /\ xTickCount \in TickType /\ xNextTaskUnblockTime \in TickType
BY DEF IInv, Types, Lists, ListsOK

\* Tasks only leave the delayed lists, outside the loop of the tick or in it.
LEMMA ClockShrinks ==
  ASSUME IInv, Clock,
         pxDelayedTaskList' \subseteq pxDelayedTaskList,
         pxOverflowDelayedTaskList' \subseteq pxOverflowDelayedTaskList,
         \A t \in Blocked' : xItemValue'[t] = xItemValue[t] /\ toGo'[t] = toGo[t],
         UNCHANGED xTickCount, xSchedulerRunning => xSchedulerRunning',
         kernel = "wake" => kernel' = "wake",
         \/ UNCHANGED xNextTaskUnblockTime
         \/ \A t \in pxDelayedTaskList' : xNextTaskUnblockTime' <= xItemValue[t]
  PROVE  Clock'
<1>1. Blocked' \subseteq Blocked
      /\ \A t \in Blocked' : xItemValue'[t] = xItemValue[t] /\ toGo'[t] = toGo[t]
  BY DEF Blocked
<1>2. \A t \in pxDelayedTaskList' : t \in Blocked' /\ t \in pxDelayedTaskList
  BY DEF Blocked
<1>3. \A t \in pxOverflowDelayedTaskList' :
        t \in Blocked' /\ t \in pxOverflowDelayedTaskList
  BY DEF Blocked
<1>4. UnblockTimeSound'
  BY <1>1, <1>2 DEF Clock, UnblockTimeSound
<1>5. WakeTimesSound'
  BY <1>1, <1>2, <1>3 DEF Clock, WakeTimesSound
<1>6. NoLateWakeUp' /\ NotOverdue' /\ (~xSchedulerRunning' => Blocked' = {})
  BY <1>1 DEF Clock, NoLateWakeUp, NotOverdue
<1> QED BY <1>4, <1>5, <1>6 DEF Clock

\* The lists and the tick stay; the next unblock time may be computed anew.
LEMMA ClockKept ==
  ASSUME IInv, Clock,
         UNCHANGED << pxDelayedTaskList, pxOverflowDelayedTaskList, xItemValue, toGo,
                      xTickCount, xSchedulerRunning >>,
         kernel = "wake" => kernel' = "wake",
         \/ UNCHANGED xNextTaskUnblockTime
         \/ xNextTaskUnblockTime' = prvResetNextTaskUnblockTime(pxDelayedTaskList)
  PROVE  Clock'
<1>1. \A t \in pxDelayedTaskList :
        prvResetNextTaskUnblockTime(pxDelayedTaskList) <= xItemValue[t]
  BY ClockTypes, ResetSound
<1> QED BY <1>1, ClockShrinks

\* A task leaves the delayed list that may hold it.
LEMMA ClockLeft ==
  ASSUME IInv, Clock, NEW t \in Task, LeaveBlocked(t),
         UNCHANGED << xTickCount, xSchedulerRunning >>,
         kernel = "wake" => kernel' = "wake",
         \/ UNCHANGED xNextTaskUnblockTime
         \/ xNextTaskUnblockTime' = prvResetNextTaskUnblockTime(pxDelayedTaskList \ {t})
  PROVE  Clock'
<1>1. /\ pxDelayedTaskList' = pxDelayedTaskList \ {t}
      /\ pxOverflowDelayedTaskList' = pxOverflowDelayedTaskList \ {t}
      /\ xItemValue' = [xItemValue EXCEPT ![t] = 0]
      /\ toGo' = [toGo EXCEPT ![t] = 0]
  BY DEF LeaveBlocked
<1>2. \A u \in Blocked' : u # t /\ u \in Task
  BY <1>1, ClockTypes DEF Blocked
<1>3. \A u \in Blocked' : xItemValue'[u] = xItemValue[u] /\ toGo'[u] = toGo[u]
  BY <1>1, <1>2, ClockTypes
<1>4. \A u \in pxDelayedTaskList \ {t} :
        prvResetNextTaskUnblockTime(pxDelayedTaskList \ {t}) <= xItemValue[u]
  <2>1. pxDelayedTaskList \ {t} \subseteq Task
    BY ClockTypes
  <2> QED BY <2>1, ClockTypes, ResetSound
<1> QED BY <1>1, <1>3, <1>4, ClockShrinks

\* The running task goes to a delayed list, or to the list of suspended tasks.
LEMMA ClockDelayed ==
  ASSUME IInv, Clock, NEW ticks \in Delays, ticks > 0, NEW forever,
         pxCurrentTCB \in ReadyTasks,
         prvAddCurrentTaskToDelayedList(ticks, forever),
         UNCHANGED << xTickCount, kernel, xSchedulerRunning >>,
         kernel = "task", xSchedulerRunning
  PROVE  Clock'
<1> DEFINE t == pxCurrentTCB
           wake == TimeToWake(ticks)
<1>1. t \in Task /\ t \notin Blocked
  BY ReadyTask DEF IInv, Waiting
<1>2. CASE /\ UNCHANGED << pxDelayedTaskList, pxOverflowDelayedTaskList, xItemValue,
                            xNextTaskUnblockTime, toGo >>
  BY <1>2, ClockKept
<1>3. CASE /\ xItemValue' = [xItemValue EXCEPT ![t] = wake]
           /\ toGo' = [toGo EXCEPT ![t] = ticks]
           /\ pxOverflowDelayedTaskList' =
                IF wake < xTickCount THEN pxOverflowDelayedTaskList \cup {t}
                ELSE pxOverflowDelayedTaskList
           /\ pxDelayedTaskList' =
                IF wake < xTickCount THEN pxDelayedTaskList
                ELSE pxDelayedTaskList \cup {t}
           /\ xNextTaskUnblockTime' =
                IF ~(wake < xTickCount) /\ wake < xNextTaskUnblockTime
                THEN wake ELSE xNextTaskUnblockTime
  <2>1. ticks \in TickType /\ xTickCount \in TickType /\ wake \in TickType
    <3>1. ticks \in TickType /\ xTickCount \in TickType /\ TickType \subseteq Nat
      BY ClockTypes, TickFacts, SchedulerAssumption
    <3>2. xTickCount + ticks \in Int
      BY <3>1
    <3> QED BY <3>1, <3>2, TickFacts DEF TimeToWake
  <2>2. wake = IF xTickCount + ticks < TickMod THEN xTickCount + ticks
               ELSE xTickCount + ticks - TickMod
    BY <2>1, TickSum DEF TimeToWake
  <2> HIDE DEF t, wake
  <2>3. /\ TickMod \in Nat /\ ticks \in Nat /\ ticks < TickMod
        /\ xTickCount \in Nat /\ xTickCount < TickMod
        /\ wake \in Nat /\ wake < TickMod
    BY <2>1, SchedulerAssumption DEF TickType
  <2>4. /\ xItemValue'[t] = wake /\ toGo'[t] = ticks
        /\ \A u \in Task : u # t => xItemValue'[u] = xItemValue[u] /\ toGo'[u] = toGo[u]
    BY <1>1, <1>3, ClockTypes
  <2>5. \A u \in Blocked : u \in Task /\ u # t
    BY <1>1, ClockTypes DEF Blocked
  <2>6. Blocked' = Blocked \cup {t}
    BY <1>3 DEF Blocked
  <2>7. NoLateWakeUp' /\ NotOverdue'
    <3>1. \A u \in Blocked : toGo[u] > 0 /\ toGo[u] >= 0
      BY DEF Clock, NoLateWakeUp, NotOverdue
    <3>2. \A u \in Blocked' : toGo'[u] > 0 /\ toGo'[u] >= 0
      BY <2>3, <2>4, <2>5, <2>6, <3>1
    <3> QED BY <3>2 DEF NoLateWakeUp, NotOverdue
  <2>8. \A u \in pxDelayedTaskList : u \in Blocked
        /\ xItemValue[u] = xTickCount + toGo[u] /\ xNextTaskUnblockTime <= xItemValue[u]
    BY DEF Clock, WakeTimesSound, UnblockTimeSound, Blocked
  <2>9. \A u \in pxOverflowDelayedTaskList : u \in Blocked
        /\ xItemValue[u] + TickMod = xTickCount + toGo[u]
    BY DEF Clock, WakeTimesSound, Blocked
  <2>10. xNextTaskUnblockTime \in Nat
         /\ \A u \in Task : xItemValue[u] \in Nat
    BY ClockTypes, TickFacts
  <2>11. CASE wake < xTickCount
    <3>1. /\ pxDelayedTaskList' = pxDelayedTaskList
          /\ pxOverflowDelayedTaskList' = pxOverflowDelayedTaskList \cup {t}
          /\ xNextTaskUnblockTime' = xNextTaskUnblockTime
      BY <1>3, <2>11
    <3>2. wake + TickMod = xTickCount + ticks
      BY <2>2, <2>3, <2>11
    <3>3. WakeTimesSound'
      BY <2>4, <2>5, <2>8, <2>9, <3>1, <3>2 DEF WakeTimesSound
    <3>4. UnblockTimeSound'
      BY <2>4, <2>5, <2>8, <3>1 DEF UnblockTimeSound
    <3> QED BY <2>7, <3>3, <3>4 DEF Clock
  <2>12. CASE ~(wake < xTickCount)
    <3>1. /\ pxDelayedTaskList' = pxDelayedTaskList \cup {t}
          /\ pxOverflowDelayedTaskList' = pxOverflowDelayedTaskList
          /\ xNextTaskUnblockTime' = IF wake < xNextTaskUnblockTime THEN wake
                                     ELSE xNextTaskUnblockTime
      BY <1>3, <2>12
    <3>2. wake = xTickCount + ticks
      BY <2>2, <2>3, <2>12
    <3>3. WakeTimesSound'
      BY <2>4, <2>5, <2>8, <2>9, <3>1, <3>2 DEF WakeTimesSound
    <3>4. xNextTaskUnblockTime' <= wake /\ xNextTaskUnblockTime' <= xNextTaskUnblockTime
          /\ xNextTaskUnblockTime' \in Nat
      BY <2>3, <2>10, <3>1
    <3>5. \A u \in pxDelayedTaskList' : xNextTaskUnblockTime' <= xItemValue'[u]
      BY <2>4, <2>5, <2>8, <2>10, <3>1, <3>4
    <3>6. UnblockTimeSound'
      BY <3>5 DEF UnblockTimeSound
    <3> QED BY <2>7, <3>3, <3>6 DEF Clock
  <2> QED BY <2>11, <2>12
<1> QED BY <1>2, <1>3 DEF prvAddCurrentTaskToDelayedList

\* A task or an interrupt signals the event.
LEMMA ClockSignalled ==
  ASSUME IInv, Clock, NEW t \in Task, xTaskRemoveFromEventList(t)
  PROVE  Clock'
<1>1. UNCHANGED << xTickCount, xNextTaskUnblockTime, xSchedulerRunning, kernel >>
  BY DEF xTaskRemoveFromEventList, tcbs, clock, locals
<1>2. CASE Deferred
  BY <1>1, <1>2, ClockKept DEF xTaskRemoveFromEventList
<1>3. CASE ~Deferred
  BY <1>1, <1>3, ClockLeft DEF xTaskRemoveFromEventList
<1> QED BY <1>2, <1>3

\* A tick advances the count, and makes the overflow list the current one when
\* the count wraps.
LEMMA ClockAdvanced ==
  ASSUME IInv, Clock, AdvanceTick, kernel # "wake", UNCHANGED xSchedulerRunning,
         xSchedulerRunning
  PROVE  Clock'
<1> DEFINE now == (xTickCount + 1) % TickMod
<1>1. /\ TickMod \in Nat /\ TickMod > 1 /\ xTickCount \in Nat /\ xTickCount < TickMod
      /\ 1 \in TickType /\ xTickCount \in TickType
      /\ xNextTaskUnblockTime \in Nat
      /\ \A t \in Task : xItemValue[t] \in Nat /\ toGo[t] \in Int
  BY ClockTypes, TickFacts, SchedulerAssumption DEF TickType
<1>2. now = IF xTickCount + 1 < TickMod THEN xTickCount + 1 ELSE xTickCount + 1 - TickMod
  BY <1>1, TickSum
<1>3. \A t \in pxDelayedTaskList :
        /\ t \in Task /\ t \in Blocked /\ toGo[t] > 0
        /\ xItemValue[t] = xTickCount + toGo[t] /\ xNextTaskUnblockTime <= xItemValue[t]
  BY ClockTypes DEF Clock, UnblockTimeSound, WakeTimesSound, NoLateWakeUp, Blocked
<1>4. \A t \in pxOverflowDelayedTaskList :
        /\ t \in Task /\ t \in Blocked /\ toGo[t] > 0
        /\ xItemValue[t] + TickMod = xTickCount + toGo[t]
  BY ClockTypes DEF Clock, WakeTimesSound, NoLateWakeUp, Blocked
<1>5. /\ xTickCount' = now /\ xItemValue' = xItemValue
      /\ pxDelayedTaskList' = IF now = 0 THEN pxOverflowDelayedTaskList
                              ELSE pxDelayedTaskList
      /\ pxOverflowDelayedTaskList' = IF now = 0 THEN pxDelayedTaskList
                                      ELSE pxOverflowDelayedTaskList
      /\ xNextTaskUnblockTime' =
           IF now = 0 THEN prvResetNextTaskUnblockTime(pxOverflowDelayedTaskList)
           ELSE xNextTaskUnblockTime
      /\ kernel' = IF UnblockTimeReached(now, xNextTaskUnblockTime') THEN "wake"
                   ELSE "tickEnd"
      /\ toGo' = [t \in Task |-> IF t \in Blocked THEN toGo[t] - 1 ELSE toGo[t]]
  BY DEF AdvanceTick
<1> HIDE DEF now
<1>6. \A t \in Blocked : t \in Task /\ toGo'[t] = toGo[t] - 1
  BY <1>5, ClockTypes DEF Blocked
<1>7. Blocked' = Blocked
  BY <1>5 DEF Blocked
<1>8. NotOverdue'
  <2>1. \A t \in Blocked : toGo'[t] >= 0
    BY <1>1, <1>3, <1>4, <1>6 DEF Blocked
  <2> QED BY <1>7, <2>1 DEF NotOverdue
<1>9. ASSUME WakeTimesSound', now \in Nat, now < TickMod,
             \A t \in pxDelayedTaskList' : xNextTaskUnblockTime' <= xItemValue[t],
             xNextTaskUnblockTime' \in Nat
      PROVE  Clock'
  <2>1. UnblockTimeSound'
    BY <1>5, <1>9 DEF UnblockTimeSound
  <2>2. ASSUME kernel' # "wake", NEW t \in Blocked' PROVE toGo'[t] > 0
    <3>1. now < xNextTaskUnblockTime'
      BY <1>5, <1>9, <2>2 DEF UnblockTimeReached
    <3>2. t \in Task /\ toGo'[t] \in Int /\ xItemValue[t] \in Nat
      BY <1>1, <1>6, <1>7, <2>2
    <3>3. CASE t \in pxDelayedTaskList'
      <4>1. xItemValue[t] = now + toGo'[t] /\ xNextTaskUnblockTime' <= xItemValue[t]
        BY <1>5, <1>9, <3>3 DEF WakeTimesSound
      <4> QED BY <1>9, <3>1, <3>2, <4>1
    <3>4. CASE t \in pxOverflowDelayedTaskList'
      <4>1. xItemValue[t] + TickMod = now + toGo'[t]
        BY <1>5, <1>9, <3>4 DEF WakeTimesSound
      <4> QED BY <1>1, <1>9, <3>2, <4>1
    <3> QED BY <2>2, <3>3, <3>4 DEF Blocked
  <2> QED BY <1>8, <1>9, <2>1, <2>2 DEF Clock, NoLateWakeUp
<1>10. CASE now # 0
  <2>1. now = xTickCount + 1 /\ now < TickMod
    BY <1>1, <1>2, <1>10
  <2>2. /\ pxDelayedTaskList' = pxDelayedTaskList
        /\ pxOverflowDelayedTaskList' = pxOverflowDelayedTaskList
        /\ xNextTaskUnblockTime' = xNextTaskUnblockTime
    BY <1>5, <1>10
  <2>3. \A t \in pxDelayedTaskList : xItemValue[t] = now + toGo'[t]
    BY <1>1, <1>3, <1>6, <2>1
  <2>4. \A t \in pxOverflowDelayedTaskList : xItemValue[t] + TickMod = now + toGo'[t]
    BY <1>1, <1>4, <1>6, <2>1
  <2>5. WakeTimesSound'
    BY <1>5, <2>2, <2>3, <2>4 DEF WakeTimesSound
  <2> QED BY <1>1, <1>3, <1>9, <2>1, <2>2, <2>5
<1>11. CASE now = 0
  <2>1. xTickCount + 1 = TickMod
    BY <1>1, <1>2, <1>11
  <2>2. pxDelayedTaskList = {}
    <3>1. ASSUME NEW t \in pxDelayedTaskList PROVE FALSE
      <4>1. /\ xItemValue[t] = xTickCount + toGo[t] /\ toGo[t] > 0 /\ toGo[t] \in Int
            /\ xItemValue[t] < TickMod
        BY <1>1, <1>3, ClockTypes DEF TickType
      <4> QED BY <1>1, <2>1, <4>1
    <3> QED BY <3>1
  <2>3. /\ pxDelayedTaskList' = pxOverflowDelayedTaskList
        /\ pxOverflowDelayedTaskList' = {}
        /\ xNextTaskUnblockTime' =
             prvResetNextTaskUnblockTime(pxOverflowDelayedTaskList)
    BY <1>5, <1>11, <2>2
  <2>4. \A t \in pxOverflowDelayedTaskList : xItemValue[t] = now + toGo'[t]
    BY <1>1, <1>4, <1>6, <1>11, <2>1
  <2>5. WakeTimesSound'
    BY <1>5, <2>3, <2>4 DEF WakeTimesSound
  <2>6. \A t \in pxDelayedTaskList' : xNextTaskUnblockTime' <= xItemValue[t]
    BY <2>3, ClockTypes, ResetSound
  <2>7. xNextTaskUnblockTime' \in Nat
    BY <2>3, ClockTypes, UnblockTimeType, TickFacts
  <2> QED BY <1>1, <1>9, <1>11, <2>5, <2>6, <2>7
<1> QED BY <1>10, <1>11

\* The loop of the tick ends when no task is due.
LEMMA ClockWakeDone ==
  ASSUME IInv, Clock, WakeDone
  PROVE  Clock'
<1>1. /\ UNCHANGED << pxDelayedTaskList, pxOverflowDelayedTaskList, xItemValue, toGo,
                      xTickCount, xSchedulerRunning >>
      /\ \A t \in pxDelayedTaskList : ~Due(t)
      /\ xNextTaskUnblockTime' = prvResetNextTaskUnblockTime(pxDelayedTaskList)
  BY DEF WakeDone, lists, tcbs
<1>2. /\ TickMod \in Nat /\ xTickCount \in Nat /\ xTickCount < TickMod
      /\ \A t \in Task : xItemValue[t] \in Nat /\ toGo[t] \in Int
  BY ClockTypes, TickFacts, SchedulerAssumption DEF TickType
<1>3. \A t \in pxDelayedTaskList :
        xNextTaskUnblockTime' <= xItemValue[t] /\ toGo[t] > 0
  <2>1. ASSUME NEW t \in pxDelayedTaskList PROVE toGo[t] > 0
    <3>1. xItemValue[t] = xTickCount + toGo[t] /\ xItemValue[t] > xTickCount
      BY <1>1, <1>2, ClockTypes DEF Clock, WakeTimesSound, Due
    <3> QED BY <1>2, <3>1, ClockTypes
  <2> QED BY <1>1, <2>1, ClockTypes, ResetSound
<1>4. \A t \in pxOverflowDelayedTaskList : toGo[t] > 0
  <2>1. ASSUME NEW t \in pxOverflowDelayedTaskList PROVE toGo[t] > 0
    <3>1. xItemValue[t] + TickMod = xTickCount + toGo[t]
      BY DEF Clock, WakeTimesSound
    <3> QED BY <1>2, <3>1, ClockTypes
  <2> QED BY <2>1
<1>5. UnblockTimeSound'
  BY <1>1, <1>3 DEF UnblockTimeSound
<1>6. WakeTimesSound'
  BY <1>1 DEF Clock, WakeTimesSound
<1>7. NoLateWakeUp' /\ NotOverdue' /\ (~xSchedulerRunning' => Blocked' = {})
  BY <1>1, <1>3, <1>4 DEF Clock, NoLateWakeUp, NotOverdue, Blocked
<1> QED BY <1>5, <1>6, <1>7 DEF Clock

\* The running task's steps.
LEMMA ClockTaskStep ==
  ASSUME IInv, Clock, TaskStep
  PROVE  Clock'
<1> USE DEF lists, tcbs, clock, locals
<1>1. ASSUME Runs PROVE kernel = "task" /\ xSchedulerRunning /\ pxCurrentTCB \in Task
  BY <1>1, RunningTask
<1>2. CASE Yield \/ YieldWithinAPI \/ IdleYield
  BY <1>2, ClockKept DEF Yield, YieldWithinAPI, IdleYield
<1>3. CASE SuspendingCall
  <2>1. ASSUME NEW where, vTaskSuspendAll(where) PROVE Clock'
    BY <2>1, ClockKept DEF vTaskSuspendAll
  <2>2. CASE AppResumeAll \/ DelayUntilPassed
    BY <2>2, ClockKept DEF AppResumeAll, DelayUntilPassed
  <2>3. CASE xTaskResumeAll
    BY <1>1, <2>3, ClockKept DEF xTaskResumeAll, At
  <2>4. CASE xTaskAbortDelay
    <3>1. abortee \in Task
      <4>1. /\ Runs /\ pc[pxCurrentTCB] = "abortBlocked"
        BY <2>4 DEF xTaskAbortDelay, At
      <4>2. abortee \in Waiting
        BY <1>1, <4>1 DEF IInv, Current, Waiting
      <4> QED BY <4>2 DEF IInv, Lists, ListsOK, Waiting, Blocked
    <3> QED BY <2>4, <3>1, ClockLeft DEF xTaskAbortDelay
  <2>5. ASSUME NEW t \in Task, AbortCheck(t) PROVE Clock'
    BY <2>5, ClockKept DEF AbortCheck
  <2>6. ASSUME NEW ticks \in Delays, vTaskDelay(ticks) \/ vTaskPlaceOnEventList(ticks)
        PROVE  Clock'
    <3>1. /\ Runs /\ pc[pxCurrentTCB] \in {"delay", "wait"} /\ ticks > 0
          /\ \E forever : prvAddCurrentTaskToDelayedList(ticks, forever)
          /\ UNCHANGED << xTickCount, kernel, xSchedulerRunning >>
      BY <2>6 DEF vTaskDelay, vTaskPlaceOnEventList, At
    <3>2. pxCurrentTCB \in ReadyTasks
      BY <3>1, RunningReady DEF StillReady
    <3> QED BY <1>1, <3>1, <3>2, ClockDelayed
  <2>7. ASSUME NEW ticks, xTaskCatchUpTicks(ticks) PROVE Clock'
    BY <2>7, ClockKept DEF xTaskCatchUpTicks
  <2> QED BY <1>3, <2>1, <2>2, <2>3, <2>4, <2>5, <2>6, <2>7 DEF SuspendingCall
<1>4. CASE SuspendCall
  <2>1. CASE SuspendResetsUnblockTime
    BY <2>1, ClockKept DEF SuspendResetsUnblockTime
  <2>2. ASSUME NEW t \in Task, vTaskSuspend(t) PROVE Clock'
    BY <2>2, ClockLeft DEF vTaskSuspend
  <2>3. ASSUME NEW t \in Task, vTaskResume(t) PROVE Clock'
    BY <2>3, ClockKept DEF vTaskResume
  <2> QED BY <1>4, <2>1, <2>2, <2>3 DEF SuspendCall
<1>5. CASE LifeCycleCall
  <2>1. CASE DeleteSelf
    BY <2>1, ClockKept DEF DeleteSelf
  <2>2. ASSUME NEW t \in Task, DeleteOther(t) PROVE Clock'
    BY <2>2, ClockLeft DEF DeleteOther
  <2>3. ASSUME NEW t \in Task, NEW p \in Priority, Create(t, p) PROVE Clock'
    BY <2>3, ClockKept DEF Create, AddNewTask
  <2>4. ASSUME NEW t \in Task, prvCheckTasksWaitingTermination(t) PROVE Clock'
    BY <2>4, ClockKept DEF prvCheckTasksWaitingTermination
  <2> QED BY <1>5, <2>1, <2>2, <2>3, <2>4 DEF LifeCycleCall
<1>6. CASE PriorityCall
  <2>1. PICK t \in Task, p \in Priority : vTaskPrioritySet(t, p)
    BY <1>6 DEF PriorityCall
  <2> QED BY <2>1, ClockKept DEF vTaskPrioritySet
<1>7. ASSUME NEW t \in Task, Signal(t) PROVE Clock'
  BY <1>7, ClockSignalled DEF Signal
<1> QED BY <1>2, <1>3, <1>4, <1>5, <1>6, <1>7 DEF TaskStep

\* Interrupts and the masked loops.
LEMMA ClockOtherStep ==
  ASSUME IInv, Clock, InterruptStep \/ MaskedStep
  PROVE  Clock'
<1> USE DEF lists, tcbs, clock, locals
<1>1. CASE TickISR
  <2>1. CASE Deferred
    BY <1>1, <2>1, ClockKept DEF TickISR
  <2>2. CASE ~Deferred
    <3>1. AdvanceTick /\ xSchedulerRunning /\ kernel # "wake"
          /\ UNCHANGED xSchedulerRunning
      BY <1>1, <2>2 DEF TickISR, AdvanceTick
    <3> QED BY <3>1, ClockAdvanced
  <2> QED BY <2>1, <2>2
<1>2. CASE YieldISR
  BY <1>2, ClockKept DEF YieldISR
<1>3. ASSUME NEW t \in Task, NEW yields, SignalFromISR(t, yields) PROVE Clock'
  BY <1>3, ClockSignalled DEF SignalFromISR
<1>4. ASSUME NEW t \in Task, NEW yields, xTaskResumeFromISR(t, yields) PROVE Clock'
  BY <1>4, ClockKept DEF xTaskResumeFromISR
<1>5. CASE TickEnd
  BY <1>5, ClockKept DEF TickEnd
<1>6. CASE DrainDone
  BY <1>6, ClockKept DEF DrainDone
<1>7. CASE CatchUpTick
  <2>1. AdvanceTick /\ kernel = "catchUp" /\ UNCHANGED xSchedulerRunning
    BY <1>7 DEF CatchUpTick, AdvanceTick
  <2>2. xSchedulerRunning
    BY <2>1 DEF IInv, Control
  <2> QED BY <2>1, <2>2, ClockAdvanced
<1>8. CASE CatchUpDone
  BY <1>8, ClockKept DEF CatchUpDone
<1>9. ASSUME NEW t \in Task, WakeDue(t) PROVE Clock'
  BY <1>9, ClockLeft DEF WakeDue
<1>10. ASSUME NEW t \in Task, DrainPendingReady(t) PROVE Clock'
  BY <1>10, ClockLeft DEF DrainPendingReady
<1> QED BY <1>1, <1>2, <1>3, <1>4, <1>5, <1>6, <1>7, <1>8, <1>9, <1>10, ClockWakeDone
        DEF InterruptStep, MaskedStep

\* The scheduler starts with no task delayed.
LEMMA ClockBoot ==
  ASSUME IInv, Clock, Boot
  PROVE  Clock'
<1>1. /\ ~xSchedulerRunning
      /\ UNCHANGED << pxDelayedTaskList, pxOverflowDelayedTaskList >>
  BY DEF Boot, vTaskStartScheduler, MainCreate, AddNewTask
<1>2. Blocked' = {} /\ pxDelayedTaskList' = {} /\ pxOverflowDelayedTaskList' = {}
  BY <1>1 DEF Clock, Blocked
<1> QED BY <1>2 DEF Clock, UnblockTimeSound, WakeTimesSound, NoLateWakeUp, NotOverdue

\* In every state the times of the delayed tasks are in order.
LEMMA ClockInvariant == Spec => []Clock
<1>1. Init => Clock
  BY DEF Init, Blocked, Clock, UnblockTimeSound, WakeTimesSound, NoLateWakeUp,
         NotOverdue
<1>2. ASSUME IInv, Clock, [Next]_vars PROVE Clock'
  <2>1. CASE UNCHANGED vars
    BY <1>2, <2>1, ClockKept DEF vars, lists, tcbs, clock, locals
  <2> QED BY <1>2, <2>1, ClockBoot, ClockTaskStep, ClockOtherStep DEF Next
<1> QED BY <1>1, <1>2, SchedulerInvariant, PTL DEF Spec

\* From its call to the tick that ends it a delayed task is in the right list at
\* the right value and is looked at in time, across wraps of the tick count,
\* catch-ups, aborts and suspensions; taskSWITCH_DELAYED_LISTS finds the list
\* that it replaces empty.
THEOREM DelaysOnTime == Spec => []ClockSound
<1>1. ASSUME IInv, Clock PROVE ClockSound
  <2>1. SUFFICES ASSUME xTickCount = portMAX_DELAY, kernel # "wake",
                        NEW t \in pxDelayedTaskList
                 PROVE  FALSE
    BY <1>1 DEF Clock, ClockSound, SwitchedListEmpty
  <2>2. /\ xItemValue[t] = xTickCount + toGo[t] /\ toGo[t] > 0
        /\ toGo[t] \in Int /\ xItemValue[t] \in Nat /\ xItemValue[t] < TickMod
        /\ TickMod \in Nat
    BY <1>1, <2>1, ClockTypes, SchedulerAssumption
       DEF Clock, WakeTimesSound, NoLateWakeUp, Blocked, TickType
  <2> QED BY <2>1, <2>2 DEF portMAX_DELAY
<1> QED BY <1>1, ClockInvariant, SchedulerInvariant, PTL

\* xTaskIncrementTick takes a task off the delayed list only at the tick that
\* ends its delay.
THEOREM DelaysRunOut == Spec => TickNeverWakesEarly
<1>1. ASSUME IInv, Clock, Next, kernel = "wake",
             NEW t \in Blocked, t \notin Blocked'
      PROVE  toGo[t] = 0
  <2>1. xSchedulerRunning
    BY <1>1 DEF IInv, Control
  <2>2. ~Boot /\ ~InterruptStep
    BY <1>1, <2>1
       DEF Boot, vTaskStartScheduler, MainCreate, InterruptStep, TickISR, YieldISR,
           SignalFromISR, xTaskResumeFromISR
  <2>3. ~TaskStep
    <3>1. ASSUME TaskStep PROVE Runs
      BY <3>1 DEF TaskStep, Yield, YieldWithinAPI, IdleYield, SuspendingCall,
        SuspendCall, LifeCycleCall, PriorityCall, Signal, vTaskSuspendAll, AppResumeAll,
        DelayUntilPassed, xTaskAbortDelay, xTaskResumeAll, AbortCheck, vTaskDelay,
        vTaskPlaceOnEventList, xTaskCatchUpTicks, SuspendResetsUnblockTime,
        vTaskSuspend, vTaskResume, DeleteSelf, DeleteOther, Create,
        prvCheckTasksWaitingTermination, vTaskPrioritySet, App, At
    <3> QED BY <1>1, <3>1 DEF Runs
  <2>4. MaskedStep
    BY <1>1, <2>2, <2>3 DEF Next
  <2>5. ~WakeDone
    BY <1>1 DEF WakeDone, lists, Blocked
  <2>6. PICK u \in Task : WakeDue(u)
    BY <1>1, <2>4, <2>5 DEF MaskedStep, TickEnd, DrainDone, CatchUpTick, CatchUpDone,
                            DrainPendingReady
  <2>7. t = u /\ t \in pxDelayedTaskList /\ xItemValue[t] <= xTickCount
    BY <1>1, <2>6 DEF WakeDue, LeaveBlocked, Blocked, Due
  <2>8. xItemValue[t] = xTickCount + toGo[t] /\ toGo[t] >= 0
        /\ xTickCount \in Nat /\ toGo[t] \in Int
    BY <1>1, <2>7, ClockTypes, TickFacts DEF Clock, WakeTimesSound, NotOverdue
  <2> QED BY <2>7, <2>8
<1>2. ASSUME IInv, Clock, [Next]_vars
      PROVE  [kernel = "wake" => \A t \in Blocked : t \notin Blocked' => toGo[t] = 0]_vars
  BY <1>1, <1>2
<1> QED BY <1>2, ClockInvariant, SchedulerInvariant, PTL DEF Spec, TickNeverWakesEarly
=============================================================================
