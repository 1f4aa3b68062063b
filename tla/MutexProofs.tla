----------------------------- MODULE MutexProofs -----------------------------
(***************************************************************************)
(* Proof of the invariants of mutexes: a mutex has one holder, tasks are   *)
(* on the lists that their priorities and calls say, inheritance keeps the *)
(* base priority, and no mutex is left free while tasks wait for it.  Any  *)
(* number of mutexes, tasks and priorities, either way of selecting the    *)
(* next task, and priorities that change at any time.                      *)
(***************************************************************************)
EXTENDS Mutex, ListRingProofs

\* A value of the ready lists: the record of their priorities misses none that
\* has a task.
ListsOK(l) ==
  /\ l.ready \in [Priority -> SUBSET Task]
  /\ l.top \in SUBSET Priority
  /\ PortOptimised => \A p \in Priority : l.ready[p] # {} => p \in l.top
  /\ ~PortOptimised =>
       \E q \in Priority : /\ l.top = {q}
                           /\ \A p \in Priority : l.ready[p] # {} => p <= q

\* The ready lists hold the tasks of R, by their priorities.
Exact(ready, prio, R) ==
  \A t \in Task, p \in Priority : t \in ready[p] <=> (t \in R /\ p = prio[t])

Blocked == pxDelayed \cup xSuspended

\* Where the tasks are.
Placement ==
  /\ ListsOK(Lists)
  /\ Exact(pxReadyTasksLists, uxPriority, Task \ Blocked)
  /\ pxDelayed \cap xSuspended = {}
  /\ xSuspended \subseteq UNION {Waiters(m) : m \in Mutexes}
  /\ \A m \in Mutexes : /\ xTasksWaitingToReceive[m] \in Seq(Task)
                        /\ IsInjective(xTasksWaitingToReceive[m])
  /\ \A m \in Mutexes : \A t \in Waiters(m) : mutex[t] = m /\ t \in Blocked

\* Only a task that sleeps or waits in its call is not ready, and if the
\* running one is not a switch is on its way.
Running ==
  /\ \A t \in Blocked : t # Idle /\ pc[t] \in {"app", "take"}
  /\ yieldIrq \/ pxCurrentTCB \notin Blocked

\* Where a task is in its call of Take, and what it knows of the mutex there.
CallOK(t) ==
  /\ pc[t] = "app" <=> mutex[t] = NoMutex
  /\ t = Idle => pc[t] = "app"
  /\ pc[t] = "count" => /\ xMutexHolder[mutex[t]] = t
                        /\ mutex[t] \in Recursive
                        /\ mutex[t] \notin owned[t]
  /\ pc[t] \notin {"app", "count"} => xMutexHolder[mutex[t]] # t

\* Who has a mutex; between the take of a recursive mutex and its count the
\* call has not returned.
HolderOK(m) ==
  /\ xMutexHolder[m] = NoTask <=> uxMessagesWaiting[m] = 1
  /\ xMutexHolder[m] # Idle
  /\ \A t \in Task : m \in owned[t] => xMutexHolder[m] = t
  /\ \A t \in Task : xMutexHolder[m] = t =>
       m \in owned[t] \/ (pc[t] = "count" /\ mutex[t] = m)
  /\ m \in Recursive =>
       (uxRecursiveCallCount[m] > 0 <=> \E t \in Task : m \in owned[t])

Holding ==
  /\ \A t \in Task : CallOK(t)
  /\ \A m \in Mutexes : HolderOK(m)
  /\ \A t \in Task : uxMutexesHeld[t] = Cardinality(HeldBy(t))

\* A free mutex that tasks wait for has a ready task that will look at it
\* before it waits.
Seeks(u, m) == mutex[u] = m /\ u \notin Blocked /\ pc[u] \in {"take", "check", "expired"}

Sought ==
  \A m \in Mutexes :
    uxMessagesWaiting[m] = 1 /\ Waiters(m) # {} => \E u \in Task : Seeks(u, m)

\* The inductive invariant.
Inv == TypeOK /\ Placement /\ Running /\ Holding /\ BasePriorityKept /\ Sought
-----------------------------------------------------------------------------
\* The ready lists.

\* A priority is a natural number below a bound.
LEMMA Priorities ==
  /\ configMAX_PRIORITIES - 1 \in Nat
  /\ Priority = 0..(configMAX_PRIORITIES - 1)
  /\ \A S : S \subseteq Priority /\ S # {} =>
              Max(S) \in S /\ \A p \in S : p <= Max(S)
  /\ \A p \in Priority : Max({p}) = p
<1>1. configMAX_PRIORITIES - 1 \in Nat
  BY MutexAssumption
<1>2. Priority = 0..(configMAX_PRIORITIES - 1)
  BY DEF Priority
<1>3. \A S : S \subseteq Priority /\ S # {} =>
               Max(S) \in S /\ \A p \in S : p <= Max(S)
  BY <1>1, <1>2, MaxIsGreatest
<1>4. \A p \in Priority : Max({p}) \in {p}
  BY <1>3
<1> QED BY <1>1, <1>2, <1>3, <1>4

\* prvAddTaskToReadyList
LEMMA AddLists ==
  ASSUME NEW l, ListsOK(l), NEW t \in Task, NEW p \in Priority
  PROVE  /\ ListsOK(prvAddTaskToReadyList(l, t, p))
         /\ \A prio, R : Exact(l.ready, prio, R) /\ p = prio[t] =>
              Exact(prvAddTaskToReadyList(l, t, p).ready, prio, R \cup {t})
<1> DEFINE a == prvAddTaskToReadyList(l, t, p)
<1>1. /\ a.ready = [l.ready EXCEPT ![p] = @ \cup {t}]
      /\ a.top = taskRECORD_READY_PRIORITY(l.top, p)
  BY DEF prvAddTaskToReadyList
<1>2. l.ready \in [Priority -> SUBSET Task] /\ l.top \in SUBSET Priority
  BY DEF ListsOK
<1>3. /\ a.ready \in [Priority -> SUBSET Task]
      /\ a.ready[p] = l.ready[p] \cup {t}
      /\ \A q \in Priority : q # p => a.ready[q] = l.ready[q]
  BY <1>1, <1>2
<1> HIDE DEF a
<1>4. ListsOK(a)
  <2>1. CASE PortOptimised
    <3>1. a.top = l.top \cup {p}
      BY <1>1, <2>1 DEF taskRECORD_READY_PRIORITY
    <3> QED BY <1>2, <1>3, <2>1, <3>1 DEF ListsOK
  <2>2. CASE ~PortOptimised
    <3>1. PICK q \in Priority : /\ l.top = {q}
                                /\ \A r \in Priority : l.ready[r] # {} => r <= q
      BY <2>2 DEF ListsOK
    <3>2. Max(l.top) = q
      BY <3>1, Priorities
    <3>3. a.top = IF q < p THEN {p} ELSE l.top
      BY <1>1, <2>2, <3>2 DEF taskRECORD_READY_PRIORITY
    <3>4. \A r \in Priority : r \in Int
      BY Priorities
    <3>5. CASE q < p
      <4>1. a.top = {p} /\ \A r \in Priority : a.ready[r] # {} => r <= p
        BY <1>3, <3>1, <3>3, <3>4, <3>5
      <4> QED BY <1>3, <2>2, <4>1 DEF ListsOK
    <3>6. CASE ~(q < p)
      <4>1. a.top = {q} /\ \A r \in Priority : a.ready[r] # {} => r <= q
        BY <1>3, <3>1, <3>3, <3>4, <3>6
      <4> QED BY <1>3, <2>2, <4>1 DEF ListsOK
    <3> QED BY <3>5, <3>6
  <2> QED BY <2>1, <2>2
<1>5. ASSUME NEW prio, NEW R, Exact(l.ready, prio, R), p = prio[t]
      PROVE  Exact(a.ready, prio, R \cup {t})
  <2>1. \A u \in Task, q \in Priority : u \in l.ready[q] <=> (u \in R /\ q = prio[u])
    BY <1>5 DEF Exact
  <2> SUFFICES ASSUME NEW u \in Task, NEW q \in Priority
               PROVE  u \in a.ready[q] <=> (u \in R \cup {t} /\ q = prio[u])
    BY DEF Exact
  <2>2. CASE q = p
    BY <1>3, <1>5, <2>1, <2>2
  <2>3. CASE q # p
    BY <1>3, <1>5, <2>1, <2>3
  <2> QED BY <2>2, <2>3
<1> QED BY <1>4, <1>5 DEF a

\* uxListRemove from a ready list, and the record of a priority.
LEMMA RemoveLists ==
  ASSUME NEW l, ListsOK(l), NEW t \in Task, NEW p \in Priority, NEW bit
  PROVE  /\ bit = p => ListsOK(RemoveReady(l, t, p, bit))
         /\ bit \in Priority =>
              \A u \in Task :
                ListsOK(prvAddTaskToReadyList(RemoveReady(l, t, p, bit), u, bit))
         /\ \A prio, R : Exact(l.ready, prio, R) /\ p = prio[t] =>
              Exact(RemoveReady(l, t, p, bit).ready, prio, R \ {t})
<1> DEFINE r == RemoveReady(l, t, p, bit)
<1>1. /\ r.ready = [l.ready EXCEPT ![p] = @ \ {t}]
      /\ r.top = IF r.ready[p] = {} THEN portRESET_READY_PRIORITY(l.top, bit) ELSE l.top
  BY DEF RemoveReady
<1>2. l.ready \in [Priority -> SUBSET Task] /\ l.top \in SUBSET Priority
  BY DEF ListsOK
<1>3. /\ r.ready \in [Priority -> SUBSET Task]
      /\ r.ready[p] = l.ready[p] \ {t}
      /\ \A q \in Priority : q # p => r.ready[q] = l.ready[q]
  BY <1>1, <1>2
<1>4. /\ PortOptimised => r.top = IF r.ready[p] = {} THEN l.top \ {bit} ELSE l.top
      /\ ~PortOptimised => r.top = l.top
  BY <1>1 DEF portRESET_READY_PRIORITY
<1> HIDE DEF r
<1>5. ASSUME bit = p PROVE ListsOK(r)
  <2>1. r.top \in SUBSET Priority
    BY <1>2, <1>4, MutexAssumption
  <2>2. CASE PortOptimised
    BY <1>2, <1>3, <1>4, <1>5, <2>1, <2>2 DEF ListsOK
  <2>3. CASE ~PortOptimised
    BY <1>2, <1>3, <1>4, <2>1, <2>3 DEF ListsOK
  <2> QED BY <2>2, <2>3
<1>6. ASSUME bit \in Priority, NEW u \in Task
      PROVE  ListsOK(prvAddTaskToReadyList(r, u, bit))
  <2>1. CASE ~PortOptimised
    <3>1. r.top \in SUBSET Priority
      BY <1>2, <1>4, <2>1
    <3>2. ListsOK(r)
      BY <1>2, <1>3, <1>4, <2>1, <3>1 DEF ListsOK
    <3> QED BY <3>2, <1>6, AddLists
  <2>2. CASE PortOptimised
    <3> DEFINE a == prvAddTaskToReadyList(r, u, bit)
    <3>1. /\ a.ready = [r.ready EXCEPT ![bit] = @ \cup {u}]
          /\ a.top = r.top \cup {bit}
      BY <2>2 DEF prvAddTaskToReadyList, taskRECORD_READY_PRIORITY
    <3> HIDE DEF a
    <3>2. /\ a.ready \in [Priority -> SUBSET Task]
          /\ \A q \in Priority : q # bit => a.ready[q] = r.ready[q]
      BY <1>3, <1>6, <3>1
    <3>3. a.top \in SUBSET Priority /\ l.top \subseteq a.top
      BY <1>2, <1>4, <1>6, <2>2, <3>1
    <3>4. \A q \in Priority : l.ready[q] # {} => q \in l.top
      BY <2>2 DEF ListsOK
    <3>5. \A q \in Priority : a.ready[q] # {} => q \in a.top
      BY <1>3, <3>1, <3>2, <3>3, <3>4
    <3>6. ListsOK(a)
      BY <2>2, <3>2, <3>3, <3>5 DEF ListsOK
    <3> QED BY <3>6 DEF a
  <2> QED BY <2>1, <2>2
<1>7. ASSUME NEW prio, NEW R, Exact(l.ready, prio, R), p = prio[t]
      PROVE  Exact(r.ready, prio, R \ {t})
  BY <1>3, <1>7 DEF Exact
<1> QED BY <1>5, <1>6, <1>7 DEF r

\* Another priority for a task that is in no ready list.
LEMMA ExactElsewhere ==
  ASSUME NEW ready, NEW R, NEW prio \in [Task -> Priority], Exact(ready, prio, R),
         NEW t \in Task, t \notin R, NEW q
  PROVE  Exact(ready, [prio EXCEPT ![t] = q], R)
BY DEF Exact

\* A task changes its priority, and its list with it.
LEMMA MovedLists ==
  ASSUME ListsOK(Lists), uxPriority \in [Task -> Priority], NEW R, R \subseteq Task,
         Exact(pxReadyTasksLists, uxPriority, R),
         NEW t \in Task, NEW q \in Priority, NEW bit \in {uxPriority[t], q}
  PROVE  LET old == RemoveReady(Lists, t, uxPriority[t], bit)
             new == IF IsReady(t) THEN prvAddTaskToReadyList(old, t, q) ELSE Lists
         IN  ListsOK(new) /\ Exact(new.ready, [uxPriority EXCEPT ![t] = q], R)
<1> DEFINE p == uxPriority[t]
           prio == [uxPriority EXCEPT ![t] = q]
           old == RemoveReady(Lists, t, p, bit)
           new == IF IsReady(t) THEN prvAddTaskToReadyList(old, t, q) ELSE Lists
<1>1. p \in Priority /\ Lists.ready = pxReadyTasksLists
  BY DEF Lists
<1>2. IsReady(t) <=> t \in R
  BY <1>1 DEF IsReady, Exact
<1>3. CASE IsReady(t)
  <2>1. new = prvAddTaskToReadyList(old, t, q)
    BY <1>3
  <2>2. ListsOK(new)
    <3>1. CASE bit = p
      <4>1. ListsOK(old)
        BY <1>1, <3>1, RemoveLists
      <4> HIDE DEF old, new
      <4> QED BY <2>1, <4>1, AddLists
    <3>2. CASE bit = q
      BY <1>1, <2>1, <3>2, RemoveLists
    <3> QED BY <3>1, <3>2
  <2>3. Exact(old.ready, uxPriority, R \ {t})
    BY <1>1, RemoveLists
  <2>4. Exact(old.ready, prio, R \ {t})
    <3> HIDE DEF old
    <3> QED BY <2>3, ExactElsewhere
  <2>5. /\ new.ready = [old.ready EXCEPT ![q] = @ \cup {t}]
        /\ old.ready \in [Priority -> SUBSET Task]
    <3>1. old.ready = [pxReadyTasksLists EXCEPT ![p] = @ \ {t}]
      BY <1>1 DEF RemoveReady
    <3>2. pxReadyTasksLists \in [Priority -> SUBSET Task]
      BY <1>1 DEF ListsOK
    <3>3. new.ready = [old.ready EXCEPT ![q] = @ \cup {t}]
      <4> HIDE DEF old, new
      <4> QED BY <2>1 DEF prvAddTaskToReadyList
    <3>4. old.ready \in [Priority -> SUBSET Task]
      <4> HIDE DEF old, new
      <4> QED BY <3>1, <3>2, <1>1
    <3> QED BY <3>3, <3>4
  <2>6. prio[t] = q
    OBVIOUS
  <2>7. Exact(new.ready, prio, R)
    <3> HIDE DEF old, new, prio
    <3> QED BY <1>2, <1>3, <2>4, <2>5, <2>6 DEF Exact
  <2> QED BY <2>2, <2>7
<1>4. CASE ~IsReady(t)
  <2>1. new = Lists
    BY <1>4
  <2> HIDE DEF new
  <2> QED BY <1>1, <1>2, <1>4, <2>1, ExactElsewhere DEF new
<1> QED BY <1>3, <1>4

\* taskSELECT_HIGHEST_PRIORITY_TASK looks at a ready list.
LEMMA Selected ==
  ASSUME ListsOK(Lists), \E p \in Priority : pxReadyTasksLists[p] # {}
  PROVE  /\ SelectedPriority \in Priority
         /\ pxReadyTasksLists[SelectedPriority] # {} =>
              \A p \in Priority : pxReadyTasksLists[p] # {} => p <= SelectedPriority
         /\ ~PortOptimised =>
              /\ pxReadyTasksLists[SelectedPriority] # {}
              /\ ListsOK([ready |-> pxReadyTasksLists, top |-> {SelectedPriority}])
<1>1. /\ Lists.ready = pxReadyTasksLists /\ Lists.top = uxTopReadyPriority
  BY DEF Lists
<1>2. CASE PortOptimised
  <2>1. /\ uxTopReadyPriority \subseteq Priority
        /\ \A p \in Priority : pxReadyTasksLists[p] # {} => p \in uxTopReadyPriority
    BY <1>1, <1>2 DEF ListsOK
  <2>2. SelectedPriority = Max(uxTopReadyPriority)
    BY <1>2 DEF SelectedPriority
  <2> QED BY <1>2, <2>1, <2>2, Priorities
<1>3. CASE ~PortOptimised
  <2>1. PICK q \in Priority : /\ uxTopReadyPriority = {q}
                              /\ \A p \in Priority : pxReadyTasksLists[p] # {} => p <= q
    BY <1>1, <1>3 DEF ListsOK
  <2>2. Max(uxTopReadyPriority) = q
    BY <2>1, Priorities
  <2> DEFINE S == {p \in Priority : pxReadyTasksLists[p] # {}
                                    /\ p <= Max(uxTopReadyPriority)}
  <2>3. S # {} /\ \A p \in Priority : p \in S <=> pxReadyTasksLists[p] # {}
    BY <2>1, <2>2
  <2>4. SelectedPriority = Max(S)
    BY <1>3 DEF SelectedPriority
  <2>5. S \subseteq Priority
    OBVIOUS
  <2> HIDE DEF S
  <2>6. SelectedPriority \in S /\ \A p \in S : p <= SelectedPriority
    BY <2>3, <2>4, <2>5, Priorities
  <2>7. /\ SelectedPriority \in Priority
        /\ pxReadyTasksLists[SelectedPriority] # {}
        /\ \A p \in Priority : pxReadyTasksLists[p] # {} => p <= SelectedPriority
    BY <2>3, <2>5, <2>6
  <2>8. pxReadyTasksLists \in [Priority -> SUBSET Task]
    BY <1>1 DEF ListsOK
  <2>9. ListsOK([ready |-> pxReadyTasksLists, top |-> {SelectedPriority}])
    BY <1>3, <2>7, <2>8 DEF ListsOK
  <2> QED BY <1>3, <2>7, <2>9
<1> QED BY <1>2, <1>3
-----------------------------------------------------------------------------
\* The event lists.

\* vListInsert
LEMMA EventInsertList ==
  ASSUME eventPriority \in [Task -> Priority],
         NEW s \in Seq(Task), IsInjective(s), NEW t \in Task, t \notin ToSet(s)
  PROVE  /\ EventInsert(s, t) \in Seq(Task) /\ IsInjective(EventInsert(s, t))
         /\ ToSet(EventInsert(s, t)) = ToSet(s) \cup {t}
<1> DEFINE n == Len(s)
           lower == {i \in 1..n : eventPriority[s[i]] < eventPriority[t]}
           k == IF lower = {} THEN n + 1 ELSE Min(lower)
<1>1. n \in Nat
  OBVIOUS
<1>2. k \in Nat /\ 1 <= k /\ k <= n + 1
  <2>1. CASE lower = {}
    BY <2>1, <1>1
  <2>2. CASE lower # {}
    <3>1. lower \subseteq Nat /\ lower \subseteq 1..n
      OBVIOUS
    <3>2. Min(lower) \in lower
      <4> HIDE DEF lower
      <4> QED BY <2>2, <3>1, MinIsLeast
    <3>3. k \in 1..n
      BY <2>2, <3>1, <3>2
    <3> QED BY <3>3, <1>1
  <2> QED BY <2>1, <2>2
<1>3. EventInsert(s, t) = InsertAt(s, k, t)
  BY DEF EventInsert
<1> HIDE DEF k
<1> QED BY ONLY <1>2, <1>3, InsertElement, s \in Seq(Task), t \in Task,
                IsInjective(s), t \notin ToSet(s) DEF n

\* uxListRemove
LEMMA WithoutList ==
  ASSUME NEW s \in Seq(Task), IsInjective(s), NEW t
  PROVE  /\ Without(s, t) \in Seq(Task) /\ IsInjective(Without(s, t))
         /\ ToSet(Without(s, t)) = ToSet(s) \ {t}
         /\ t \notin ToSet(s) => Without(s, t) = s
<1>1. CASE t \in ToSet(s)
  <2>1. Without(s, t) = uxListRemove(s, t)
    BY <1>1 DEF Without, uxListRemove
  <2> QED BY <1>1, <2>1, RemoveElement
<1>2. CASE t \notin ToSet(s)
  BY <1>2 DEF Without
<1> QED BY <1>1, <1>2
-----------------------------------------------------------------------------
\* The running task.

\* Who runs, and the mutex of its call.
LEMMA Here ==
  ASSUME Inv, ~yieldIrq
  PROVE  /\ pxCurrentTCB \in Task /\ yieldIrq = FALSE
         /\ pxCurrentTCB \notin Blocked
         /\ uxPriority[pxCurrentTCB] \in Priority
         /\ pc[pxCurrentTCB] # "app" =>
              /\ m0 \in Mutexes /\ pxCurrentTCB # Idle
              /\ mutex[pxCurrentTCB] = m0
         /\ pc[pxCurrentTCB] \notin {"app", "count"} => xMutexHolder[m0] # pxCurrentTCB
<1>1. pxCurrentTCB \in Task /\ pxCurrentTCB \notin Blocked
  BY DEF Inv, TypeOK, Running
<1>2. CallOK(pxCurrentTCB) /\ mutex[pxCurrentTCB] \in Mutexes \cup {NoMutex}
  BY <1>1 DEF Inv, Holding, TypeOK
<1>3. yieldIrq = FALSE /\ uxPriority[pxCurrentTCB] \in Priority
  BY <1>1 DEF Inv, TypeOK
<1> QED BY <1>1, <1>2, <1>3 DEF CallOK, m0

\* Priorities and the tasks that are ready, in these words.
LEMMA PlacementParts ==
  ASSUME Inv
  PROVE  /\ uxPriority \in [Task -> Priority] /\ eventPriority \in [Task -> Priority]
         /\ ListsOK(Lists) /\ Exact(pxReadyTasksLists, uxPriority, Task \ Blocked)
         /\ \A t \in Task : IsReady(t) <=> t \notin Blocked
         /\ xTasksWaitingToReceive \in [Mutexes -> Seq(Task)]
         /\ \A m \in Mutexes : IsInjective(xTasksWaitingToReceive[m])
         /\ pxDelayed \subseteq Task /\ xSuspended \subseteq Task
BY DEF Inv, TypeOK, Placement, IsReady, Exact

\* The lists that an action leaves.
LEMMA ListsLeft ==
  ASSUME NEW l, ListsOK(l), SetLists(l)
  PROVE  /\ ListsOK(Lists)' /\ pxReadyTasksLists' = l.ready
         /\ pxReadyTasksLists' \in [Priority -> SUBSET Task]
         /\ uxTopReadyPriority' \in SUBSET Priority
BY DEF ListsOK, SetLists, Lists

\* What its call does to the running task does not move a task.
LEMMA CallStep ==
  ASSUME Inv, UNCHANGED << waiting, lists, uxPriority, pxCurrentTCB >>,
         yieldIrq' = yieldIrq \/ yieldIrq' = TRUE, pxCurrentTCB \notin Blocked,
         \A t \in Task \ {pxCurrentTCB} : pc'[t] = pc[t] /\ mutex'[t] = mutex[t]
  PROVE  Placement' /\ Running'
<1>1. /\ UNCHANGED << xTasksWaitingToReceive, pxDelayed, xSuspended, uxPriority,
                      pxReadyTasksLists, uxTopReadyPriority, pxCurrentTCB >>
      /\ Blocked' = Blocked /\ Lists' = Lists
      /\ \A m \in Mutexes : Waiters(m)' = Waiters(m)
  BY DEF waiting, lists, Blocked, Lists, Waiters
<1>2. Blocked \subseteq Task
  BY DEF Inv, TypeOK, Blocked
<1>3. Placement'
  BY <1>1, <1>2 DEF Inv, Placement
<1>4. Running'
  BY <1>1, <1>2 DEF Inv, Running
<1> QED BY <1>3, <1>4
-----------------------------------------------------------------------------
\* Where the tasks are after each action.

\* A task's priority changes, its ready list with it; nobody moves otherwise.
LEMMA PriorityChanges ==
  ASSUME Inv, NEW t \in Task, NEW q \in Priority, NEW bit \in {uxPriority[t], q}
  PROVE  LET old == RemoveReady(Lists, t, uxPriority[t], bit)
             new == IF IsReady(t) THEN prvAddTaskToReadyList(old, t, q) ELSE Lists
         IN  /\ ListsOK(new)
             /\ Exact(new.ready, [uxPriority EXCEPT ![t] = q], Task \ Blocked)
<1>1. Task \ Blocked \subseteq Task
  OBVIOUS
<1> DEFINE R == Task \ Blocked
<1>2. Exact(pxReadyTasksLists, uxPriority, R)
  BY PlacementParts
<1> HIDE DEF R
<1>3. ASSUME TRUE
      PROVE  LET old == RemoveReady(Lists, t, uxPriority[t], bit)
                 new == IF IsReady(t) THEN prvAddTaskToReadyList(old, t, q) ELSE Lists
             IN  ListsOK(new) /\ Exact(new.ready, [uxPriority EXCEPT ![t] = q], R)
  BY <1>1, <1>2, PlacementParts, MovedLists DEF R
<1> QED BY <1>3 DEF R

\* The lists once the holder h has inherited.
LEMMA InheritedLists ==
  ASSUME Inv, pxCurrentTCB \in Task, NEW h \in Task
  PROVE  /\ ListsOK(ListsInherited(h))
         /\ Exact(ListsInherited(h).ready,
                  IF Inherits(h, pxCurrentTCB)
                  THEN [uxPriority EXCEPT ![h] = uxPriority[pxCurrentTCB]]
                  ELSE uxPriority, Task \ Blocked)
<1>1. h # NoTask /\ uxPriority[pxCurrentTCB] \in Priority
  BY MutexAssumption, PlacementParts
<1>2. CASE Inherits(h, pxCurrentTCB)
  <2>1. ListsInherited(h) = MoveReady(h, uxPriority[h], uxPriority[pxCurrentTCB])
    BY <1>1, <1>2 DEF ListsInherited
  <2> QED BY <1>1, <1>2, <2>1, PriorityChanges DEF MoveReady
<1>3. CASE ~Inherits(h, pxCurrentTCB)
  <2>1. ListsInherited(h) = Lists
    BY <1>3 DEF ListsInherited
  <2> QED BY <1>3, <2>1, PlacementParts DEF Lists
<1> QED BY <1>2, <1>3

\* What TakeBlocks does.
LEMMA BlockFacts ==
  ASSUME Inv, TakeBlocks
  PROVE  LET c == pxCurrentTCB
             h == xMutexHolder[m0]
             p == uxPriority[c]
         IN  /\ c \in Task /\ c \notin Blocked /\ c # Idle /\ pc[c] = "check"
             /\ m0 \in Mutexes /\ mutex[c] = m0 /\ uxMessagesWaiting[m0] = 0
             /\ h \in Task /\ h # c
             /\ c \notin Waiters(m0)
             /\ uxPriority' = IF uxPriority[h] < p
                              THEN [uxPriority EXCEPT ![h] = p] ELSE uxPriority
             /\ eventPriority' = IF uxPriority[h] < p
                                 THEN [eventPriority EXCEPT ![h] = p] ELSE eventPriority
             /\ uxPriority' \in [Task -> Priority]
             /\ eventPriority' \in [Task -> Priority]
             /\ xInheritanceOccurred' =
                  [xInheritanceOccurred EXCEPT
                     ![c] = (uxPriority[h] < p \/ uxBasePriority[h] < p)]
             /\ ListsOK(Lists)' /\ Exact(pxReadyTasksLists', uxPriority', Task \ Blocked')
             /\ xTasksWaitingToReceive' =
                  [xTasksWaitingToReceive EXCEPT ![m0] = EventInsert(@, c)]
             /\ xTasksWaitingToReceive' \in [Mutexes -> Seq(Task)]
             /\ \A m \in Mutexes : IsInjective(xTasksWaitingToReceive'[m])
             /\ \A m \in Mutexes : ToSet(xTasksWaitingToReceive'[m])
                                     = IF m = m0 THEN Waiters(m) \cup {c} ELSE Waiters(m)
             /\ pxDelayed' \subseteq Task /\ xSuspended' \subseteq Task
             /\ Blocked' = Blocked \cup {c}
             /\ \/ pxDelayed' = pxDelayed \cup {c} /\ xSuspended' = xSuspended
                \/ pxDelayed' = pxDelayed /\ xSuspended' = xSuspended \cup {c}
<1> DEFINE c == pxCurrentTCB
           h == xMutexHolder[m0]
           p == uxPriority[c]
           l == ListsInherited(h)
           s == xTasksWaitingToReceive[m0]
<1>1. /\ c \in Task /\ c \notin Blocked /\ c # Idle /\ pc[c] = "check" /\ p \in Priority
      /\ m0 \in Mutexes /\ mutex[c] = m0 /\ uxMessagesWaiting[m0] = 0 /\ h # c
  <2>1. ~yieldIrq /\ pc[c] = "check" /\ uxMessagesWaiting[m0] = 0
    BY DEF TakeBlocks, At
  <2> QED BY <2>1, Here
<1>2. h \in Task
  <2>1. xMutexHolder[m0] = NoTask <=> uxMessagesWaiting[m0] = 1
    BY <1>1 DEF Inv, Holding, HolderOK
  <2>2. h \in Task \cup {NoTask}
    BY <1>1 DEF Inv, TypeOK
  <2> QED BY <1>1, <2>1, <2>2
<1>3. c \notin Waiters(m0)
  BY <1>1 DEF Inv, Placement
<1>4. h # NoTask
  BY <1>2, MutexAssumption
<1>5. /\ xTaskPriorityInherit(h) /\ vTaskPlaceOnEventList(l)
  BY DEF TakeBlocks
<1>6. /\ uxPriority' = IF uxPriority[h] < p THEN [uxPriority EXCEPT ![h] = p] ELSE uxPriority
      /\ eventPriority' = IF uxPriority[h] < p
                          THEN [eventPriority EXCEPT ![h] = p] ELSE eventPriority
      /\ xInheritanceOccurred' =
           [xInheritanceOccurred EXCEPT ![c] = (uxPriority[h] < p \/ uxBasePriority[h] < p)]
  <2>1. h # NoTask /\ Inherits(h, c) <=> uxPriority[h] < p
    BY <1>4 DEF Inherits
  <2> HIDE DEF h
  <2> QED BY <1>4, <1>5, <2>1 DEF xTaskPriorityInherit, Inherits
<1>7. /\ uxPriority' \in [Task -> Priority] /\ eventPriority' \in [Task -> Priority]
      /\ uxPriority'[c] = p
  BY <1>1, <1>2, <1>6, PlacementParts
<1>8. ListsOK(l) /\ Exact(l.ready, uxPriority', Task \ Blocked)
  BY <1>1, <1>2, <1>6, InheritedLists DEF Inherits
<1>9. /\ xTasksWaitingToReceive' =
           [xTasksWaitingToReceive EXCEPT ![m0] = EventInsert(@, c)]
      /\ SetLists(RemoveReady(l, c, p, p))
      /\ \/ pxDelayed' = pxDelayed \cup {c} /\ xSuspended' = xSuspended
         \/ pxDelayed' = pxDelayed /\ xSuspended' = xSuspended \cup {c}
  <2> HIDE DEF l
  <2> QED BY <1>5 DEF vTaskPlaceOnEventList
<1>10. Blocked' = Blocked \cup {c}
  BY <1>9 DEF Blocked
<1>11. ListsOK(Lists)' /\ Exact(pxReadyTasksLists', uxPriority', Task \ Blocked')
  <2> HIDE DEF l, p, c
  <2> DEFINE r == RemoveReady(l, c, p, p)
             R == Task \ Blocked
  <2>1. ListsOK(r)
    BY <1>1, <1>8, RemoveLists
  <2>2. Exact(r.ready, uxPriority', R \ {c})
    <3> HIDE DEF R
    <3> QED BY <1>1, <1>7, <1>8, RemoveLists DEF R
  <2>3. Task \ Blocked' = R \ {c}
    BY <1>10
  <2> HIDE DEF r, R
  <2>4. SetLists(r)
    BY <1>9 DEF r
  <2> QED BY <2>1, <2>2, <2>3, <2>4, ListsLeft
<1>12. /\ EventInsert(s, c) \in Seq(Task) /\ IsInjective(EventInsert(s, c))
       /\ ToSet(EventInsert(s, c)) = Waiters(m0) \cup {c}
  BY <1>1, <1>3, PlacementParts, EventInsertList DEF Waiters
<1>13. /\ xTasksWaitingToReceive' \in [Mutexes -> Seq(Task)]
       /\ \A m \in Mutexes : IsInjective(xTasksWaitingToReceive'[m])
       /\ \A m \in Mutexes : ToSet(xTasksWaitingToReceive'[m])
                               = IF m = m0 THEN Waiters(m) \cup {c} ELSE Waiters(m)
  <2>1. \A m \in Mutexes : xTasksWaitingToReceive'[m] =
          IF m = m0 THEN EventInsert(s, c) ELSE xTasksWaitingToReceive[m]
    BY <1>1, <1>9, PlacementParts
  <2>2. xTasksWaitingToReceive' \in [Mutexes -> Seq(Task)]
    BY <1>1, <1>9, <1>12, PlacementParts
  <2> QED BY <1>12, <2>1, <2>2, PlacementParts DEF Waiters
<1>14. pxDelayed' \subseteq Task /\ xSuspended' \subseteq Task
  BY <1>1, <1>9, PlacementParts
<1> HIDE DEF l, s
<1> QED BY <1>1, <1>2, <1>3, <1>6, <1>7, <1>9, <1>10, <1>11, <1>13, <1>14

\* The running task blocks on a mutex.
LEMMA BlockMoves ==
  ASSUME Inv, TakeBlocks
  PROVE  Placement' /\ Running'
<1> DEFINE c == pxCurrentTCB
<1>1. /\ pc' = [pc EXCEPT ![c] = "take"] /\ mutex' = mutex /\ yieldIrq' = TRUE
  BY DEF TakeBlocks, Goto
<1>2. \A m \in Mutexes : Waiters(m)' = IF m = m0 THEN Waiters(m) \cup {c} ELSE Waiters(m)
  BY BlockFacts DEF Waiters
<1>3. c \notin Blocked /\ c # Idle /\ c \in Task /\ m0 \in Mutexes /\ mutex[c] = m0
  BY BlockFacts
<1>4. /\ pxDelayed' \cap xSuspended' = {}
      /\ xSuspended' \subseteq UNION {Waiters(m)' : m \in Mutexes}
  <2>1. /\ pxDelayed \cap xSuspended = {} /\ c \notin pxDelayed /\ c \notin xSuspended
        /\ xSuspended \subseteq UNION {Waiters(m) : m \in Mutexes}
    BY <1>3 DEF Inv, Placement, Blocked
  <2>2. \/ pxDelayed' = pxDelayed \cup {c} /\ xSuspended' = xSuspended
        \/ pxDelayed' = pxDelayed /\ xSuspended' = xSuspended \cup {c}
    BY BlockFacts
  <2>3. \A m \in Mutexes : Waiters(m) \subseteq Waiters(m)'
    BY <1>2
  <2>4. c \in UNION {Waiters(m)' : m \in Mutexes}
    BY <1>2, <1>3
  <2> QED BY <2>1, <2>2, <2>3, <2>4
<1>5. \A m \in Mutexes : \A t \in Waiters(m)' : mutex'[t] = m /\ t \in Blocked'
  <2>1. Blocked' = Blocked \cup {c}
    BY BlockFacts
  <2>2. \A m \in Mutexes : \A t \in Waiters(m) : mutex[t] = m /\ t \in Blocked
    BY DEF Inv, Placement
  <2> QED BY <1>1, <1>2, <1>3, <2>1, <2>2
<1>6. Placement'
  <2>1. /\ ListsOK(Lists)' /\ Exact(pxReadyTasksLists', uxPriority', Task \ Blocked')
        /\ xTasksWaitingToReceive' \in [Mutexes -> Seq(Task)]
        /\ \A m \in Mutexes : IsInjective(xTasksWaitingToReceive'[m])
    BY BlockFacts
  <2> QED BY <1>4, <1>5, <2>1 DEF Placement
<1>7. Running'
  <2>1. /\ Blocked' = Blocked \cup {c} /\ Blocked \subseteq Task
        /\ \A t \in Task : pc'[t] = IF t = c THEN "take" ELSE pc[t]
    <3>1. Blocked' = Blocked \cup {c}
      BY BlockFacts
    <3>2. Blocked \subseteq Task
      BY PlacementParts DEF Blocked
    <3> QED BY <1>1, <3>1, <3>2 DEF Inv, TypeOK
  <2> QED BY <1>1, <1>3, <2>1 DEF Inv, Running
<1> QED BY <1>6, <1>7

\* A holder's priority is lowered after a time-out.
LEMMA DisinheritFacts ==
  ASSUME Inv, vTaskPriorityDisinheritAfterTimeout
  PROVE  LET h == xMutexHolder[m0]
             p == Max({IF h = NoTask THEN 0 ELSE uxBasePriority[h],
                       prvGetDisinheritPriorityAfterTimeout(m0)})
         IN  /\ p \in Priority
             /\ h # NoTask => p >= uxBasePriority[h]
             /\ p \in {IF h = NoTask THEN 0 ELSE uxBasePriority[h],
                       prvGetDisinheritPriorityAfterTimeout(m0)}
             /\ p >= prvGetDisinheritPriorityAfterTimeout(m0)
             /\ prvGetDisinheritPriorityAfterTimeout(m0) \in Priority
             /\ h \in Task \cup {NoTask}
             /\ uxPriority' = IF Disinherits(h, p)
                              THEN [uxPriority EXCEPT ![h] = p] ELSE uxPriority
             /\ eventPriority' = IF Disinherits(h, p)
                                 THEN [eventPriority EXCEPT ![h] = p] ELSE eventPriority
             /\ ListsOK(Lists)' /\ Exact(pxReadyTasksLists', uxPriority', Task \ Blocked)
<1> DEFINE h == xMutexHolder[m0]
           b == IF h = NoTask THEN 0 ELSE uxBasePriority[h]
           d == prvGetDisinheritPriorityAfterTimeout(m0)
           p == Max({b, d})
           q == uxPriority[h]
           old == RemoveReady(Lists, h, q, p)
           new == IF IsReady(h) THEN prvAddTaskToReadyList(old, h, p) ELSE Lists
<1>1. m0 \in Mutexes
  <2>1. ~yieldIrq /\ pc[pxCurrentTCB] = "disinherit"
    BY DEF vTaskPriorityDisinheritAfterTimeout, At
  <2> QED BY <2>1, Here
<1>2. h \in Task \cup {NoTask}
  BY <1>1 DEF Inv, TypeOK
<1>3. 0 \in Priority
  BY Priorities
<1>4. b \in Priority
  BY <1>2, <1>3, MutexAssumption DEF Inv, TypeOK
<1>5. d \in Priority
  <2>1. xTasksWaitingToReceive[m0] \in Seq(Task)
    BY <1>1, PlacementParts
  <2>2. CASE xTasksWaitingToReceive[m0] = << >>
    BY <1>3, <2>2 DEF prvGetDisinheritPriorityAfterTimeout
  <2>3. CASE xTasksWaitingToReceive[m0] # << >>
    <3>1. Head(xTasksWaitingToReceive[m0]) \in Task
      BY <2>1, <2>3
    <3> QED BY <2>3, <3>1, PlacementParts DEF prvGetDisinheritPriorityAfterTimeout
  <2> QED BY <2>2, <2>3
<1>6. p \in Priority /\ p >= b /\ p >= d /\ p \in {b, d}
  <2>1. \A x, y \in Priority : /\ Max({x, y}) \in {x, y}
                               /\ \A z \in {x, y} : z <= Max({x, y})
    BY Priorities, \A x, y \in Priority : {x, y} \subseteq Priority /\ {x, y} # {}
  <2>2. \A x \in Priority : x \in Int
    BY Priorities
  <2> HIDE DEF b, d
  <2>3. p \in {b, d} /\ b <= p /\ d <= p
    BY <1>4, <1>5, <2>1
  <2> QED BY <1>4, <1>5, <2>2, <2>3
<1>7. /\ uxPriority' = IF Disinherits(h, p) THEN [uxPriority EXCEPT ![h] = p] ELSE uxPriority
      /\ eventPriority' = IF Disinherits(h, p)
                          THEN [eventPriority EXCEPT ![h] = p] ELSE eventPriority
      /\ IF Disinherits(h, p) /\ IsReady(h)
         THEN SetLists(prvAddTaskToReadyList(old, h, p)) ELSE UNCHANGED lists
  BY DEF vTaskPriorityDisinheritAfterTimeout
<1>8. ListsOK(Lists)' /\ Exact(pxReadyTasksLists', uxPriority', Task \ Blocked)
  <2>1. CASE Disinherits(h, p)
    <3>1. h \in Task
      BY <1>2, <2>1 DEF Disinherits
    <3>2. ListsOK(new) /\ Exact(new.ready, [uxPriority EXCEPT ![h] = p], Task \ Blocked)
      <4> HIDE DEF h, p
      <4> QED BY <1>6, <3>1, PriorityChanges
    <3>3. SetLists(new)
      <4>1. CASE IsReady(h)
        BY <1>7, <2>1, <4>1
      <4>2. CASE ~IsReady(h)
        BY <1>7, <2>1, <4>2 DEF SetLists, Lists, lists
      <4> QED BY <4>1, <4>2
    <3>4. uxPriority' = [uxPriority EXCEPT ![h] = p]
      BY <1>7, <2>1
    <3> HIDE DEF new, p, h
    <3> QED BY <3>2, <3>3, <3>4, ListsLeft
  <2>2. CASE ~Disinherits(h, p)
    <3>1. UNCHANGED << pxReadyTasksLists, uxTopReadyPriority, uxPriority >>
      BY <1>7, <2>2 DEF lists
    <3> QED BY <3>1, PlacementParts DEF Lists
  <2> QED BY <2>1, <2>2
<1> HIDE DEF d, p
<1> QED BY <1>2, <1>5, <1>6, <1>7, <1>8 DEF d, p

\* An action that changes priorities and the ready lists only.
LEMMA PriorityMoves ==
  ASSUME Inv, UNCHANGED << waiting, pxCurrentTCB >>,
         ListsOK(Lists)', Exact(pxReadyTasksLists', uxPriority', Task \ Blocked),
         pxCurrentTCB \notin Blocked,
         \A t \in Task \ {pxCurrentTCB} : pc'[t] = pc[t] /\ mutex'[t] = mutex[t]
  PROVE  Placement' /\ Running'
<1>1. /\ UNCHANGED << xTasksWaitingToReceive, pxDelayed, xSuspended, pxCurrentTCB >>
      /\ Blocked' = Blocked
      /\ \A m \in Mutexes : Waiters(m)' = Waiters(m)
  BY DEF waiting, Blocked, Waiters
<1>2. Blocked \subseteq Task
  BY DEF Inv, TypeOK, Blocked
<1>3. Placement'
  BY <1>1, <1>2 DEF Inv, Placement
<1>4. Running'
  BY <1>1, <1>2 DEF Inv, Running
<1> QED BY <1>3, <1>4

\* A holder gives back what it inherited after a time-out.
LEMMA DisinheritMoves ==
  ASSUME Inv, vTaskPriorityDisinheritAfterTimeout
  PROVE  Placement' /\ Running'
<1>1. At("disinherit") /\ UNCHANGED << waiting, pxCurrentTCB >> /\ ReturnFromTake
  BY DEF vTaskPriorityDisinheritAfterTimeout
<1>2. pxCurrentTCB \notin Blocked
  BY <1>1, Here DEF At
<1>3. \A t \in Task \ {pxCurrentTCB} : pc'[t] = pc[t] /\ mutex'[t] = mutex[t]
  BY <1>1 DEF ReturnFromTake, Goto, Inv, TypeOK
<1>4. ListsOK(Lists)' /\ Exact(pxReadyTasksLists', uxPriority', Task \ Blocked)
  BY DisinheritFacts
<1> QED BY <1>1, <1>2, <1>3, <1>4, PriorityMoves

\* What setting a priority may do.
LEMMA PrioritySetFacts ==
  ASSUME Inv, NEW t \in Task, NEW p \in NewPriorities, vTaskPrioritySet(t, p)
  PROVE  LET q == IF Follows(t, p) THEN p ELSE uxPriority[t]
         IN  /\ p \in Priority /\ q \in Priority
             /\ uxPriority' = [uxPriority EXCEPT ![t] = q]
             /\ uxBasePriority' = [uxBasePriority EXCEPT ![t] = p]
             /\ eventPriority' = [eventPriority EXCEPT ![t] = p]
             /\ ListsOK(Lists)' /\ Exact(pxReadyTasksLists', uxPriority', Task \ Blocked)
<1> DEFINE q == IF Follows(t, p) THEN p ELSE uxPriority[t]
<1>1. p \in Priority /\ q \in Priority
  BY MutexAssumption, PlacementParts
<1>2. /\ uxPriority' = [uxPriority EXCEPT ![t] = q]
      /\ uxBasePriority' = [uxBasePriority EXCEPT ![t] = p]
      /\ eventPriority' = [eventPriority EXCEPT ![t] = p]
      /\ SetLists(MoveReady(t, uxPriority[t], q))
  BY DEF vTaskPrioritySet
<1> HIDE DEF q
<1>3. ListsOK(MoveReady(t, uxPriority[t], q))
      /\ Exact(MoveReady(t, uxPriority[t], q).ready, [uxPriority EXCEPT ![t] = q],
               Task \ Blocked)
  BY <1>1, PriorityChanges DEF MoveReady
<1>4. ListsOK(Lists)' /\ Exact(pxReadyTasksLists', uxPriority', Task \ Blocked)
  BY <1>2, <1>3, ListsLeft
<1> QED BY <1>1, <1>2, <1>4 DEF q

\* A set priority moves one ready task.
LEMMA PrioritySetMoves ==
  ASSUME Inv, NEW t \in Task, NEW p \in NewPriorities, vTaskPrioritySet(t, p)
  PROVE  Placement' /\ Running'
<1>1. At("app") /\ UNCHANGED << waiting, pxCurrentTCB, pc, mutex >>
  BY DEF vTaskPrioritySet, call
<1>2. pxCurrentTCB \notin Blocked
  BY <1>1, Here DEF At
<1>3. ListsOK(Lists)' /\ Exact(pxReadyTasksLists', uxPriority', Task \ Blocked)
  BY PrioritySetFacts
<1> QED BY <1>1, <1>2, <1>3, PriorityMoves

\* What the last give of a mutex does.
LEMMA GiveFacts ==
  ASSUME Inv, NEW m \in Mutexes, xQueueSemaphoreGive(m)
  PROVE  LET c == pxCurrentTCB
             p == IF LowersOnGive(c) THEN uxBasePriority[c] ELSE uxPriority[c]
             first == Head(xTasksWaitingToReceive[m])
         IN  /\ c \in Task /\ c \notin Blocked /\ pc[c] = "app" /\ yieldIrq = FALSE
             /\ p \in Priority
             /\ uxPriority' = [uxPriority EXCEPT ![c] = p]
             /\ uxPriority' \in [Task -> Priority]
             /\ eventPriority' \in [Task -> Priority]
             /\ ListsOK(Lists)' /\ Exact(pxReadyTasksLists', uxPriority', Task \ Blocked')
             /\ xTasksWaitingToReceive' \in [Mutexes -> Seq(Task)]
             /\ \A n \in Mutexes : IsInjective(xTasksWaitingToReceive'[n])
             /\ \/ /\ xTasksWaitingToReceive[m] = << >>
                   /\ UNCHANGED waiting
                   /\ yieldIrq' = LowersOnGive(c)
                \/ /\ xTasksWaitingToReceive[m] # << >>
                   /\ first \in Waiters(m) /\ first \in Blocked /\ first # c
                   /\ xTasksWaitingToReceive' =
                        [xTasksWaitingToReceive EXCEPT ![m] = Tail(@)]
                   /\ \A n \in Mutexes : ToSet(xTasksWaitingToReceive'[n])
                                           = Waiters(n) \ {first}
                   /\ pxDelayed' = pxDelayed \ {first}
                   /\ xSuspended' = xSuspended \ {first}
                   /\ Blocked' = Blocked \ {first}
                   /\ yieldIrq' = (uxPriority[first] > p)
<1> DEFINE c == pxCurrentTCB
           lowers == LowersOnGive(c)
           p == IF lowers THEN uxBasePriority[c] ELSE uxPriority[c]
           l == IF lowers THEN MoveReady(c, uxPriority[c], p) ELSE Lists
           first == Head(xTasksWaitingToReceive[m])
           prio == [uxPriority EXCEPT ![c] = p]
           a == prvAddTaskToReadyList(l, first, uxPriority[first])
<1>1. /\ c \in Task /\ c \notin Blocked /\ pc[c] = "app" /\ yieldIrq = FALSE
  <2>1. ~yieldIrq /\ pc[c] = "app"
    BY DEF xQueueSemaphoreGive, At
  <2> QED BY <2>1, Here
<1>2. p \in Priority /\ prio \in [Task -> Priority]
  BY <1>1 DEF Inv, TypeOK
<1>3. /\ uxPriority' = prio
      /\ eventPriority' = IF lowers THEN [eventPriority EXCEPT ![c] = p] ELSE eventPriority
      /\ IF SomeoneWaits(m)
         THEN FirstLeaves(m) /\ SetLists(a) /\ yieldIrq' = (uxPriority[first] > p)
         ELSE SetLists(l) /\ yieldIrq' = lowers /\ UNCHANGED waiting
  BY DEF xQueueSemaphoreGive
<1>4. eventPriority' \in [Task -> Priority]
  BY <1>1, <1>2, <1>3, PlacementParts
<1>5. ListsOK(l) /\ Exact(l.ready, prio, Task \ Blocked)
  <2>1. CASE lowers
    <3> HIDE DEF p, c
    <3> QED BY <1>1, <1>2, <2>1, PriorityChanges DEF MoveReady
  <2>2. CASE ~lowers
    <3>1. prio = uxPriority /\ l = Lists
      BY <1>1, <2>2, PlacementParts
    <3> HIDE DEF prio, l
    <3> QED BY <3>1, PlacementParts DEF Lists
  <2> QED BY <2>1, <2>2
<1>6. CASE xTasksWaitingToReceive[m] = << >>
  <2>1. SetLists(l) /\ yieldIrq' = lowers /\ UNCHANGED waiting
    BY <1>3, <1>6 DEF SomeoneWaits
  <2>2. UNCHANGED << xTasksWaitingToReceive, pxDelayed, xSuspended >> /\ Blocked' = Blocked
    BY <2>1 DEF waiting, Blocked
  <2>3. /\ ListsOK(Lists)' /\ Exact(pxReadyTasksLists', uxPriority', Task \ Blocked')
        /\ uxPriority' \in [Task -> Priority]
    <3> HIDE DEF l, prio
    <3> QED BY <1>2, <1>3, <1>5, <2>1, <2>2, ListsLeft
  <2>4. /\ xTasksWaitingToReceive' \in [Mutexes -> Seq(Task)]
        /\ \A n \in Mutexes : IsInjective(xTasksWaitingToReceive'[n])
    BY <2>2, PlacementParts
  <2> QED BY <1>1, <1>2, <1>3, <1>4, <1>6, <2>1, <2>3, <2>4
<1>7. CASE xTasksWaitingToReceive[m] # << >>
  <2>1. FirstLeaves(m) /\ SetLists(a) /\ yieldIrq' = (uxPriority[first] > p)
    BY <1>3, <1>7 DEF SomeoneWaits
  <2>2. /\ xTasksWaitingToReceive' = [xTasksWaitingToReceive EXCEPT ![m] = Tail(@)]
        /\ pxDelayed' = pxDelayed \ {first} /\ xSuspended' = xSuspended \ {first}
    BY <2>1 DEF FirstLeaves
  <2>3. /\ Tail(xTasksWaitingToReceive[m]) \in Seq(Task)
        /\ IsInjective(Tail(xTasksWaitingToReceive[m]))
        /\ first \in Waiters(m)
        /\ ToSet(Tail(xTasksWaitingToReceive[m])) = Waiters(m) \ {first}
    BY <1>7, PlacementParts, DropHead DEF Waiters
  <2>4. /\ first \in Blocked /\ first # c /\ first \in Task
        /\ \A n \in Mutexes : n # m => first \notin Waiters(n)
    <3>1. \A n \in Mutexes : \A t \in Waiters(n) : mutex[t] = n /\ t \in Blocked
      BY DEF Inv, Placement
    <3>2. Blocked \subseteq Task
      BY PlacementParts DEF Blocked
    <3> HIDE DEF first, c
    <3> QED BY <1>1, <2>3, <3>1, <3>2
  <2>5. Blocked' = Blocked \ {first}
    BY <2>2 DEF Blocked
  <2>6. /\ xTasksWaitingToReceive' \in [Mutexes -> Seq(Task)]
        /\ \A n \in Mutexes : IsInjective(xTasksWaitingToReceive'[n])
        /\ \A n \in Mutexes : ToSet(xTasksWaitingToReceive'[n]) = Waiters(n) \ {first}
    <3>1. \A n \in Mutexes : xTasksWaitingToReceive'[n]
            = IF n = m THEN Tail(xTasksWaitingToReceive[m]) ELSE xTasksWaitingToReceive[n]
      BY <2>2, PlacementParts
    <3>2. xTasksWaitingToReceive' \in [Mutexes -> Seq(Task)]
      BY <2>2, <2>3, PlacementParts
    <3> HIDE DEF first
    <3>3. \A n \in Mutexes : ToSet(xTasksWaitingToReceive'[n]) = Waiters(n) \ {first}
      BY <2>3, <2>4, <3>1 DEF Waiters
    <3> QED BY <2>3, <3>1, <3>2, <3>3, PlacementParts
  <2>7. ListsOK(a) /\ Exact(a.ready, prio, (Task \ Blocked) \cup {first})
    <3>1. uxPriority[first] \in Priority /\ uxPriority[first] = prio[first]
      BY <1>1, <2>4, PlacementParts
    <3> HIDE DEF l, prio, first
    <3> DEFINE q == uxPriority[first]
    <3>2. q \in Priority /\ q = prio[first] /\ a = prvAddTaskToReadyList(l, first, q)
      BY <3>1
    <3> HIDE DEF q, a
    <3> QED BY <1>5, <2>4, <3>2, AddLists
  <2>8. (Task \ Blocked) \cup {first} = Task \ Blocked'
    BY <2>4, <2>5
  <2>9. /\ ListsOK(Lists)' /\ Exact(pxReadyTasksLists', uxPriority', Task \ Blocked')
        /\ uxPriority' \in [Task -> Priority]
    <3> HIDE DEF a, prio, first
    <3> QED BY <1>2, <1>3, <2>1, <2>7, <2>8, ListsLeft
  <2> HIDE DEF first, p, lowers
  <2> QED BY <1>1, <1>2, <1>3, <1>4, <1>7, <2>1, <2>2, <2>3, <2>4, <2>5, <2>6, <2>9
             DEF first, p, lowers
<1> QED BY <1>6, <1>7

\* A give moves the giver and readies at most one waiter.
LEMMA GiveMoves ==
  ASSUME Inv, NEW m \in Mutexes, xQueueSemaphoreGive(m)
  PROVE  Placement' /\ Running'
<1> DEFINE first == Head(xTasksWaitingToReceive[m])
<1>1. UNCHANGED << pxCurrentTCB, pc, mutex >>
  BY DEF xQueueSemaphoreGive, call
<1>2. /\ pxCurrentTCB \notin Blocked
      /\ ListsOK(Lists)' /\ Exact(pxReadyTasksLists', uxPriority', Task \ Blocked')
  BY GiveFacts
<1>3. CASE xTasksWaitingToReceive[m] = << >>
  <2>1. UNCHANGED waiting
    BY <1>3, GiveFacts
  <2>2. Blocked' = Blocked
    BY <2>1 DEF waiting, Blocked
  <2> QED BY <1>1, <1>2, <2>1, <2>2, PriorityMoves
<1>4. CASE xTasksWaitingToReceive[m] # << >>
  <2>1. /\ xTasksWaitingToReceive' \in [Mutexes -> Seq(Task)]
        /\ \A n \in Mutexes : IsInjective(xTasksWaitingToReceive'[n])
        /\ \A n \in Mutexes : Waiters(n)' = Waiters(n) \ {first}
        /\ pxDelayed' = pxDelayed \ {first} /\ xSuspended' = xSuspended \ {first}
        /\ Blocked' = Blocked \ {first}
    BY <1>4, GiveFacts DEF Waiters
  <2> HIDE DEF first
  <2>2. Placement'
    BY <1>1, <1>2, <2>1 DEF Inv, Placement
  <2>3. Running'
    BY <1>1, <1>2, <2>1 DEF Inv, Running
  <2> QED BY <2>2, <2>3
<1> QED BY <1>3, <1>4

\* The running task delays itself.
LEMMA DelayMoves ==
  ASSUME Inv, vTaskDelay
  PROVE  Placement' /\ Running'
<1> DEFINE c == pxCurrentTCB
           p == uxPriority[c]
<1>1. /\ c \in Task /\ c \notin Blocked /\ pc[c] = "app" /\ c # Idle /\ p \in Priority
  <2>1. ~yieldIrq /\ pc[c] = "app" /\ c # Idle
    BY DEF vTaskDelay, At
  <2> QED BY <2>1, Here
<1>2. /\ SetLists(RemoveReady(Lists, c, p, p)) /\ pxDelayed' = pxDelayed \cup {c}
      /\ UNCHANGED << xTasksWaitingToReceive, xSuspended, uxPriority, pxCurrentTCB, pc, mutex >>
      /\ yieldIrq' = TRUE
  BY DEF vTaskDelay, call, priorities
<1>3. Blocked' = Blocked \cup {c}
  BY <1>2 DEF Blocked
<1>4. ListsOK(Lists)' /\ Exact(pxReadyTasksLists', uxPriority', Task \ Blocked')
  <2> DEFINE R == Task \ Blocked
             l == Lists
             r == RemoveReady(l, c, p, p)
  <2>1. ListsOK(l) /\ Exact(l.ready, uxPriority, R)
    BY PlacementParts DEF Lists
  <2> HIDE DEF l, R, c, p
  <2>2. ListsOK(r) /\ Exact(r.ready, uxPriority, R \ {c})
    BY <1>1, <2>1, RemoveLists DEF p
  <2>3. SetLists(r) /\ Task \ Blocked' = R \ {c}
    BY <1>2, <1>3 DEF l, R
  <2> HIDE DEF r
  <2> QED BY <1>2, <2>2, <2>3, ListsLeft
<1>5. \A m \in Mutexes : Waiters(m)' = Waiters(m) /\ c \notin Waiters(m)
  BY <1>1, <1>2 DEF Waiters, Inv, Placement
<1>6. Placement'
  <2>1. pxDelayed' \cap xSuspended' = {}
    BY <1>1, <1>2 DEF Inv, Placement, Blocked
  <2>2. \A m \in Mutexes : \A t \in Waiters(m)' : mutex'[t] = m /\ t \in Blocked'
    BY <1>2, <1>3, <1>5 DEF Inv, Placement
  <2>3. xSuspended' \subseteq UNION {Waiters(m)' : m \in Mutexes}
    BY <1>2, <1>5 DEF Inv, Placement
  <2> QED BY <1>2, <1>4, <2>1, <2>2, <2>3 DEF Inv, Placement
<1>7. Running'
  BY <1>1, <1>2, <1>3 DEF Inv, Running
<1> QED BY <1>6, <1>7

\* What the end of a delay or a block time does.
LEMMA WakeFacts ==
  ASSUME Inv, NEW t \in Task, TickWakes(t)
  PROVE  /\ t \in Blocked /\ t \notin xSuspended
         /\ xTasksWaitingToReceive' \in [Mutexes -> Seq(Task)]
         /\ \A m \in Mutexes : IsInjective(xTasksWaitingToReceive'[m])
         /\ \A m \in Mutexes : ToSet(xTasksWaitingToReceive'[m]) = Waiters(m) \ {t}
         /\ pxDelayed' = pxDelayed \ {t} /\ xSuspended' = xSuspended
         /\ Blocked' = Blocked \ {t}
         /\ ListsOK(Lists)' /\ Exact(pxReadyTasksLists', uxPriority', Task \ Blocked')
<1>1. t \in pxDelayed /\ t \in Blocked /\ t \notin xSuspended
  BY DEF TickWakes, Blocked, Inv, Placement
<1>2. /\ pxDelayed' = pxDelayed \ {t} /\ xSuspended' = xSuspended
      /\ xTasksWaitingToReceive' =
           [m \in Mutexes |-> Without(xTasksWaitingToReceive[m], t)]
      /\ SetLists(prvAddTaskToReadyList(Lists, t, uxPriority[t]))
      /\ uxPriority' = uxPriority
  BY DEF TickWakes, priorities
<1>3. Blocked' = Blocked \ {t}
  BY <1>1, <1>2 DEF Blocked
<1>4. \A m \in Mutexes :
        LET w == Without(xTasksWaitingToReceive[m], t)
        IN  w \in Seq(Task) /\ IsInjective(w) /\ ToSet(w) = Waiters(m) \ {t}
  BY PlacementParts, WithoutList DEF Waiters
<1>5. /\ xTasksWaitingToReceive' \in [Mutexes -> Seq(Task)]
      /\ \A m \in Mutexes : IsInjective(xTasksWaitingToReceive'[m])
      /\ \A m \in Mutexes : ToSet(xTasksWaitingToReceive'[m]) = Waiters(m) \ {t}
  BY <1>2, <1>4
<1>6. ListsOK(Lists)' /\ Exact(pxReadyTasksLists', uxPriority', Task \ Blocked')
  <2> DEFINE R == Task \ Blocked
             l == Lists
             p == uxPriority[t]
             a == prvAddTaskToReadyList(l, t, p)
  <2>1. ListsOK(l) /\ Exact(l.ready, uxPriority, R) /\ p \in Priority /\ p = uxPriority[t]
    BY PlacementParts DEF Lists
  <2> HIDE DEF l, R, p
  <2>2. ListsOK(a) /\ Exact(a.ready, uxPriority, R \cup {t})
    BY <2>1, AddLists
  <2>3. SetLists(a) /\ Task \ Blocked' = R \cup {t}
    BY <1>1, <1>2, <1>3 DEF l, R, p
  <2> HIDE DEF a
  <2> QED BY <1>2, <2>2, <2>3, ListsLeft
<1> QED BY <1>1, <1>2, <1>3, <1>5, <1>6

\* A tick readies one delayed task.
LEMMA WakeMoves ==
  ASSUME Inv, NEW t \in Task, TickWakes(t)
  PROVE  Placement' /\ Running'
<1>1. UNCHANGED << pxCurrentTCB, pc, mutex >> /\ (yieldIrq => yieldIrq')
  BY DEF TickWakes
<1>2. \A m \in Mutexes : Waiters(m)' = Waiters(m) \ {t}
  BY WakeFacts DEF Waiters
<1>3. Placement'
  <2>1. xSuspended' \subseteq UNION {Waiters(m)' : m \in Mutexes}
    <3>1. xSuspended \subseteq UNION {Waiters(m) : m \in Mutexes} /\ t \notin xSuspended
          /\ xSuspended' = xSuspended
      BY WakeFacts DEF Inv, Placement
    <3> QED BY <1>2, <3>1
  <2>2. \A m \in Mutexes : \A u \in Waiters(m)' : mutex'[u] = m /\ u \in Blocked'
    BY <1>1, <1>2, WakeFacts DEF Inv, Placement
  <2>3. pxDelayed' \cap xSuspended' = {}
    BY WakeFacts DEF Inv, Placement
  <2> QED BY <2>1, <2>2, <2>3, WakeFacts DEF Placement
<1>4. Running'
  BY <1>1, WakeFacts DEF Inv, Running
<1> QED BY <1>3, <1>4

\* A switch moves nobody.
LEMMA SwitchMoves ==
  ASSUME Inv, NEW t \in Task, vTaskSwitchContext(t)
  PROVE  Placement' /\ Running'
<1>1. /\ t \in pxReadyTasksLists[SelectedPriority] /\ pxCurrentTCB' = t
      /\ uxTopReadyPriority' = IF PortOptimised THEN uxTopReadyPriority
                               ELSE {SelectedPriority}
      /\ UNCHANGED << waiting, uxPriority, pxReadyTasksLists, pc, mutex >>
  BY DEF vTaskSwitchContext, priorities, call
<1>2. Idle \in Task /\ Idle \notin Blocked
  BY MutexAssumption DEF Inv, Running
<1>3. uxPriority[Idle] \in Priority /\ pxReadyTasksLists[uxPriority[Idle]] # {}
  BY <1>2, PlacementParts DEF Exact
<1>4. /\ SelectedPriority \in Priority
      /\ ~PortOptimised => ListsOK([ready |-> pxReadyTasksLists, top |-> {SelectedPriority}])
  BY <1>3, PlacementParts, Selected
<1>5. t \notin Blocked
  BY <1>1, <1>4, PlacementParts DEF Exact
<1>6. ListsOK(Lists)'
  <2>1. CASE PortOptimised
    BY <1>1, <2>1, PlacementParts DEF Lists
  <2>2. CASE ~PortOptimised
    BY <1>1, <1>4, <2>2 DEF Lists
  <2> QED BY <2>1, <2>2
<1>7. /\ UNCHANGED << xTasksWaitingToReceive, pxDelayed, xSuspended >>
      /\ Blocked' = Blocked /\ \A m \in Mutexes : Waiters(m)' = Waiters(m)
  BY <1>1 DEF waiting, Blocked, Waiters
<1>8. Placement'
  BY <1>1, <1>6, <1>7 DEF Inv, Placement
<1>9. Running'
  BY <1>1, <1>5, <1>7 DEF Inv, Running
<1> QED BY <1>8, <1>9

\* An action that reads or writes no more than the call of the running task.
Quiet ==
  \/ \E m \in Mutexes : TakeAgain(m) \/ GiveOnce(m)
  \/ \E m \in Mutexes, ticks \in BlockTimes : xQueueSemaphoreTake(m, ticks)
  \/ TakeSucceeds \/ CountTake \/ TakeFails \/ TakeRetries \/ TakeExpires
  \/ AfterTimeOut \/ TickTimeSlice

\* What the quiet actions have in common.
LEMMA QuietFacts ==
  ASSUME Inv, Quiet
  PROVE  /\ UNCHANGED << waiting, lists, priorities, pxCurrentTCB >>
         /\ yieldIrq' = yieldIrq \/ yieldIrq' = TRUE
         /\ ~yieldIrq /\ pxCurrentTCB \notin Blocked /\ pxCurrentTCB \in Task
         /\ \A t \in Task \ {pxCurrentTCB} : pc'[t] = pc[t] /\ mutex'[t] = mutex[t]
<1>1. UNCHANGED << waiting, lists, priorities, pxCurrentTCB >>
  BY DEF Quiet, TakeAgain, GiveOnce, xQueueSemaphoreTake, TakeSucceeds, CountTake,
         TakeFails, TakeRetries, TakeExpires, AfterTimeOut, TickTimeSlice
<1>2. (yieldIrq' = yieldIrq \/ yieldIrq' = TRUE) /\ ~yieldIrq
  BY DEF Quiet, TakeAgain, GiveOnce, xQueueSemaphoreTake, TakeSucceeds, CountTake,
         TakeFails, TakeRetries, TakeExpires, AfterTimeOut, TickTimeSlice, At
<1>3. pxCurrentTCB \notin Blocked /\ pxCurrentTCB \in Task
  BY <1>2, Here
<1>4. \/ mutex' = mutex
      \/ \E m : mutex' = [mutex EXCEPT ![pxCurrentTCB] = m]
  BY DEF Quiet, TakeAgain, GiveOnce, xQueueSemaphoreTake, TakeSucceeds, CountTake,
         TakeFails, TakeRetries, TakeExpires, AfterTimeOut, TickTimeSlice,
         ReturnFromTake, call
<1>5. \/ pc' = pc
      \/ \E label : pc' = [pc EXCEPT ![pxCurrentTCB] = label]
  BY DEF Quiet, TakeAgain, GiveOnce, xQueueSemaphoreTake, TakeSucceeds, CountTake,
         TakeFails, TakeRetries, TakeExpires, AfterTimeOut, TickTimeSlice,
         ReturnFromTake, Goto, call
<1>6. \A t \in Task \ {pxCurrentTCB} : pc'[t] = pc[t] /\ mutex'[t] = mutex[t]
  BY <1>4, <1>5 DEF Inv, TypeOK
<1> QED BY <1>1, <1>2, <1>3, <1>6

\* Next is a quiet action or one of the others.
LEMMA Actions ==
  ASSUME Next
  PROVE  \/ Quiet \/ TakeBlocks \/ vTaskPriorityDisinheritAfterTimeout \/ vTaskDelay
         \/ \E m \in Mutexes : xQueueSemaphoreGive(m)
         \/ \E t \in Task, p \in NewPriorities : t # Idle /\ vTaskPrioritySet(t, p)
         \/ \E t \in Task : TickWakes(t) \/ vTaskSwitchContext(t)
BY DEF Next, TakeStep, GiveStep, Quiet

\* Every step is one of these moves.
LEMMA MovesNext ==
  ASSUME Inv, Next
  PROVE  Placement' /\ Running'
<1>1. CASE Quiet
  <2>1. UNCHANGED << waiting, lists, uxPriority, pxCurrentTCB >>
    BY <1>1, QuietFacts DEF priorities
  <2> QED BY <1>1, <2>1, QuietFacts, CallStep
<1> QED BY <1>1, Actions, BlockMoves, DisinheritMoves, DelayMoves, GiveMoves,
           PrioritySetMoves, WakeMoves, SwitchMoves
-----------------------------------------------------------------------------
\* Types.

\* The types of what the lists hold are kept.
LEMMA PlaceTypesNext ==
  ASSUME Inv, Next
  PROVE  /\ xTasksWaitingToReceive' \in [Mutexes -> Seq(Task)]
         /\ uxPriority' \in [Task -> Priority]
         /\ eventPriority' \in [Task -> Priority]
         /\ uxBasePriority' \in [Task -> Priority]
         /\ pxDelayed' \subseteq Task /\ xSuspended' \subseteq Task
         /\ pxReadyTasksLists' \in [Priority -> SUBSET Task]
         /\ uxTopReadyPriority' \subseteq Priority
         /\ pxCurrentTCB' \in Task /\ yieldIrq' \in BOOLEAN
<1>1. /\ xTasksWaitingToReceive' \in [Mutexes -> Seq(Task)]
      /\ uxPriority' \in [Task -> Priority]
      /\ eventPriority' \in [Task -> Priority]
      /\ uxBasePriority' \in [Task -> Priority]
      /\ pxDelayed' \subseteq Task /\ xSuspended' \subseteq Task
  <2>1. CASE Quiet
    <3>1. UNCHANGED << waiting, priorities >>
      BY <2>1, QuietFacts
    <3> QED BY <3>1 DEF Inv, TypeOK, waiting, priorities
  <2>2. CASE TakeBlocks
    BY <2>2, BlockFacts DEF Inv, TypeOK, TakeBlocks
  <2>3. CASE vTaskPriorityDisinheritAfterTimeout
    <3>1. UNCHANGED << waiting, uxBasePriority >>
      BY <2>3 DEF vTaskPriorityDisinheritAfterTimeout
    <3>2. PICK p \in Priority : \E h :
            /\ uxPriority' = [uxPriority EXCEPT ![h] = p] \/ uxPriority' = uxPriority
            /\ \/ eventPriority' = [eventPriority EXCEPT ![h] = p]
               \/ eventPriority' = eventPriority
      BY <2>3, DisinheritFacts
    <3>3. uxPriority \in [Task -> Priority] /\ eventPriority \in [Task -> Priority]
      BY DEF Inv, TypeOK
    <3>4. uxPriority' \in [Task -> Priority] /\ eventPriority' \in [Task -> Priority]
      BY <3>2, <3>3
    <3> QED BY <3>1, <3>4 DEF Inv, TypeOK, waiting
  <2>4. CASE vTaskDelay
    <3>1. UNCHANGED << priorities, xTasksWaitingToReceive, xSuspended >>
          /\ pxDelayed' = pxDelayed \cup {pxCurrentTCB}
      BY <2>4 DEF vTaskDelay
    <3> QED BY <3>1 DEF Inv, TypeOK, priorities
  <2>5. CASE \E m \in Mutexes : xQueueSemaphoreGive(m)
    <3>1. PICK m \in Mutexes : xQueueSemaphoreGive(m)
      BY <2>5
    <3>2. /\ xTasksWaitingToReceive' \in [Mutexes -> Seq(Task)]
          /\ uxPriority' \in [Task -> Priority] /\ eventPriority' \in [Task -> Priority]
          /\ \/ UNCHANGED waiting
             \/ \E u : pxDelayed' = pxDelayed \ {u} /\ xSuspended' = xSuspended \ {u}
      BY <3>1, GiveFacts
    <3>3. uxBasePriority' = uxBasePriority
      BY <3>1 DEF xQueueSemaphoreGive
    <3> QED BY <3>2, <3>3 DEF Inv, TypeOK, waiting
  <2>6. CASE \E t \in Task, p \in NewPriorities : t # Idle /\ vTaskPrioritySet(t, p)
    <3>1. PICK t \in Task, p \in NewPriorities : vTaskPrioritySet(t, p)
      BY <2>6
    <3>2. \E q \in Priority : /\ uxPriority' = [uxPriority EXCEPT ![t] = q]
                              /\ p \in Priority
                              /\ uxBasePriority' = [uxBasePriority EXCEPT ![t] = p]
                              /\ eventPriority' = [eventPriority EXCEPT ![t] = p]
      BY <3>1, PrioritySetFacts
    <3>3. UNCHANGED waiting
      BY <3>1 DEF vTaskPrioritySet
    <3> QED BY <3>2, <3>3 DEF Inv, TypeOK, waiting
  <2>7. CASE \E t \in Task : TickWakes(t)
    <3>1. PICK t \in Task : TickWakes(t)
      BY <2>7
    <3>2. UNCHANGED << uxPriority, uxBasePriority, eventPriority >>
      BY <3>1 DEF TickWakes, priorities
    <3> QED BY <3>1, <3>2, WakeFacts DEF Inv, TypeOK
  <2>8. CASE \E t \in Task : vTaskSwitchContext(t)
    BY <2>8 DEF vTaskSwitchContext, waiting, priorities, Inv, TypeOK
  <2> QED BY <2>1, <2>2, <2>3, <2>4, <2>5, <2>6, <2>7, <2>8, Actions
<1>2. /\ pxReadyTasksLists' \in [Priority -> SUBSET Task]
      /\ uxTopReadyPriority' \subseteq Priority
  BY MovesNext DEF Placement, ListsOK, Lists
<1>3. /\ pxCurrentTCB' \in Task /\ yieldIrq' \in BOOLEAN
  <2>1. pxCurrentTCB \in Task /\ yieldIrq \in BOOLEAN
    BY DEF Inv, TypeOK
  <2>2. CASE Quiet
    BY <2>1, <2>2, QuietFacts
  <2>3. CASE TakeBlocks
    BY <2>1, <2>3 DEF TakeBlocks
  <2>4. CASE vTaskPriorityDisinheritAfterTimeout
    BY <2>1, <2>4 DEF vTaskPriorityDisinheritAfterTimeout
  <2>5. CASE vTaskDelay
    BY <2>1, <2>5 DEF vTaskDelay
  <2>6. CASE \E m \in Mutexes : xQueueSemaphoreGive(m)
    <3>1. PICK m \in Mutexes : xQueueSemaphoreGive(m)
      BY <2>6
    <3>2. pxCurrentTCB' = pxCurrentTCB
      BY <3>1 DEF xQueueSemaphoreGive
    <3>3. \/ yieldIrq' = LowersOnGive(pxCurrentTCB)
          \/ \E x, y : yieldIrq' = (x > y)
      BY <3>1, GiveFacts
    <3>4. CASE yieldIrq' = LowersOnGive(pxCurrentTCB)
      BY <2>1, <3>2, <3>4 DEF LowersOnGive
    <3>5. CASE \E x, y : yieldIrq' = (x > y)
      BY <2>1, <3>2, <3>5
    <3> QED BY <3>3, <3>4, <3>5
  <2>7. CASE \E t \in Task, p \in NewPriorities : t # Idle /\ vTaskPrioritySet(t, p)
    BY <2>1, <2>7 DEF vTaskPrioritySet
  <2>8. CASE \E t \in Task : TickWakes(t) \/ vTaskSwitchContext(t)
    BY <2>1, <2>8 DEF TickWakes, vTaskSwitchContext
  <2> QED BY <2>2, <2>3, <2>4, <2>5, <2>6, <2>7, <2>8, Actions
<1> QED BY <1>1, <1>2, <1>3

\* The types of what the calls hold are kept.
LEMMA CallTypesNext ==
  ASSUME Inv, Next
  PROVE  /\ pc' \in [Task -> {"app", "take", "count", "check", "expired", "disinherit"}]
         /\ mutex' \in [Task -> Mutexes \cup {NoMutex}]
         /\ xTicksToWait' \in [Task -> {"none", "ticks", "ever", "over"}]
         /\ xInheritanceOccurred' \in [Task -> BOOLEAN]
<1> DEFINE c == pxCurrentTCB
           Labels == {"app", "take", "count", "check", "expired", "disinherit"}
           Ticks == {"none", "ticks", "ever", "over"}
<1>1. /\ pc \in [Task -> Labels] /\ mutex \in [Task -> Mutexes \cup {NoMutex}]
      /\ xTicksToWait \in [Task -> Ticks] /\ xInheritanceOccurred \in [Task -> BOOLEAN]
  BY DEF Inv, TypeOK
<1>2. \/ pc' = pc
      \/ \E label \in Labels : pc' = [pc EXCEPT ![c] = label]
  BY DEF Next, TakeStep, GiveStep, TakeAgain, GiveOnce, xQueueSemaphoreTake,
         TakeSucceeds, CountTake, TakeFails, TakeRetries, TakeExpires, AfterTimeOut,
         TickTimeSlice, TakeBlocks, vTaskPriorityDisinheritAfterTimeout, vTaskDelay,
         xQueueSemaphoreGive, vTaskPrioritySet, TickWakes, vTaskSwitchContext,
         ReturnFromTake, Goto, call
<1>3. \/ mutex' = mutex
      \/ \E m \in Mutexes \cup {NoMutex} : mutex' = [mutex EXCEPT ![c] = m]
  BY DEF Next, TakeStep, GiveStep, TakeAgain, GiveOnce, xQueueSemaphoreTake,
         TakeSucceeds, CountTake, TakeFails, TakeRetries, TakeExpires, AfterTimeOut,
         TickTimeSlice, TakeBlocks, vTaskPriorityDisinheritAfterTimeout, vTaskDelay,
         xQueueSemaphoreGive, vTaskPrioritySet, TickWakes, vTaskSwitchContext,
         ReturnFromTake, call
<1>4. \/ xTicksToWait' = xTicksToWait
      \/ \E t, x : /\ x \in Ticks \/ x = xTicksToWait[t]
                   /\ xTicksToWait' = [xTicksToWait EXCEPT ![t] = x]
  BY MutexAssumption
     DEF Next, TakeStep, GiveStep, TakeAgain, GiveOnce, xQueueSemaphoreTake,
         TakeSucceeds, CountTake, TakeFails, TakeRetries, TakeExpires, AfterTimeOut,
         TickTimeSlice, TakeBlocks, vTaskPriorityDisinheritAfterTimeout, vTaskDelay,
         xQueueSemaphoreGive, vTaskPrioritySet, TickWakes, vTaskSwitchContext,
         ReturnFromTake, call
<1>5. \/ xInheritanceOccurred' = xInheritanceOccurred
      \/ \E b \in BOOLEAN :
           xInheritanceOccurred' = [xInheritanceOccurred EXCEPT ![c] = b]
  <2>1. CASE TakeBlocks
    <3>1. \E b \in BOOLEAN : xInheritanceOccurred' = [xInheritanceOccurred EXCEPT ![c] = b]
      BY <2>1, BlockFacts
    <3> QED BY <3>1
  <2>2. CASE ~TakeBlocks
    BY <2>2
       DEF Next, TakeStep, GiveStep, TakeAgain, GiveOnce, xQueueSemaphoreTake,
           TakeSucceeds, CountTake, TakeFails, TakeRetries, TakeExpires, AfterTimeOut,
           TickTimeSlice, vTaskPriorityDisinheritAfterTimeout, vTaskDelay,
           xQueueSemaphoreGive, vTaskPrioritySet, TickWakes, vTaskSwitchContext,
           ReturnFromTake, call
  <2> QED BY <2>1, <2>2
<1> QED BY <1>1, <1>2, <1>3, <1>4, <1>5
-----------------------------------------------------------------------------
\* Who holds the mutexes.

\* The sets of mutexes are finite.
LEMMA HeldCount ==
  ASSUME NEW t
  PROVE  IsFiniteSet(HeldBy(t)) /\ Cardinality(HeldBy(t)) \in Nat
BY HeldBy(t) \in SUBSET Mutexes, FS_Subset, FS_CardinalityType, MutexAssumption DEF HeldBy

\* The types of what follows.
LEMMA HoldingTypes ==
  ASSUME Inv
  PROVE  /\ uxMessagesWaiting \in [Mutexes -> {0, 1}]
         /\ xMutexHolder \in [Mutexes -> Task \cup {NoTask}]
         /\ uxRecursiveCallCount \in [Mutexes -> 0..MaxRecursion]
         /\ owned \in [Task -> SUBSET Mutexes]
         /\ uxMutexesHeld \in [Task -> Nat]
         /\ pc \in [Task -> {"app", "take", "count", "check", "expired", "disinherit"}]
         /\ mutex \in [Task -> Mutexes \cup {NoMutex}]
         /\ MaxRecursion \in Nat \ {0} /\ NoTask \notin Task /\ NoMutex \notin Mutexes
BY MutexAssumption DEF Inv, TypeOK

HoldTypes ==
  /\ uxMessagesWaiting \in [Mutexes -> {0, 1}]
  /\ xMutexHolder \in [Mutexes -> Task \cup {NoTask}]
  /\ uxRecursiveCallCount \in [Mutexes -> 0..MaxRecursion]
  /\ owned \in [Task -> SUBSET Mutexes]
  /\ uxMutexesHeld \in [Task -> Nat]

\* No mutex changes hands, and no call.
LEMMA HoldingStays ==
  ASSUME Inv, UNCHANGED << mutexes, uxMutexesHeld, pc, mutex >>
  PROVE  Holding' /\ HoldTypes'
<1>1. \A t \in Task : HeldBy(t)' = HeldBy(t)
  BY DEF mutexes, HeldBy
<1>2. HoldTypes'
  BY DEF mutexes, HoldTypes, Inv, TypeOK
<1> QED BY <1>1, <1>2 DEF mutexes, Inv, Holding, CallOK, HolderOK

\* The running task goes on with its call, or leaves it, while no mutex changes
\* hands.
LEMMA CallMoves ==
  ASSUME Inv, UNCHANGED << mutexes, uxMutexesHeld >>, ~yieldIrq,
         \A t \in Task \ {pxCurrentTCB} : pc'[t] = pc[t] /\ mutex'[t] = mutex[t],
         pc[pxCurrentTCB] # "count",
         \/ pc'[pxCurrentTCB] = "app" /\ mutex'[pxCurrentTCB] = NoMutex
         \/ /\ pc'[pxCurrentTCB] \in {"take", "check", "expired", "disinherit"}
            /\ mutex'[pxCurrentTCB] \in Mutexes
            /\ pxCurrentTCB # Idle
            /\ xMutexHolder[mutex'[pxCurrentTCB]] # pxCurrentTCB
  PROVE  Holding' /\ HoldTypes'
<1> PICK c : c = pxCurrentTCB
  OBVIOUS
<1>1. \A t \in Task : HeldBy(t)' = HeldBy(t)
  BY DEF mutexes, HeldBy
<1>2. HoldTypes'
  BY DEF mutexes, HoldTypes, Inv, TypeOK
<1>3. c \in Task
  BY Here
<1>4. UNCHANGED << uxMessagesWaiting, xMutexHolder, uxRecursiveCallCount, owned, uxMutexesHeld >>
  BY DEF mutexes
<1>5. \A t \in Task : CallOK(t)'
  <2>1. CallOK(c)'
    BY <1>3, <1>4, HoldingTypes DEF CallOK
  <2>2. \A t \in Task \ {c} : CallOK(t)'
    BY <1>4 DEF CallOK, Inv, Holding
  <2> QED BY <2>1, <2>2
<1>6. \A m \in Mutexes : HolderOK(m)'
  <2> SUFFICES ASSUME NEW m \in Mutexes PROVE HolderOK(m)'
    OBVIOUS
  <2>1. HolderOK(m)
    BY DEF Inv, Holding
  <2>2. \A t \in Task : pc[t] = "count" /\ mutex[t] = m => pc'[t] = "count" /\ mutex'[t] = m
    BY <1>3
  <2> QED BY <1>4, <2>1, <2>2 DEF HolderOK
<1> QED BY <1>1, <1>2, <1>4, <1>5, <1>6 DEF Inv, Holding

\* The label and the mutex of the running task's call after each step of it.
LEMMA CallSteps ==
  ASSUME Inv,
         \/ \E m \in Mutexes, ticks \in BlockTimes : xQueueSemaphoreTake(m, ticks)
         \/ TakeFails \/ TakeBlocks \/ TakeRetries \/ TakeExpires \/ AfterTimeOut
         \/ vTaskPriorityDisinheritAfterTimeout
  PROVE  Holding' /\ HoldTypes'
<1> PICK c : c = pxCurrentTCB
  OBVIOUS
<1>1. /\ UNCHANGED << mutexes, uxMutexesHeld >> /\ ~yieldIrq
      /\ pc[c] \in {"app", "take", "check", "expired", "disinherit"}
  BY DEF xQueueSemaphoreTake, TakeFails, TakeBlocks, TakeRetries, TakeExpires,
         AfterTimeOut, vTaskPriorityDisinheritAfterTimeout, At
<1>2. /\ c \in Task /\ pc[c] # "count"
      /\ pc[c] # "app" => /\ m0 \in Mutexes /\ c # Idle /\ mutex[c] = m0
                          /\ xMutexHolder[m0] # c
  BY <1>1, Here
<1>3. \/ pc' = [pc EXCEPT ![c] = "app"] /\ mutex' = [mutex EXCEPT ![c] = NoMutex]
      \/ \E label \in {"take", "check", "expired", "disinherit"} :
           /\ pc' = [pc EXCEPT ![c] = label]
           /\ \/ pc[c] # "app" /\ mutex' = mutex
              \/ \E m \in Mutexes : /\ mutex' = [mutex EXCEPT ![c] = m]
                                    /\ c # Idle /\ xMutexHolder[m] # c
  BY DEF xQueueSemaphoreTake, TakeFails, TakeBlocks, TakeRetries, TakeExpires,
         AfterTimeOut, vTaskPriorityDisinheritAfterTimeout, ReturnFromTake, Goto, At
<1>4. \A t \in Task \ {c} : pc'[t] = pc[t] /\ mutex'[t] = mutex[t]
  BY <1>3, HoldingTypes
<1>5. \/ pc'[c] = "app" /\ mutex'[c] = NoMutex
      \/ /\ pc'[c] \in {"take", "check", "expired", "disinherit"}
         /\ mutex'[c] \in Mutexes /\ c # Idle /\ xMutexHolder[mutex'[c]] # c
  BY <1>2, <1>3, HoldingTypes
<1> QED BY <1>1, <1>2, <1>4, <1>5, CallMoves

\* A recursive mutex is taken or given once more while it stays held.
LEMMA CountSteps ==
  ASSUME Inv, NEW m \in Mutexes, TakeAgain(m) \/ GiveOnce(m)
  PROVE  Holding' /\ HoldTypes'
<1> PICK c : c = pxCurrentTCB
  OBVIOUS
<1>1. /\ m \in Recursive /\ xMutexHolder[m] = c /\ pc[c] = "app" /\ ~yieldIrq
      /\ UNCHANGED << uxMessagesWaiting, xMutexHolder, owned, uxMutexesHeld, pc, mutex >>
      /\ \/ /\ uxRecursiveCallCount[m] < MaxRecursion
            /\ uxRecursiveCallCount' = [uxRecursiveCallCount EXCEPT ![m] = @ + 1]
         \/ /\ uxRecursiveCallCount[m] # 1
            /\ uxRecursiveCallCount' = [uxRecursiveCallCount EXCEPT ![m] = @ - 1]
  BY DEF TakeAgain, GiveOnce, LastGive, At, call
<1>2. c \in Task
  BY <1>1, Here
<1>3. m \in owned[c]
  BY <1>1, <1>2 DEF Inv, Holding, HolderOK
<1>4. uxRecursiveCallCount[m] > 0 /\ uxRecursiveCallCount[m] \in 0..MaxRecursion
  BY <1>1, <1>2, <1>3, HoldingTypes DEF Inv, Holding, HolderOK
<1>5. /\ uxRecursiveCallCount' \in [Mutexes -> 0..MaxRecursion]
      /\ uxRecursiveCallCount'[m] > 0
      /\ \A n \in Mutexes \ {m} : uxRecursiveCallCount'[n] = uxRecursiveCallCount[n]
  BY <1>1, <1>4, HoldingTypes
<1>6. HoldTypes'
  BY <1>1, <1>5, HoldingTypes DEF HoldTypes
<1>7. \A t \in Task : HeldBy(t)' = HeldBy(t) /\ CallOK(t)'
  BY <1>1 DEF HeldBy, CallOK, Inv, Holding
<1>8. \A n \in Mutexes : HolderOK(n)'
  <2>1. HolderOK(m)'
    BY <1>1, <1>2, <1>3, <1>4, <1>5 DEF HolderOK, Inv, Holding
  <2>2. \A n \in Mutexes \ {m} : HolderOK(n)'
    BY <1>1, <1>5 DEF HolderOK, Inv, Holding
  <2> QED BY <2>1, <2>2
<1> QED BY <1>1, <1>6, <1>7, <1>8 DEF Inv, Holding

\* A take that succeeds.
LEMMA TakeSucceedsStep ==
  ASSUME Inv, TakeSucceeds
  PROVE  Holding' /\ HoldTypes'
<1> PICK c : c = pxCurrentTCB
  OBVIOUS
<1>1. /\ pc[c] = "take" /\ ~yieldIrq /\ uxMessagesWaiting[m0] > 0
      /\ uxMessagesWaiting' = [uxMessagesWaiting EXCEPT ![m0] = 0]
      /\ xMutexHolder' = [xMutexHolder EXCEPT ![m0] = c]
      /\ uxMutexesHeld' = [uxMutexesHeld EXCEPT ![c] = uxMutexesHeld[c] + 1]
      /\ uxRecursiveCallCount' = uxRecursiveCallCount
      /\ \/ /\ m0 \in Recursive /\ pc' = [pc EXCEPT ![c] = "count"]
            /\ UNCHANGED << owned, mutex >>
         \/ /\ m0 \notin Recursive /\ pc' = [pc EXCEPT ![c] = "app"]
            /\ mutex' = [mutex EXCEPT ![c] = NoMutex]
            /\ owned' = [owned EXCEPT ![c] = @ \cup {m0}]
  BY DEF TakeSucceeds, Available, At, pvTaskIncrementMutexHeldCount, ReturnFromTake, Goto
<1>2. c \in Task /\ m0 \in Mutexes /\ c # Idle /\ mutex[c] = m0
  BY <1>1, Here
<1> PICK m \in Mutexes : m = m0
  BY <1>2
<1>3. /\ uxMessagesWaiting[m] = 1 /\ xMutexHolder[m] = NoTask
      /\ \A t \in Task : m \notin owned[t]
      /\ m \in Recursive => ~(uxRecursiveCallCount[m] > 0)
  BY <1>1, <1>2, HoldingTypes DEF Inv, Holding, HolderOK
<1>4. HoldTypes'
  BY <1>1, <1>2, HoldingTypes DEF HoldTypes
<1>5. \A t \in Task : CallOK(t)'
  <2>1. CallOK(c)'
    BY <1>1, <1>2, <1>3, HoldingTypes DEF CallOK
  <2>2. ASSUME NEW t \in Task \ {c} PROVE CallOK(t)'
    <3>1. /\ pc'[t] = pc[t] /\ mutex'[t] = mutex[t] /\ owned'[t] = owned[t] /\ CallOK(t)
      BY <1>1, HoldingTypes DEF Inv, Holding
    <3>2. \A n \in Mutexes : xMutexHolder'[n] = t <=> xMutexHolder[n] = t
      BY <1>1, <1>2, <1>3, HoldingTypes
    <3>3. pc[t] # "app" => mutex[t] \in Mutexes
      BY <3>1, HoldingTypes DEF CallOK
    <3> QED BY <3>1, <3>2, <3>3 DEF CallOK
  <2> QED BY <2>1, <2>2
<1>6. HolderOK(m)'
  BY <1>1, <1>2, <1>3, HoldingTypes DEF HolderOK
<1>7. ASSUME NEW n \in Mutexes \ {m} PROVE HolderOK(n)'
  <2>1. /\ uxMessagesWaiting'[n] = uxMessagesWaiting[n] /\ xMutexHolder'[n] = xMutexHolder[n]
        /\ \A t \in Task : n \in owned'[t] <=> n \in owned[t]
        /\ \A t \in Task : (pc'[t] = "count" /\ mutex'[t] = n)
                             <=> (pc[t] = "count" /\ mutex[t] = n)
    BY <1>1, <1>2, HoldingTypes
  <2>2. HolderOK(n)
    BY DEF Inv, Holding
  <2> QED BY <1>1, <2>1, <2>2 DEF HolderOK
<1>8. \A t \in Task : uxMutexesHeld'[t] = Cardinality(HeldBy(t)')
  <2>1. HeldBy(c)' = HeldBy(c) \cup {m} /\ m \notin HeldBy(c)
    BY <1>1, <1>2, <1>3, HoldingTypes DEF HeldBy
  <2>2. \A t \in Task \ {c} : HeldBy(t)' = HeldBy(t)
    BY <1>1, <1>2, <1>3, HoldingTypes DEF HeldBy
  <2>3. Cardinality(HeldBy(c)') = Cardinality(HeldBy(c)) + 1
    BY <2>1, HeldCount, FS_AddElement
  <2> QED BY <1>1, <1>2, <2>2, <2>3, HoldingTypes DEF Inv, Holding
<1> QED BY <1>4, <1>5, <1>6, <1>7, <1>8 DEF Holding

\* A recursive take is counted.
LEMMA CountTakeStep ==
  ASSUME Inv, CountTake
  PROVE  Holding' /\ HoldTypes'
<1> PICK c : c = pxCurrentTCB
  OBVIOUS
<1>1. /\ pc[c] = "count" /\ ~yieldIrq
      /\ uxRecursiveCallCount' = [uxRecursiveCallCount EXCEPT ![m0] = @ + 1]
      /\ owned' = [owned EXCEPT ![c] = @ \cup {m0}]
      /\ pc' = [pc EXCEPT ![c] = "app"] /\ mutex' = [mutex EXCEPT ![c] = NoMutex]
      /\ UNCHANGED << uxMessagesWaiting, xMutexHolder, uxMutexesHeld >>
  BY DEF CountTake, At, ReturnFromTake, Goto
<1>2. c \in Task /\ m0 \in Mutexes /\ c # Idle /\ mutex[c] = m0
  BY <1>1, Here
<1> PICK m \in Mutexes : m = m0
  BY <1>2
<1>3. xMutexHolder[m] = c /\ m \in Recursive /\ m \notin owned[c]
  BY <1>1, <1>2 DEF Inv, Holding, CallOK
<1>4. uxRecursiveCallCount[m] = 0
  <2>1. \A t \in Task : m \notin owned[t]
    BY <1>3 DEF Inv, Holding, HolderOK
  <2> QED BY <1>3, <2>1, HoldingTypes DEF Inv, Holding, HolderOK
<1>5. HoldTypes'
  BY <1>1, <1>2, <1>4, HoldingTypes DEF HoldTypes
<1>6. \A t \in Task : CallOK(t)'
  <2>1. CallOK(c)'
    BY <1>1, <1>2, HoldingTypes DEF CallOK
  <2>2. \A t \in Task \ {c} : CallOK(t)'
    BY <1>1, HoldingTypes DEF CallOK, Inv, Holding
  <2> QED BY <2>1, <2>2
<1>7. HolderOK(m)'
  <2>1. HolderOK(m)
    BY DEF Inv, Holding
  <2>2. m \in owned'[c] /\ \A t \in Task \ {c} : owned'[t] = owned[t]
    BY <1>1, <1>2, HoldingTypes
  <2>3. uxRecursiveCallCount'[m] > 0
    BY <1>1, <1>2, <1>4, HoldingTypes
  <2> QED BY <1>1, <1>2, <1>3, <2>1, <2>2, <2>3 DEF HolderOK
<1>8. ASSUME NEW n \in Mutexes \ {m} PROVE HolderOK(n)'
  <2>1. /\ uxRecursiveCallCount'[n] = uxRecursiveCallCount[n]
        /\ \A t \in Task : n \in owned'[t] <=> n \in owned[t]
        /\ \A t \in Task : (pc'[t] = "count" /\ mutex'[t] = n)
                             <=> (pc[t] = "count" /\ mutex[t] = n)
    BY <1>1, <1>2, HoldingTypes
  <2>2. HolderOK(n)
    BY DEF Inv, Holding
  <2> QED BY <1>1, <2>1, <2>2 DEF HolderOK
<1>9. \A t \in Task : uxMutexesHeld'[t] = Cardinality(HeldBy(t)')
  BY <1>1 DEF HeldBy, Inv, Holding
<1> QED BY <1>5, <1>6, <1>7, <1>8, <1>9 DEF Holding

\* A give, nested or last.
LEMMA GiveStepHolding ==
  ASSUME Inv, NEW m \in Mutexes, xQueueSemaphoreGive(m)
  PROVE  Holding' /\ HoldTypes'
<1> PICK c : c = pxCurrentTCB
  OBVIOUS
<1>1. /\ pc[c] = "app" /\ ~yieldIrq /\ xMutexHolder[m] = c
      /\ m \in Recursive => uxRecursiveCallCount[m] = 1
      /\ uxRecursiveCallCount' = [uxRecursiveCallCount EXCEPT
                                    ![m] = IF m \in Recursive THEN @ - 1 ELSE @]
      /\ uxMutexesHeld' = [uxMutexesHeld EXCEPT ![c] = @ - 1]
      /\ xMutexHolder' = [xMutexHolder EXCEPT ![m] = NoTask]
      /\ uxMessagesWaiting' = [uxMessagesWaiting EXCEPT ![m] = @ + 1]
      /\ owned' = [owned EXCEPT ![c] = @ \ {m}]
      /\ UNCHANGED << pc, mutex >>
  BY DEF xQueueSemaphoreGive, At, LastGive, call
<1>2. c \in Task
  BY <1>1, Here
<1>3. uxMessagesWaiting[m] = 0 /\ \A t \in Task : m \in owned[t] => t = c
  BY <1>1, <1>2, HoldingTypes DEF Inv, Holding, HolderOK
<1>4. HeldBy(c)' = HeldBy(c) \ {m} /\ m \in HeldBy(c)
  BY <1>1, <1>2, HoldingTypes DEF HeldBy
<1>5. \A t \in Task \ {c} : HeldBy(t)' = HeldBy(t)
  BY <1>1, <1>2, HoldingTypes DEF HeldBy
<1>6. Cardinality(HeldBy(c)') = Cardinality(HeldBy(c)) - 1 /\ Cardinality(HeldBy(c)') \in Nat
  BY <1>4, HeldCount, FS_RemoveElement, FS_CardinalityType
<1>7. \A t \in Task : uxMutexesHeld'[t] = Cardinality(HeldBy(t)')
  BY <1>1, <1>2, <1>5, <1>6, HoldingTypes DEF Inv, Holding
<1>8. HoldTypes'
  <2>1. uxMutexesHeld' \in [Task -> Nat]
    BY <1>1, <1>2, <1>6, <1>7, HoldingTypes
  <2> QED BY <1>1, <1>2, <1>3, <2>1, HoldingTypes DEF HoldTypes
<1>9. \A t \in Task : CallOK(t)'
  <2> SUFFICES ASSUME NEW t \in Task PROVE CallOK(t)'
    OBVIOUS
  <2>1. CallOK(t)
    BY DEF Inv, Holding
  <2>2. \A n \in Mutexes : /\ xMutexHolder[n] # t => xMutexHolder'[n] # t
                           /\ xMutexHolder[n] = t /\ t # c => xMutexHolder'[n] = t
    BY <1>1, <1>2, HoldingTypes
  <2>3. owned'[t] \subseteq owned[t]
    BY <1>1, <1>2, HoldingTypes
  <2>4. pc[t] # "app" => mutex[t] \in Mutexes
    BY <2>1, HoldingTypes DEF CallOK
  <2> QED BY <1>1, <2>1, <2>2, <2>3, <2>4 DEF CallOK
<1>10. HolderOK(m)'
  <2>1. xMutexHolder'[m] = NoTask /\ uxMessagesWaiting'[m] = 1
    BY <1>1, <1>3, HoldingTypes
  <2>2. \A t \in Task : m \notin owned'[t]
    BY <1>1, <1>2, <1>3, HoldingTypes
  <2>3. m \in Recursive => uxRecursiveCallCount'[m] = 0
    BY <1>1, HoldingTypes
  <2> QED BY <2>1, <2>2, <2>3, HoldingTypes, MutexAssumption DEF HolderOK
<1>11. ASSUME NEW n \in Mutexes \ {m} PROVE HolderOK(n)'
  <2>1. /\ uxMessagesWaiting'[n] = uxMessagesWaiting[n] /\ xMutexHolder'[n] = xMutexHolder[n]
        /\ uxRecursiveCallCount'[n] = uxRecursiveCallCount[n]
        /\ \A t \in Task : n \in owned'[t] <=> n \in owned[t]
    BY <1>1, <1>2, HoldingTypes
  <2>2. HolderOK(n)
    BY DEF Inv, Holding
  <2> QED BY <1>1, <2>1, <2>2 DEF HolderOK
<1> QED BY <1>7, <1>8, <1>9, <1>10, <1>11 DEF Holding

\* Holders and counts agree after every step.
LEMMA HoldingNext ==
  ASSUME Inv, Next
  PROVE  Holding' /\ HoldTypes'
<1>1. CASE vTaskDelay
  BY <1>1, HoldingStays DEF vTaskDelay, call
<1>2. CASE TickTimeSlice
  BY <1>2, HoldingStays DEF TickTimeSlice, call
<1>3. CASE \E t \in Task, p \in NewPriorities : t # Idle /\ vTaskPrioritySet(t, p)
  BY <1>3, HoldingStays DEF vTaskPrioritySet, call
<1>4. CASE \E t \in Task : TickWakes(t) \/ vTaskSwitchContext(t)
  BY <1>4, HoldingStays DEF TickWakes, vTaskSwitchContext, call
<1> QED BY <1>1, <1>2, <1>3, <1>4, Actions, CallSteps, CountSteps, TakeSucceedsStep,
           CountTakeStep, GiveStepHolding DEF Quiet
-----------------------------------------------------------------------------
\* What the priorities are.

\* An action that leaves priorities and takes nothing away from a task.
LEMMA BaseStays ==
  ASSUME Inv, UNCHANGED << uxPriority, uxBasePriority >>,
         \A m \in Mutexes : \A t \in Task : xMutexHolder[m] = t => xMutexHolder'[m] = t
  PROVE  BasePriorityKept'
BY DEF Inv, BasePriorityKept, HeldBy

\* A task whose priority is changed to no less than its own one holds a mutex.
LEMMA BaseRaised ==
  ASSUME Inv, UNCHANGED << xMutexHolder, uxBasePriority >>,
         NEW h \in Task, NEW m \in Mutexes, xMutexHolder[m] = h,
         NEW p \in Priority, p >= uxBasePriority[h],
         uxPriority' = [uxPriority EXCEPT ![h] = p]
  PROVE  BasePriorityKept'
<1>1. \A t \in Task : HeldBy(t)' = HeldBy(t) /\ HeldBy(h) # {}
  BY DEF HeldBy
<1>2. uxPriority \in [Task -> Priority]
  BY PlacementParts
<1> QED BY <1>1, <1>2 DEF Inv, BasePriorityKept

\* Without a mutex a task is at its own priority after every step.
LEMMA BaseNext ==
  ASSUME Inv, Next
  PROVE  BasePriorityKept'
<1>1. CASE Quiet
  <2>1. UNCHANGED << uxPriority, uxBasePriority >>
    BY <1>1, QuietFacts DEF priorities
  <2>2. CASE TakeSucceeds
    <3>1. /\ pc[pxCurrentTCB] = "take" /\ ~yieldIrq /\ uxMessagesWaiting[m0] > 0
          /\ xMutexHolder' = [xMutexHolder EXCEPT ![m0] = pxCurrentTCB]
      BY <2>2 DEF TakeSucceeds, At, Available
    <3>2. m0 \in Mutexes
      BY <3>1, Here
    <3>3. xMutexHolder[m0] = NoTask
      BY <3>1, <3>2, HoldingTypes DEF Inv, Holding, HolderOK
    <3>4. \A n \in Mutexes : \A t \in Task : xMutexHolder[n] = t => xMutexHolder'[n] = t
      BY <3>1, <3>2, <3>3, HoldingTypes
    <3> QED BY <2>1, <3>4, BaseStays
  <2>3. CASE ~TakeSucceeds
    <3>1. xMutexHolder' = xMutexHolder
      BY <1>1, <2>3 DEF Quiet, TakeAgain, GiveOnce, xQueueSemaphoreTake, CountTake,
         TakeFails, TakeRetries, TakeExpires, AfterTimeOut, TickTimeSlice, mutexes
    <3> QED BY <2>1, <3>1, BaseStays
  <2> QED BY <2>2, <2>3
<1>2. CASE TakeBlocks
  <2>1. UNCHANGED << xMutexHolder, uxBasePriority >>
    BY <1>2 DEF TakeBlocks, mutexes
  <2>2. PICK h \in Task : h = xMutexHolder[m0]
    BY <1>2, BlockFacts
  <2>3. PICK p \in Priority : p = uxPriority[pxCurrentTCB]
    BY <1>2, BlockFacts, PlacementParts
  <2>4. m0 \in Mutexes
    BY <1>2, BlockFacts
  <2>5. uxPriority' = IF uxPriority[h] < p THEN [uxPriority EXCEPT ![h] = p] ELSE uxPriority
    BY <1>2, <2>2, <2>3, BlockFacts
  <2>6. CASE uxPriority[h] < p
    <3>1. p >= uxBasePriority[h]
      <4>1. uxPriority[h] >= uxBasePriority[h]
        BY DEF Inv, BasePriorityKept
      <4>2. uxPriority[h] \in Int /\ uxBasePriority[h] \in Int /\ p \in Int
        BY Priorities DEF Inv, TypeOK
      <4> QED BY <2>6, <4>1, <4>2
    <3> QED BY <2>1, <2>2, <2>4, <2>5, <2>6, <3>1, BaseRaised
  <2>7. CASE ~(uxPriority[h] < p)
    BY <2>1, <2>5, <2>7, BaseStays
  <2> QED BY <2>6, <2>7
<1>3. CASE vTaskPriorityDisinheritAfterTimeout
  <2> DEFINE h == xMutexHolder[m0]
             q == Max({IF h = NoTask THEN 0 ELSE uxBasePriority[h],
                       prvGetDisinheritPriorityAfterTimeout(m0)})
  <2>1. UNCHANGED << xMutexHolder, uxBasePriority >>
    BY <1>3 DEF vTaskPriorityDisinheritAfterTimeout, mutexes
  <2>2. m0 \in Mutexes
    <3>1. ~yieldIrq /\ pc[pxCurrentTCB] = "disinherit"
      BY <1>3 DEF vTaskPriorityDisinheritAfterTimeout, At
    <3> QED BY <3>1, Here
  <2>3. /\ q \in Priority
        /\ h # NoTask => q >= uxBasePriority[h]
        /\ h \in Task \cup {NoTask}
        /\ uxPriority' = IF Disinherits(h, q) THEN [uxPriority EXCEPT ![h] = q] ELSE uxPriority
    BY <1>3, DisinheritFacts
  <2>4. PICK p : p = q
    OBVIOUS
  <2>5. CASE Disinherits(h, q)
    <3>1. h \in Task /\ h # NoTask
      BY <2>3, <2>5 DEF Disinherits
    <3>2. /\ p \in Priority /\ p >= uxBasePriority[h]
          /\ uxPriority' = [uxPriority EXCEPT ![h] = p]
      <4> HIDE DEF h, q
      <4> QED BY <2>3, <2>4, <2>5, <3>1
    <3> QED BY <2>1, <2>2, <3>1, <3>2, BaseRaised
  <2>6. CASE ~Disinherits(h, q)
    <3>1. uxPriority' = uxPriority
      <4> HIDE DEF h, q
      <4> QED BY <2>3, <2>6
    <3> QED BY <2>1, <3>1, BaseStays
  <2> QED BY <2>5, <2>6
<1>4. CASE \E m \in Mutexes : xQueueSemaphoreGive(m)
  <2>1. PICK m \in Mutexes : xQueueSemaphoreGive(m)
    BY <1>4
  <2>2. PICK c : c = pxCurrentTCB
    OBVIOUS
  <2>3. /\ c \in Task /\ uxBasePriority' = uxBasePriority
        /\ xMutexHolder[m] = c /\ xMutexHolder' = [xMutexHolder EXCEPT ![m] = NoTask]
        /\ uxMutexesHeld' = [uxMutexesHeld EXCEPT ![c] = @ - 1]
    BY <2>1, <2>2, GiveFacts DEF xQueueSemaphoreGive
  <2>4. uxPriority' = [uxPriority EXCEPT ![c] =
                         IF LowersOnGive(c) THEN uxBasePriority[c] ELSE uxPriority[c]]
    BY <2>1, <2>2, GiveFacts
  <2>5. uxPriority \in [Task -> Priority] /\ uxBasePriority \in [Task -> Priority]
    BY DEF Inv, TypeOK
  <2>6. \A t \in Task \ {c} : HeldBy(t)' = HeldBy(t) /\ uxPriority'[t] = uxPriority[t]
    BY <2>3, <2>4, <2>5, HoldingTypes DEF HeldBy
  <2>7. \A p \in Priority : p \in Int
    BY Priorities
  <2>8. CASE LowersOnGive(c)
    <3>1. uxPriority'[c] = uxBasePriority[c] /\ uxBasePriority[c] >= uxBasePriority[c]
      BY <2>3, <2>4, <2>5, <2>7, <2>8
    <3> QED BY <2>3, <2>6, <3>1 DEF Inv, BasePriorityKept
  <2>9. CASE ~LowersOnGive(c)
    <3>1. uxPriority'[c] = uxPriority[c]
      BY <2>3, <2>4, <2>5, <2>9
    <3>2. uxPriority[c] = uxBasePriority[c] \/ HeldBy(c)' # {}
      <4>1. ASSUME HeldBy(c)' = {}
            PROVE  uxMutexesHeld[c] = 1
        <5>1. HeldBy(c)' = HeldBy(c) \ {m} /\ m \in HeldBy(c)
          BY <2>3, HoldingTypes DEF HeldBy
        <5>2. Cardinality(HeldBy(c)') = Cardinality(HeldBy(c)) - 1
          BY <5>1, HeldCount, FS_RemoveElement
        <5>3. Cardinality(HeldBy(c)') = 0
          BY <4>1, FS_EmptySet
        <5>4. uxMutexesHeld[c] = Cardinality(HeldBy(c)) /\ Cardinality(HeldBy(c)) \in Nat
          BY <2>3, HeldCount DEF Inv, Holding
        <5> QED BY <5>2, <5>3, <5>4
      <4> QED BY <2>9, <4>1 DEF LowersOnGive
    <3> QED BY <2>3, <2>6, <3>1, <3>2 DEF Inv, BasePriorityKept
  <2> QED BY <2>8, <2>9
<1>5. CASE \E t \in Task, p \in NewPriorities : t # Idle /\ vTaskPrioritySet(t, p)
  <2>1. PICK t \in Task, p \in NewPriorities : vTaskPrioritySet(t, p)
    BY <1>5
  <2>2. /\ p \in Priority
        /\ uxPriority' = [uxPriority EXCEPT ![t] = IF Follows(t, p) THEN p ELSE uxPriority[t]]
        /\ uxBasePriority' = [uxBasePriority EXCEPT ![t] = p]
    BY <2>1, PrioritySetFacts
  <2>3. \A u \in Task : HeldBy(u)' = HeldBy(u)
    BY <2>1 DEF vTaskPrioritySet, mutexes, HeldBy
  <2>4. uxPriority \in [Task -> Priority] /\ uxBasePriority \in [Task -> Priority]
    BY DEF Inv, TypeOK
  <2>5. \A q \in Priority : q \in Int
    BY Priorities
  <2>6. uxPriority[t] \in Int /\ uxBasePriority[t] \in Int /\ p \in Int
    BY <2>2, <2>4, <2>5
  <2>7. CASE Follows(t, p)
    <3>1. uxPriority'[t] = p /\ uxBasePriority'[t] = p /\ p >= p
      BY <2>2, <2>4, <2>6, <2>7
    <3>2. \A u \in Task \ {t} : /\ uxPriority'[u] = uxPriority[u]
                                /\ uxBasePriority'[u] = uxBasePriority[u]
      BY <2>2, <2>4
    <3> QED BY <2>3, <3>1, <3>2 DEF Inv, BasePriorityKept
  <2>8. CASE ~Follows(t, p)
    <3>1. uxPriority'[t] = uxPriority[t] /\ uxBasePriority'[t] = p
      BY <2>2, <2>4, <2>8
    <3>2. \A u \in Task \ {t} : /\ uxPriority'[u] = uxPriority[u]
                                /\ uxBasePriority'[u] = uxBasePriority[u]
      BY <2>2, <2>4
    <3>3. uxPriority[t] # uxBasePriority[t] /\ uxPriority[t] >= p
      BY <2>6, <2>8 DEF Follows
    <3>4. HeldBy(t) # {}
      BY <3>3 DEF Inv, BasePriorityKept
    <3> QED BY <2>3, <3>1, <3>2, <3>3, <3>4 DEF Inv, BasePriorityKept
  <2> QED BY <2>7, <2>8
<1>6. CASE vTaskDelay
  BY <1>6, BaseStays DEF vTaskDelay, priorities, mutexes
<1>7. CASE \E t \in Task : TickWakes(t) \/ vTaskSwitchContext(t)
  BY <1>7, BaseStays DEF TickWakes, vTaskSwitchContext, priorities, mutexes
<1> QED BY <1>1, <1>2, <1>3, <1>4, <1>5, <1>6, <1>7, Actions
-----------------------------------------------------------------------------
\* Who looks for a free mutex.

\* While a mutex stays free nobody starts to wait for it, and those who look
\* for it go on.
LEMMA SeekersGoOn ==
  ASSUME Inv, Next, NEW m \in Mutexes, uxMessagesWaiting[m] = 1, uxMessagesWaiting'[m] = 1
  PROVE  /\ Waiters(m)' \subseteq Waiters(m)
         /\ \A u \in Task : Seeks(u, m) => Seeks(u, m)'
<1> PICK c : c = pxCurrentTCB
  OBVIOUS
<1>1. CASE Quiet
  <2>1. /\ Waiters(m)' = Waiters(m) /\ Blocked' = Blocked /\ ~yieldIrq /\ c \in Task
        /\ \A t \in Task \ {c} : pc'[t] = pc[t] /\ mutex'[t] = mutex[t]
    BY <1>1, QuietFacts DEF waiting, Waiters, Blocked
  <2>2. ASSUME Seeks(c, m)
        PROVE  Seeks(c, m)'
    <3>1. mutex[c] = m /\ m0 = m /\ pc[c] \in {"take", "check", "expired"}
      BY <2>2 DEF Seeks, m0
    <3>2. ~TakeSucceeds
      BY <3>1, HoldingTypes DEF TakeSucceeds
    <3>3. \/ pc' = pc /\ mutex' = mutex
          \/ /\ mutex' = mutex
             /\ \E label \in {"take", "expired"} : pc' = [pc EXCEPT ![c] = label]
      BY <1>1, <3>1, <3>2
         DEF Quiet, TakeAgain, GiveOnce, xQueueSemaphoreTake, CountTake, TakeFails,
             TakeRetries, TakeExpires, AfterTimeOut, TickTimeSlice, At, Available,
             Goto, call
    <3>4. pc'[c] \in {"take", "check", "expired"} /\ mutex'[c] = m
      BY <2>1, <3>1, <3>3, HoldingTypes
    <3> QED BY <2>1, <2>2, <3>4 DEF Seeks
  <2> QED BY <2>1, <2>2 DEF Seeks
<1>2. CASE TakeBlocks
  <2>1. /\ c \in Task /\ mutex[c] = m0 /\ uxMessagesWaiting[m0] = 0
        /\ Blocked' = Blocked \cup {c}
        /\ m # m0 => Waiters(m)' = Waiters(m)
    BY <1>2, BlockFacts DEF Waiters
  <2>2. mutex' = mutex /\ pc' = [pc EXCEPT ![c] = "take"]
    BY <1>2 DEF TakeBlocks, Goto
  <2>3. \A u \in Task : u # c => pc'[u] = pc[u]
    BY <2>2, HoldingTypes
  <2>4. m # m0
    BY <2>1
  <2> QED BY <2>1, <2>2, <2>3, <2>4 DEF Seeks
<1>3. CASE vTaskPriorityDisinheritAfterTimeout
  <2>1. /\ Waiters(m)' = Waiters(m) /\ Blocked' = Blocked /\ pc[c] = "disinherit"
        /\ pc' = [pc EXCEPT ![c] = "app"] /\ mutex' = [mutex EXCEPT ![c] = NoMutex]
    BY <1>3 DEF vTaskPriorityDisinheritAfterTimeout, waiting, Waiters, Blocked,
                At, ReturnFromTake, Goto
  <2> QED BY <2>1, HoldingTypes DEF Seeks
<1>4. CASE \E n \in Mutexes : xQueueSemaphoreGive(n)
  <2>1. PICK n \in Mutexes : xQueueSemaphoreGive(n)
    BY <1>4
  <2>2. UNCHANGED << pc, mutex >>
    BY <2>1 DEF xQueueSemaphoreGive, call
  <2>3. PICK first : first = Head(xTasksWaitingToReceive[n])
    OBVIOUS
  <2>4. \/ UNCHANGED waiting
        \/ /\ \A k \in Mutexes : Waiters(k)' = Waiters(k) \ {first}
           /\ Blocked' = Blocked \ {first}
    BY <2>1, <2>3, GiveFacts DEF Waiters
  <2>5. Blocked' \subseteq Blocked /\ Waiters(m)' \subseteq Waiters(m)
    BY <2>4 DEF waiting, Blocked, Waiters
  <2> QED BY <2>2, <2>5 DEF Seeks
<1>5. CASE vTaskDelay
  <2>1. /\ pc[c] = "app" /\ pxDelayed' = pxDelayed \cup {c}
        /\ UNCHANGED << xTasksWaitingToReceive, xSuspended, pc, mutex >>
    BY <1>5 DEF vTaskDelay, call, At
  <2>2. Blocked' = Blocked \cup {c} /\ Waiters(m)' = Waiters(m)
    BY <2>1 DEF Blocked, Waiters
  <2> QED BY <2>1, <2>2 DEF Seeks
<1>6. CASE \E t \in Task, p \in NewPriorities : t # Idle /\ vTaskPrioritySet(t, p)
  <2>1. Waiters(m)' = Waiters(m) /\ Blocked' = Blocked /\ UNCHANGED << pc, mutex >>
    BY <1>6 DEF vTaskPrioritySet, waiting, call, Waiters, Blocked
  <2> QED BY <2>1 DEF Seeks
<1>7. CASE \E t \in Task : TickWakes(t)
  <2>1. PICK t \in Task : TickWakes(t)
    BY <1>7
  <2>2. Waiters(m)' = Waiters(m) \ {t} /\ Blocked' = Blocked \ {t}
    BY <2>1, WakeFacts DEF Waiters
  <2>3. UNCHANGED << pc, mutex >>
    BY <2>1 DEF TickWakes
  <2> QED BY <2>2, <2>3 DEF Seeks
<1>8. CASE \E t \in Task : vTaskSwitchContext(t)
  <2>1. Waiters(m)' = Waiters(m) /\ Blocked' = Blocked /\ UNCHANGED << pc, mutex >>
    BY <1>8 DEF vTaskSwitchContext, waiting, call, Waiters, Blocked
  <2> QED BY <2>1 DEF Seeks
<1> QED BY <1>1, <1>2, <1>3, <1>4, <1>5, <1>6, <1>7, <1>8, Actions

\* A mutex comes free when its holder gives it.
LEMMA ComesFree ==
  ASSUME Inv, Next, NEW m \in Mutexes, uxMessagesWaiting[m] # 1, uxMessagesWaiting'[m] = 1
  PROVE  xQueueSemaphoreGive(m)
<1>1. CASE TakeSucceeds
  BY <1>1, HoldingTypes DEF TakeSucceeds
<1>2. CASE \E n \in Mutexes : xQueueSemaphoreGive(n)
  <2>1. PICK n \in Mutexes : xQueueSemaphoreGive(n)
    BY <1>2
  <2>2. uxMessagesWaiting' = [uxMessagesWaiting EXCEPT ![n] = @ + 1]
    BY <2>1 DEF xQueueSemaphoreGive
  <2> QED BY <2>1, <2>2, HoldingTypes
<1>3. CASE ~TakeSucceeds /\ ~\E n \in Mutexes : xQueueSemaphoreGive(n)
  BY <1>3 DEF Next, TakeStep, GiveStep, TakeAgain, GiveOnce, xQueueSemaphoreTake,
     CountTake, TakeFails, TakeBlocks, TakeRetries, TakeExpires, AfterTimeOut,
     vTaskPriorityDisinheritAfterTimeout, vTaskDelay, vTaskPrioritySet, TickWakes,
     vTaskSwitchContext, TickTimeSlice, mutexes
<1> QED BY <1>1, <1>2, <1>3

\* The first waiter, which a give has readied, looks for the mutex.
LEMMA FirstSeeks ==
  ASSUME Inv, NEW m \in Mutexes, xQueueSemaphoreGive(m), xTasksWaitingToReceive[m] # << >>
  PROVE  \E first \in Task : /\ first = Head(xTasksWaitingToReceive[m])
                              /\ first \in Waiters(m)
                              /\ Seeks(first, m)'
<1> PICK first : first = Head(xTasksWaitingToReceive[m])
  OBVIOUS
<1>1. first \in Waiters(m) /\ first \in Blocked /\ Blocked' = Blocked \ {first}
  BY GiveFacts
<1>2. first \in Task /\ mutex[first] = m /\ pc[first] \in {"app", "take"}
  BY <1>1, PlacementParts DEF Inv, Placement, Running, Blocked
<1>3. pc[first] = "take"
  BY <1>2, HoldingTypes DEF Inv, Holding, CallOK
<1>4. UNCHANGED << pc, mutex >>
  BY DEF xQueueSemaphoreGive, call
<1> QED BY <1>1, <1>2, <1>3, <1>4 DEF Seeks

\* A free mutex that tasks wait for stays sought.
LEMMA SoughtNext ==
  ASSUME Inv, Next
  PROVE  Sought'
<1> SUFFICES ASSUME NEW m \in Mutexes, uxMessagesWaiting'[m] = 1, Waiters(m)' # {}
             PROVE  \E u \in Task : Seeks(u, m)'
  BY DEF Sought
<1>1. CASE uxMessagesWaiting[m] = 1
  BY <1>1, SeekersGoOn DEF Inv, Sought
<1>2. CASE uxMessagesWaiting[m] # 1
  <2>1. xQueueSemaphoreGive(m)
    BY <1>2, ComesFree
  <2>2. CASE xTasksWaitingToReceive[m] = << >>
    <3>1. UNCHANGED waiting
      BY <2>1, <2>2, GiveFacts
    <3>2. Waiters(m)' = {}
      BY <2>2, <3>1 DEF waiting, Waiters, ToSet
    <3> QED BY <3>2
  <2>3. CASE xTasksWaitingToReceive[m] # << >>
    BY <2>1, <2>3, FirstSeeks
  <2> QED BY <2>2, <2>3
<1> QED BY <1>1, <1>2
-----------------------------------------------------------------------------
\* The theorems.

\* Free mutexes and ready tasks.
LEMMA InitInv == Init => Inv
<1> SUFFICES ASSUME Init PROVE Inv
  OBVIOUS
<1> USE MutexAssumption
<1>1. \A m \in Mutexes : xTasksWaitingToReceive[m] = << >> /\ Waiters(m) = {}
  BY DEF Init, Waiters, ToSet
<1>2. Blocked = {}
  BY DEF Init, Blocked
<1>3. ListsOK(Lists)
  <2> DEFINE used == {CreatedWith[t] : t \in Task}
  <2>1. used \subseteq Priority /\ used # {}
    OBVIOUS
  <2>2. /\ Lists.ready = pxReadyTasksLists /\ Lists.top = uxTopReadyPriority
        /\ pxReadyTasksLists \in [Priority -> SUBSET Task]
        /\ \A p \in Priority : pxReadyTasksLists[p] # {} => p \in used
        /\ uxTopReadyPriority = IF PortOptimised THEN used ELSE {Max(used)}
    BY DEF Lists, Init
  <2> HIDE DEF used
  <2>3. Max(used) \in Priority /\ \A p \in used : p <= Max(used)
    BY <2>1, Priorities
  <2> QED BY <2>1, <2>2, <2>3 DEF ListsOK
<1>4. Exact(pxReadyTasksLists, uxPriority, Task \ Blocked)
  BY <1>2 DEF Exact, Init
<1>5. Placement
  <2>1. pxDelayed \cap xSuspended = {} /\ xSuspended = {}
    BY DEF Init
  <2>2. \A m \in Mutexes : xTasksWaitingToReceive[m] \in Seq(Task)
                           /\ IsInjective(xTasksWaitingToReceive[m])
    <3>1. << >> \in Seq(Task) /\ IsInjective(<< >>)
      BY DEF IsInjective
    <3> QED BY <1>1, <3>1
  <2> QED BY <1>1, <1>3, <1>4, <2>1, <2>2 DEF Placement
<1>6. Running
  BY <1>2 DEF Running
<1>7. TypeOK
  <2>1. /\ pxReadyTasksLists \in [Priority -> SUBSET Task]
        /\ uxTopReadyPriority \subseteq Priority
    BY <1>3 DEF ListsOK, Lists
  <2>2. /\ uxMessagesWaiting \in [Mutexes -> {0, 1}]
        /\ xMutexHolder \in [Mutexes -> Task \cup {NoTask}]
        /\ uxRecursiveCallCount \in [Mutexes -> 0..MaxRecursion]
        /\ owned \in [Task -> SUBSET Mutexes]
        /\ uxMutexesHeld \in [Task -> Nat]
    BY DEF Init
  <2>3. xTasksWaitingToReceive \in [Mutexes -> Seq(Task)]
    <3>1. << >> \in Seq(Task)
      OBVIOUS
    <3> QED BY <3>1 DEF Init
  <2>4. /\ pxDelayed \subseteq Task /\ xSuspended \subseteq Task
        /\ uxPriority \in [Task -> Priority] /\ uxBasePriority \in [Task -> Priority]
        /\ eventPriority \in [Task -> Priority]
        /\ pxCurrentTCB \in Task /\ yieldIrq \in BOOLEAN
    BY DEF Init
  <2>5. /\ pc \in [Task -> {"app", "take", "count", "check", "expired", "disinherit"}]
        /\ mutex \in [Task -> Mutexes \cup {NoMutex}]
        /\ xTicksToWait \in [Task -> {"none", "ticks", "ever", "over"}]
        /\ xInheritanceOccurred \in [Task -> BOOLEAN]
    BY DEF Init
  <2> QED BY <2>1, <2>2, <2>3, <2>4, <2>5 DEF TypeOK
<1>8. Holding
  <2>1. \A t \in Task : CallOK(t)
    BY DEF Init, CallOK
  <2>2. \A m \in Mutexes : HolderOK(m)
    BY DEF Init, HolderOK
  <2>3. \A t \in Task : HeldBy(t) = {}
    BY DEF Init, HeldBy
  <2> QED BY <2>1, <2>2, <2>3, FS_EmptySet DEF Init, Holding
<1>9. BasePriorityKept
  BY Priorities DEF Init, BasePriorityKept
<1>10. Sought
  BY <1>1 DEF Sought
<1> QED BY <1>5, <1>6, <1>7, <1>8, <1>9, <1>10 DEF Inv

\* A step of the specification keeps the invariant.
LEMMA NextInv == Inv /\ [Next]_vars => Inv'
<1> SUFFICES ASSUME Inv, [Next]_vars PROVE Inv'
  OBVIOUS
<1>1. CASE Next
  <2>1. TypeOK'
    BY <1>1, PlaceTypesNext, CallTypesNext, HoldingNext DEF TypeOK, HoldTypes
  <2> QED BY <1>1, <2>1, MovesNext, HoldingNext, BaseNext, SoughtNext DEF Inv
<1>2. CASE UNCHANGED vars
  <2>1. /\ UNCHANGED << mutexes, waiting, priorities, uxMutexesHeld, lists,
                        pxCurrentTCB, yieldIrq, call >>
    BY <1>2 DEF vars
  <2>2. /\ UNCHANGED << uxMessagesWaiting, xMutexHolder, uxRecursiveCallCount, owned,
                        xTasksWaitingToReceive, pxDelayed, xSuspended, uxPriority,
                        uxBasePriority, eventPriority, pxReadyTasksLists,
                        uxTopReadyPriority, pc, mutex, xTicksToWait,
                        xInheritanceOccurred >>
        /\ \A m \in Mutexes : Waiters(m)' = Waiters(m)
        /\ Blocked' = Blocked /\ Lists' = Lists
        /\ \A t \in Task : HeldBy(t)' = HeldBy(t)
    BY <2>1 DEF mutexes, waiting, priorities, lists, call, Waiters, Blocked, Lists, HeldBy
  <2>3. TypeOK'
    BY <2>1, <2>2 DEF Inv, TypeOK
  <2>4. Placement' /\ Running'
    BY <2>1, <2>2 DEF Inv, Placement, Running
  <2>5. Holding'
    BY <2>1, <2>2, HoldingStays
  <2>6. BasePriorityKept' /\ Sought'
    BY <2>2 DEF Inv, BasePriorityKept, Sought, Seeks
  <2> QED BY <2>3, <2>4, <2>5, <2>6 DEF Inv
<1> QED BY <1>1, <1>2

\* The inductive invariant, for any constants that MutexAssumption allows.
THEOREM MutexInvariant == Spec => []Inv
BY InitInv, NextInv, PTL DEF Spec

\* Every variable keeps its type.
THEOREM MutexType == Spec => []TypeOK
<1>1. Inv => TypeOK
  BY DEF Inv
<1> QED BY <1>1, MutexInvariant, PTL

\* A mutex has one holder, who knows that it has it, and counts it.
THEOREM MutexExclusion == Spec => []MutualExclusion
<1>1. Inv => MutualExclusion
  <2> SUFFICES ASSUME Inv PROVE MutualExclusion
    OBVIOUS
  <2>1. ASSUME NEW m \in Mutexes
        PROVE  /\ \A t \in Task : m \in owned[t] => xMutexHolder[m] = t
               /\ (xMutexHolder[m] = NoTask) = (uxMessagesWaiting[m] = 1)
               /\ m \in Recursive => (uxRecursiveCallCount[m] > 0)
                                     = (\E t \in Task : m \in owned[t])
    <3>1. HolderOK(m)
      BY DEF Inv, Holding
    <3>2. (xMutexHolder[m] = NoTask) = (uxMessagesWaiting[m] = 1)
      BY <3>1 DEF HolderOK
    <3>3. ASSUME m \in Recursive
          PROVE  (uxRecursiveCallCount[m] > 0) = (\E t \in Task : m \in owned[t])
      <4> DEFINE some == \E t \in Task : m \in owned[t]
      <4>1. uxRecursiveCallCount[m] > 0 <=> some
        BY <3>1, <3>3 DEF HolderOK
      <4> HIDE DEF some
      <4>2. some \in BOOLEAN
        BY DEF some
      <4>3. (uxRecursiveCallCount[m] > 0) = some
        BY <4>1, <4>2
      <4> QED BY <4>3 DEF some
    <3> QED BY <3>1, <3>2, <3>3 DEF HolderOK
  <2> QED BY <2>1 DEF Inv, Holding, MutualExclusion
<1> QED BY <1>1, MutexInvariant, PTL

\* A task's priority is its own or an inherited one, and its own as soon as it
\* holds nothing.
THEOREM MutexBasePriority == Spec => []BasePriorityKept
<1>1. Inv => BasePriorityKept
  BY DEF Inv
<1> QED BY <1>1, MutexInvariant, PTL

\* A task is in the ready list of its priority or on one other list, and waits
\* for the mutex that it asked for.
THEOREM MutexOneList == Spec => []OneList
<1>1. Inv => OneList
  <2> SUFFICES ASSUME Inv PROVE OneList
    OBVIOUS
  <2>1. \A t \in Task : \A p \in Priority : t \in pxReadyTasksLists[p] => p = uxPriority[t]
    BY PlacementParts DEF Exact
  <2>2. \A t \in Task : IsReady(t) = (t \notin pxDelayed \cup xSuspended)
    BY PlacementParts DEF Exact, Blocked, IsReady
  <2> QED BY <2>1, <2>2 DEF Inv, Placement, OneList, Blocked
<1> QED BY <1>1, MutexInvariant, PTL

\* No mutex is left free while tasks wait for it and none is on its way to it.
THEOREM MutexSought == Spec => []FreeMutexIsSought
<1>1. Inv => FreeMutexIsSought
  BY PlacementParts DEF Inv, Sought, Seeks, FreeMutexIsSought
<1> QED BY <1>1, MutexInvariant, PTL
-----------------------------------------------------------------------------
(* Priority inheritance: a task waits for a holder of its priority or a     *)
(* higher one, and an inherited priority has a reason.  Both need that      *)
(* priorities are not set meanwhile, and that there is one mutex of any     *)
(* number of tasks: a waiter that holds another mutex can itself inherit,   *)
(* which the holder that it waits for does not get to know.                 *)

\* The hypotheses: what they exclude is not so with the code.
OneMutex == \A m, n \in Mutexes : m = n
PrioritiesStay == NewPriorities = {}

\* The event list is in the order of the priorities that the tasks have now.
EventOrder ==
  /\ eventPriority = uxPriority
  /\ \A m \in Mutexes : Descending(xTasksWaitingToReceive[m], uxPriority)

AboveWaiters(t, m) == \A w \in Waiters(m) : uxPriority[t] >= uxPriority[w]

\* A free mutex is sought by a task of no lower priority than those that still
\* wait, and no task of a lower priority runs before it without a switch: who
\* takes the mutex does not have to inherit.
FreeForTheHighest ==
  \A m \in Mutexes :
    uxMessagesWaiting[m] = 1 /\ Waiters(m) # {} =>
      /\ \E u \in Task : Seeks(u, m) /\ AboveWaiters(u, m)
      /\ yieldIrq \/ AboveWaiters(pxCurrentTCB, m)

\* u knows that the holder of m inherited, and waits or will take it back.
Accounts(u, m) ==
  /\ mutex[u] = m /\ xInheritanceOccurred[u]
  /\ \/ u \in Waiters(m)
     \/ pc[u] \in {"take", "check"} /\ xTicksToWait[u] = "over"
     \/ pc[u] \in {"expired", "disinherit"}

\* For a raised priority somebody accounts who has it.
Reason ==
  \A m \in Mutexes, h \in Task :
    xMutexHolder[m] = h /\ uxPriority[h] > uxBasePriority[h] =>
      \E u \in Task : Accounts(u, m) /\ uxPriority[u] >= uxPriority[h]

\* A waiter that is above the holder's base priority knows that it is.
Noted ==
  \A m \in Mutexes, h \in Task :
    xMutexHolder[m] = h =>
      \A w \in Waiters(m) : uxPriority[w] > uxBasePriority[h] => xInheritanceOccurred[w]

\* The inductive invariant, with that of MutexProofs.
Inherit == EventOrder /\ FreeForTheHighest /\ Reason /\ Noted /\ NoInversion
-----------------------------------------------------------------------------
\* The holder and the others.

\* Priorities can be compared.
LEMMA Numbers ==
  ASSUME Inv
  PROVE  \A t \in Task : /\ uxPriority[t] \in Int /\ uxBasePriority[t] \in Int
                         /\ uxPriority[t] >= uxBasePriority[t]
BY Priorities DEF Inv, TypeOK, BasePriorityKept

\* A holder holds one mutex; the others hold none and run at their own priority.
LEMMA Holder ==
  ASSUME OneMutex, Inv, NEW m \in Mutexes, NEW h \in Task, xMutexHolder[m] = h
  PROVE  /\ uxMutexesHeld[h] = 1
         /\ uxMessagesWaiting[m] = 0
         /\ \A t \in Task : t # h => HeldBy(t) = {} /\ uxPriority[t] = uxBasePriority[t]
<1>1. HeldBy(h) = {m} /\ \A t \in Task : t # h => HeldBy(t) = {}
  BY DEF OneMutex, HeldBy
<1>2. Cardinality({m}) = 1
  BY FS_Singleton
<1>3. uxMutexesHeld[h] = 1
  BY <1>1, <1>2 DEF Inv, Holding
<1>4. uxMessagesWaiting[m] = 0
  BY HoldingTypes DEF Inv, Holding, HolderOK
<1> QED BY <1>1, <1>3, <1>4 DEF Inv, BasePriorityKept

\* Nobody holds a free mutex.
LEMMA Free ==
  ASSUME OneMutex, Inv, NEW m \in Mutexes, uxMessagesWaiting[m] = 1
  PROVE  /\ xMutexHolder[m] = NoTask
         /\ \A t \in Task : HeldBy(t) = {} /\ uxPriority[t] = uxBasePriority[t]
<1>1. xMutexHolder[m] = NoTask
  BY DEF Inv, Holding, HolderOK
<1>2. \A t \in Task : HeldBy(t) = {}
  BY <1>1, MutexAssumption DEF OneMutex, HeldBy
<1> QED BY <1>1, <1>2 DEF Inv, BasePriorityKept

\* Who waits is in its call of Take, and does not hold the mutex.
LEMMA Waiting ==
  ASSUME OneMutex, Inv, NEW m \in Mutexes, NEW w \in Waiters(m)
  PROVE  /\ w \in Task /\ w \in Blocked /\ mutex[w] = m /\ pc[w] = "take"
         /\ xMutexHolder[m] # w /\ HeldBy(w) = {}
         /\ ~yieldIrq => w # pxCurrentTCB
<1>1. w \in Blocked /\ mutex[w] = m
  BY DEF Inv, Placement
<1>2. w \in Task /\ pc[w] \in {"app", "take"}
  BY <1>1, PlacementParts DEF Inv, Running, Blocked
<1>3. pc[w] = "take" /\ xMutexHolder[m] # w
  BY <1>1, <1>2, HoldingTypes DEF Inv, Holding, CallOK
<1>4. HeldBy(w) = {}
  BY <1>3 DEF OneMutex, HeldBy
<1> QED BY <1>1, <1>2, <1>3, <1>4 DEF Inv, Running
-----------------------------------------------------------------------------
\* What changes priorities.

\* A give by c of the mutex m: what GiveFacts says, in the words of this proof.
LEMMA Given ==
  ASSUME OneMutex, Inv, NEW m \in Mutexes, xQueueSemaphoreGive(m)
  PROVE  /\ pxCurrentTCB \in Task /\ xMutexHolder[m] = pxCurrentTCB
         /\ xMutexHolder'[m] = NoTask /\ ~yieldIrq /\ pxCurrentTCB' = pxCurrentTCB
         /\ uxPriority' = [uxPriority EXCEPT ![pxCurrentTCB] = uxBasePriority[pxCurrentTCB]]
         /\ uxBasePriority' = uxBasePriority
         /\ \/ eventPriority' = eventPriority /\ uxPriority' = uxPriority
            \/ eventPriority' = [eventPriority EXCEPT
                                   ![pxCurrentTCB] = uxBasePriority[pxCurrentTCB]]
<1> PICK c : c = pxCurrentTCB
  OBVIOUS
<1>1. /\ ~yieldIrq /\ xMutexHolder[m] = c
      /\ pxCurrentTCB' = pxCurrentTCB /\ uxBasePriority' = uxBasePriority
      /\ xMutexHolder' = [xMutexHolder EXCEPT ![m] = NoTask]
      /\ eventPriority' = IF LowersOnGive(c)
                          THEN [eventPriority EXCEPT ![c] = uxBasePriority[c]]
                          ELSE eventPriority
  BY DEF xQueueSemaphoreGive, At
<1>2. /\ c \in Task
      /\ uxPriority' = [uxPriority EXCEPT ![c] = IF LowersOnGive(c) THEN uxBasePriority[c]
                                                 ELSE uxPriority[c]]
  BY GiveFacts
<1>3. uxMutexesHeld[c] = 1
  BY <1>1, <1>2, Holder
<1>4. xMutexHolder'[m] = NoTask
  BY <1>1, HoldingTypes
<1>5. LowersOnGive(c) <=> uxPriority[c] # uxBasePriority[c]
  BY <1>3 DEF LowersOnGive
<1>6. CASE LowersOnGive(c)
  BY <1>1, <1>2, <1>4, <1>6
<1>7. CASE ~LowersOnGive(c)
  <2>1. uxPriority' = uxPriority /\ uxPriority[c] = uxBasePriority[c]
    BY <1>2, <1>5, <1>7, PlacementParts
  <2> QED BY <1>1, <1>2, <1>4, <1>7, <2>1, PlacementParts
<1> QED BY <1>6, <1>7

\* A holder disinherits after a time-out: it has from now on its own priority
\* or that of the first waiter, whichever is higher.
LEMMA Disinherited ==
  ASSUME OneMutex, Inv, EventOrder, vTaskPriorityDisinheritAfterTimeout
  PROVE  /\ m0 \in Mutexes /\ xMutexHolder' = xMutexHolder
         /\ uxBasePriority' = uxBasePriority /\ UNCHANGED waiting
         /\ xMutexHolder[m0] \notin Task =>
              eventPriority' = eventPriority /\ uxPriority' = uxPriority
         /\ \A h \in Task : xMutexHolder[m0] = h =>
              \E p \in Priority :
                 /\ p >= uxBasePriority[h]
                 /\ \A w \in Waiters(m0) : p >= uxPriority[w]
                 /\ p = uxBasePriority[h] \/ \E w \in Waiters(m0) : p = uxPriority[w]
                 /\ uxPriority' = [uxPriority EXCEPT ![h] = p]
                 /\ \/ eventPriority' = [eventPriority EXCEPT ![h] = p]
                    \/ eventPriority' = eventPriority /\ uxPriority' = uxPriority
<1> DEFINE d == prvGetDisinheritPriorityAfterTimeout(m0)
           s == xTasksWaitingToReceive[m0]
           q == Max({IF xMutexHolder[m0] = NoTask THEN 0 ELSE uxBasePriority[xMutexHolder[m0]],
                     d})
<1>1. m0 \in Mutexes
  <2>1. ~yieldIrq /\ pc[pxCurrentTCB] = "disinherit"
    BY DEF vTaskPriorityDisinheritAfterTimeout, At
  <2> QED BY <2>1, Here
<1>2. xMutexHolder' = xMutexHolder /\ uxBasePriority' = uxBasePriority /\ UNCHANGED waiting
  BY DEF vTaskPriorityDisinheritAfterTimeout, mutexes
<1>3. /\ q \in Priority /\ q >= d
      /\ xMutexHolder[m0] # NoTask => q >= uxBasePriority[xMutexHolder[m0]]
      /\ xMutexHolder[m0] # NoTask => q \in {uxBasePriority[xMutexHolder[m0]], d}
      /\ d \in Priority
      /\ xMutexHolder[m0] \in Task \cup {NoTask}
      /\ uxPriority' = IF Disinherits(xMutexHolder[m0], q)
                       THEN [uxPriority EXCEPT ![xMutexHolder[m0]] = q] ELSE uxPriority
      /\ eventPriority' = IF Disinherits(xMutexHolder[m0], q)
                          THEN [eventPriority EXCEPT ![xMutexHolder[m0]] = q]
                          ELSE eventPriority
  BY DisinheritFacts
<1>4. /\ \A w \in Waiters(m0) : d >= uxPriority[w]
      /\ d = 0 \/ \E w \in Waiters(m0) : d = uxPriority[w]
  <2>1. s \in Seq(Task) /\ Descending(s, uxPriority) /\ Waiters(m0) = ToSet(s)
        /\ uxPriority \in [Task -> Int]
    BY <1>1, PlacementParts, Priorities DEF EventOrder, Waiters
  <2>2. CASE s = << >>
    <3>1. Waiters(m0) = {}
      BY <2>2 DEF Waiters, ToSet
    <3> QED BY <2>2, <3>1 DEF prvGetDisinheritPriorityAfterTimeout
  <2>3. CASE s # << >>
    <3>1. d = uxPriority[Head(s)]
      BY <2>3 DEF prvGetDisinheritPriorityAfterTimeout, EventOrder
    <3>2. Head(s) \in ToSet(s)
      <4>1. s[1] = Head(s) /\ 1 \in 1..Len(s)
        BY <2>1, <2>3
      <4> QED BY <2>1, <4>1, InToSet
    <3>3. \A w \in ToSet(s) : uxPriority[Head(s)] >= uxPriority[w]
      <4> HIDE DEF s
      <4> QED BY <2>1, <2>3, DescendingHead
    <3> QED BY <2>1, <3>1, <3>2, <3>3
  <2> QED BY <2>2, <2>3
<1> HIDE DEF d, q
<1>5. ASSUME xMutexHolder[m0] \notin Task
      PROVE  eventPriority' = eventPriority /\ uxPriority' = uxPriority
  BY <1>3, <1>5 DEF Disinherits
<1>6. ASSUME NEW h \in Task, xMutexHolder[m0] = h
      PROVE  /\ q >= uxBasePriority[h]
             /\ \A w \in Waiters(m0) : q >= uxPriority[w]
             /\ q = uxBasePriority[h] \/ \E w \in Waiters(m0) : q = uxPriority[w]
             /\ uxPriority' = [uxPriority EXCEPT ![h] = q]
             /\ \/ eventPriority' = [eventPriority EXCEPT ![h] = q]
                \/ eventPriority' = eventPriority /\ uxPriority' = uxPriority
  <2>1. h # NoTask /\ uxMutexesHeld[h] = 1
    BY <1>1, <1>6, Holder, MutexAssumption
  <2>2. q >= uxBasePriority[h] /\ q \in {uxBasePriority[h], d}
    BY <1>3, <1>6, <2>1
  <2>3. /\ q \in Int /\ d \in Int /\ uxBasePriority[h] \in Int /\ uxBasePriority[h] >= 0
        /\ \A w \in Waiters(m0) : uxPriority[w] \in Int
    <3>1. uxBasePriority[h] \in Priority
      BY DEF Inv, TypeOK
    <3>2. \A x \in Priority : x \in Int /\ x >= 0
      BY Priorities
    <3>3. \A w \in Waiters(m0) : uxPriority[w] \in Int
      BY <1>1, Waiting, Numbers
    <3> QED BY <1>3, <3>1, <3>2, <3>3
  <2>4. \A w \in Waiters(m0) : q >= uxPriority[w]
    BY <1>3, <1>4, <2>3
  <2>5. q = uxBasePriority[h] \/ \E w \in Waiters(m0) : q = uxPriority[w]
    <3>1. CASE d = 0
      BY <1>3, <2>2, <2>3, <3>1
    <3>2. CASE d # 0
      BY <1>4, <2>2, <3>2
    <3> QED BY <3>1, <3>2
  <2>6. Disinherits(h, q) <=> uxPriority[h] # q
    BY <2>1 DEF Disinherits
  <2>7. CASE uxPriority[h] # q
    BY <1>3, <1>6, <2>2, <2>4, <2>5, <2>6, <2>7
  <2>8. CASE uxPriority[h] = q
    <3>1. uxPriority' = uxPriority /\ eventPriority' = eventPriority
      BY <1>3, <1>6, <2>6, <2>8
    <3>2. uxPriority' = [uxPriority EXCEPT ![h] = q]
      BY <2>8, <3>1, PlacementParts
    <3> QED BY <2>2, <2>4, <2>5, <3>1, <3>2
  <2> QED BY <2>7, <2>8
<1> QED BY <1>1, <1>2, <1>3, <1>5, <1>6

\* Only the holder's priority changes, and no base priority.
LEMMA OthersKeep ==
  ASSUME OneMutex, PrioritiesStay, Inv, EventOrder, Next
  PROVE  /\ uxBasePriority' = uxBasePriority
         /\ \A t \in Task : HeldBy(t) = {} =>
              uxPriority'[t] = uxPriority[t] /\ eventPriority'[t] = eventPriority[t]
<1>1. CASE Quiet
  BY <1>1, QuietFacts DEF priorities
<1>2. CASE TakeBlocks
  <2>1. m0 \in Mutexes /\ xMutexHolder[m0] \in Task
    BY <1>2, BlockFacts
  <2>2. PICK h \in Task, p \in Priority :
          /\ h = xMutexHolder[m0]
          /\ uxPriority' = [uxPriority EXCEPT ![h] = p] \/ uxPriority' = uxPriority
          /\ \/ eventPriority' = [eventPriority EXCEPT ![h] = p]
             \/ eventPriority' = eventPriority
    BY <1>2, <2>1, BlockFacts
  <2>3. HeldBy(h) # {}
    BY <2>1, <2>2 DEF HeldBy
  <2>4. uxBasePriority' = uxBasePriority
    BY <1>2 DEF TakeBlocks
  <2> QED BY <2>2, <2>3, <2>4, PlacementParts
<1>3. CASE vTaskPriorityDisinheritAfterTimeout
  <2>1. m0 \in Mutexes /\ uxBasePriority' = uxBasePriority
    BY <1>3, Disinherited
  <2>2. CASE xMutexHolder[m0] \notin Task
    BY <1>3, <2>1, <2>2, Disinherited
  <2>3. CASE xMutexHolder[m0] \in Task
    <3>1. PICK h \in Task, p \in Priority :
             /\ h = xMutexHolder[m0]
             /\ uxPriority' = [uxPriority EXCEPT ![h] = p]
             /\ \/ eventPriority' = [eventPriority EXCEPT ![h] = p]
                \/ eventPriority' = eventPriority
      BY <1>3, <2>3, Disinherited
    <3>2. HeldBy(h) # {}
      BY <2>1, <3>1 DEF HeldBy
    <3> QED BY <2>1, <3>1, <3>2, PlacementParts
  <2> QED BY <2>2, <2>3
<1>4. CASE \E m \in Mutexes : xQueueSemaphoreGive(m)
  <2>1. PICK m \in Mutexes : xQueueSemaphoreGive(m)
    BY <1>4
  <2>2. PICK c \in Task, p \in Priority :
          /\ c = pxCurrentTCB /\ xMutexHolder[m] = c
          /\ uxPriority' = [uxPriority EXCEPT ![c] = p]
          /\ uxBasePriority' = uxBasePriority
          /\ \/ eventPriority' = [eventPriority EXCEPT ![c] = p]
             \/ eventPriority' = eventPriority
    BY <2>1, Given DEF Inv, TypeOK
  <2>3. HeldBy(c) # {}
    BY <2>2 DEF HeldBy
  <2> QED BY <2>2, <2>3, PlacementParts
<1>5. CASE vTaskDelay
  BY <1>5 DEF vTaskDelay, priorities
<1>6. CASE \E t \in Task, p \in NewPriorities : t # Idle /\ vTaskPrioritySet(t, p)
  BY <1>6 DEF PrioritiesStay
<1>7. CASE \E t \in Task : TickWakes(t) \/ vTaskSwitchContext(t)
  BY <1>7 DEF TickWakes, vTaskSwitchContext, priorities
<1> QED BY <1>1, <1>2, <1>3, <1>4, <1>5, <1>6, <1>7, Actions
-----------------------------------------------------------------------------
\* The order of the event list.

\* Of the ranks only those of the list's elements matter.
LEMMA OrderKept ==
  ASSUME NEW s \in Seq(Task), NEW r1, NEW r2, Descending(s, r1),
         \A t \in ToSet(s) : r1[t] = r2[t]
  PROVE  Descending(s, r2)
<1>1. \A i \in DOMAIN s : s[i] \in ToSet(s)
  BY DEF ToSet
<1> QED BY <1>1 DEF Descending

\* vListInsert keeps the order.
LEMMA EventInsertOrder ==
  ASSUME eventPriority \in [Task -> Priority], NEW s \in Seq(Task), NEW t \in Task,
         Descending(s, eventPriority)
  PROVE  Descending(EventInsert(s, t), eventPriority)
<1> DEFINE n == Len(s)
           lower == {i \in 1..n : eventPriority[s[i]] < eventPriority[t]}
           k == IF lower = {} THEN n + 1 ELSE Min(lower)
<1>1. /\ n \in Nat /\ eventPriority \in [Task -> Int]
      /\ \A i \in 1..n : s[i] \in Task /\ eventPriority[s[i]] \in Int
      /\ eventPriority[t] \in Int
  <2>1. \A p \in Priority : p \in Int
    BY Priorities
  <2> QED BY <2>1
<1>2. /\ k \in Nat /\ 1 <= k /\ k <= n + 1
      /\ \A i \in 1..n : i < k => eventPriority[s[i]] >= eventPriority[t]
      /\ k \in 1..n => eventPriority[s[k]] <= eventPriority[t]
  <2>1. CASE lower = {}
    <3>1. \A i \in 1..n : ~(eventPriority[s[i]] < eventPriority[t])
      BY <2>1
    <3>2. k = n + 1
      BY <2>1
    <3> HIDE DEF k, lower
    <3> QED BY <1>1, <3>1, <3>2
  <2>2. CASE lower # {}
    <3>1. lower \subseteq Nat /\ lower \subseteq 1..n
      OBVIOUS
    <3>2. Min(lower) \in lower /\ \A i \in lower : Min(lower) <= i
      <4> HIDE DEF lower
      <4> QED BY <2>2, <3>1, MinIsLeast
    <3>3. k \in lower /\ \A i \in lower : k <= i
      BY <2>2, <3>2
    <3>4. \A i \in 1..n : i \in lower <=> eventPriority[s[i]] < eventPriority[t]
      OBVIOUS
    <3> HIDE DEF k, lower
    <3> QED BY <1>1, <3>1, <3>3, <3>4
  <2> QED BY <2>1, <2>2
<1>3. EventInsert(s, t) = InsertAt(s, k, t)
  BY DEF EventInsert
<1> HIDE DEF k
<1> QED BY <1>1, <1>2, <1>3, DescendingInsert

\* The list after a step is the one before it, or one task is inserted or
\* removed.
LEMMA ListSteps ==
  ASSUME OneMutex, PrioritiesStay, Inv, Next, NEW m \in Mutexes
  PROVE  LET s == xTasksWaitingToReceive[m]
         IN  \/ xTasksWaitingToReceive'[m] = s
             \/ xTasksWaitingToReceive'[m] = EventInsert(s, pxCurrentTCB)
                /\ TakeBlocks /\ m0 = m
             \/ s # << >> /\ xTasksWaitingToReceive'[m] = Tail(s)
             \/ \E t \in Task : xTasksWaitingToReceive'[m] = Without(s, t)
<1>1. CASE Quiet
  BY <1>1, QuietFacts DEF waiting
<1>2. CASE TakeBlocks
  <2>1. m0 \in Mutexes
        /\ xTasksWaitingToReceive' =
             [xTasksWaitingToReceive EXCEPT ![m0] = EventInsert(@, pxCurrentTCB)]
    BY <1>2, BlockFacts
  <2>2. m0 = m
    BY <2>1 DEF OneMutex
  <2> QED BY <1>2, <2>1, <2>2, PlacementParts
<1>3. CASE vTaskPriorityDisinheritAfterTimeout
  BY <1>3 DEF vTaskPriorityDisinheritAfterTimeout, waiting
<1>4. CASE \E n \in Mutexes : xQueueSemaphoreGive(n)
  <2>1. xQueueSemaphoreGive(m)
    BY <1>4 DEF OneMutex
  <2>2. \/ UNCHANGED waiting
        \/ /\ xTasksWaitingToReceive[m] # << >>
           /\ xTasksWaitingToReceive' = [xTasksWaitingToReceive EXCEPT ![m] = Tail(@)]
    BY <2>1, GiveFacts
  <2> QED BY <2>2, PlacementParts DEF waiting
<1>5. CASE vTaskDelay
  BY <1>5 DEF vTaskDelay
<1>6. CASE \E t \in Task, p \in NewPriorities : t # Idle /\ vTaskPrioritySet(t, p)
  BY <1>6 DEF PrioritiesStay
<1>7. CASE \E t \in Task : TickWakes(t)
  BY <1>7 DEF TickWakes
<1>8. CASE \E t \in Task : vTaskSwitchContext(t)
  BY <1>8 DEF vTaskSwitchContext, waiting
<1> QED BY <1>1, <1>2, <1>3, <1>4, <1>5, <1>6, <1>7, <1>8, Actions

\* The priorities are those of the event items, and the list stays in order.
LEMMA EventOrderNext ==
  ASSUME OneMutex, PrioritiesStay, Inv, EventOrder, Next
  PROVE  EventOrder'
<1>1. eventPriority' = uxPriority'
  <2>1. CASE Quiet
    BY <2>1, QuietFacts DEF priorities, EventOrder
  <2>2. CASE TakeBlocks
    BY <2>2, BlockFacts DEF EventOrder
  <2>3. CASE vTaskPriorityDisinheritAfterTimeout
    BY <2>3, Disinherited DEF EventOrder
  <2>4. CASE \E m \in Mutexes : xQueueSemaphoreGive(m)
    BY <2>4, Given DEF EventOrder
  <2>5. CASE vTaskDelay
    BY <2>5 DEF vTaskDelay, priorities, EventOrder
  <2>6. CASE \E t \in Task, p \in NewPriorities : t # Idle /\ vTaskPrioritySet(t, p)
    BY <2>6 DEF PrioritiesStay
  <2>7. CASE \E t \in Task : TickWakes(t) \/ vTaskSwitchContext(t)
    BY <2>7 DEF TickWakes, vTaskSwitchContext, priorities, EventOrder
  <2> QED BY <2>1, <2>2, <2>3, <2>4, <2>5, <2>6, <2>7, Actions
<1>2. ASSUME NEW m \in Mutexes
      PROVE  Descending(xTasksWaitingToReceive'[m], uxPriority')
  <2>1. PICK s, r, e : s = xTasksWaitingToReceive[m] /\ r = uxPriority
                       /\ e = xTasksWaitingToReceive'[m]
    OBVIOUS
  <2>2. /\ s \in Seq(Task) /\ IsInjective(s) /\ Descending(s, r) /\ r = eventPriority
        /\ eventPriority \in [Task -> Priority] /\ r \in [Task -> Int]
        /\ ToSet(s) = Waiters(m) /\ e \in Seq(Task)
    BY <2>1, PlacementParts, Priorities, PlaceTypesNext DEF EventOrder, Waiters
  <2>3. \A t \in ToSet(s) : r[t] = uxPriority'[t]
    BY <2>1, <2>2, OthersKeep, Waiting
  <2>4. CASE e = s
    BY <2>1, <2>2, <2>3, <2>4, OrderKept
  <2>5. CASE e = EventInsert(s, pxCurrentTCB) /\ TakeBlocks /\ m0 = m
    <3>1. pxCurrentTCB \in Task /\ pxCurrentTCB \notin ToSet(s)
          /\ xMutexHolder[m] # pxCurrentTCB
      BY <2>2, <2>5, BlockFacts
    <3>2. Descending(e, r) /\ ToSet(e) = ToSet(s) \cup {pxCurrentTCB}
      BY <2>2, <2>5, <3>1, EventInsertOrder, EventInsertList
    <3>3. HeldBy(pxCurrentTCB) = {}
      BY <3>1 DEF OneMutex, HeldBy
    <3>4. r[pxCurrentTCB] = uxPriority'[pxCurrentTCB]
      BY <2>1, <3>1, <3>3, OthersKeep
    <3> QED BY <2>1, <2>2, <2>3, <3>2, <3>4, OrderKept
  <2>6. CASE s # << >> /\ e = Tail(s)
    <3>1. Descending(e, r) /\ ToSet(e) = ToSet(s) \ {Head(s)}
      BY <2>2, <2>6, DescendingHead, DropHead
    <3> QED BY <2>1, <2>2, <2>3, <3>1, OrderKept
  <2>7. CASE \E t \in Task : e = Without(s, t)
    <3>1. PICK t \in Task : e = Without(s, t)
      BY <2>7
    <3>2. ToSet(e) = ToSet(s) \ {t}
      BY <2>2, <3>1, WithoutList
    <3>3. Descending(e, r)
      <4>1. CASE t \in ToSet(s)
        <5>1. e = uxListRemove(s, t)
          BY <3>1, <4>1 DEF Without, uxListRemove
        <5> QED BY <2>2, <4>1, <5>1, DescendingRemove
      <4>2. CASE t \notin ToSet(s)
        BY <2>2, <3>1, <4>2 DEF Without
      <4> QED BY <4>1, <4>2
    <3> QED BY <2>1, <2>2, <2>3, <3>2, <3>3, OrderKept
  <2> QED BY <2>1, <2>4, <2>5, <2>6, <2>7, ListSteps
<1> QED BY <1>1, <1>2 DEF EventOrder
-----------------------------------------------------------------------------
\* A free mutex is sought by the highest.

\* A switch goes to a ready task of the highest priority.
LEMMA SwitchToHighest ==
  ASSUME Inv, NEW t \in Task, vTaskSwitchContext(t)
  PROVE  pxCurrentTCB' = t /\ \A u \in Task \ Blocked : uxPriority[t] >= uxPriority[u]
<1>1. t \in pxReadyTasksLists[SelectedPriority] /\ pxCurrentTCB' = t
  BY DEF vTaskSwitchContext
<1>2. \A u \in Task \ Blocked : uxPriority[u] \in Priority
                                /\ u \in pxReadyTasksLists[uxPriority[u]]
  BY PlacementParts DEF Exact
<1>3. Idle \in Task \ Blocked
  BY MutexAssumption DEF Inv, Running
<1>4. /\ SelectedPriority \in Priority
      /\ \A p \in Priority : pxReadyTasksLists[p] # {} => p <= SelectedPriority
  BY <1>1, <1>2, <1>3, PlacementParts, Selected
<1>5. uxPriority[t] = SelectedPriority
  BY <1>1, <1>4, PlacementParts DEF Exact
<1>6. \A u \in Task \ Blocked : uxPriority[u] <= SelectedPriority
  BY <1>2, <1>4
<1> QED BY <1>1, <1>5, <1>6, Numbers

\* While the mutex stays free.
LEMMA StaysFree ==
  ASSUME OneMutex, PrioritiesStay, Inv, EventOrder, FreeForTheHighest, Next,
         NEW m \in Mutexes, uxMessagesWaiting[m] = 1, uxMessagesWaiting'[m] = 1,
         Waiters(m)' # {}
  PROVE  /\ \E u \in Task : Seeks(u, m)' /\ AboveWaiters(u, m)'
         /\ yieldIrq' \/ AboveWaiters(pxCurrentTCB, m)'
<1>1. /\ Waiters(m)' \subseteq Waiters(m) /\ Waiters(m) # {} /\ Waiters(m)' \subseteq Task
      /\ \A u \in Task : Seeks(u, m) => Seeks(u, m)'
  BY SeekersGoOn, Waiting
<1>2. \A t \in Task : uxPriority'[t] = uxPriority[t]
  BY Free, OthersKeep
<1>3. PICK u \in Task : Seeks(u, m) /\ AboveWaiters(u, m)
  BY <1>1 DEF FreeForTheHighest
<1>4. \A t \in Task : AboveWaiters(t, m) =>
        \A w \in Waiters(m)' : uxPriority'[t] >= uxPriority'[w]
  BY <1>1, <1>2 DEF AboveWaiters
<1>5. yieldIrq' \/ AboveWaiters(pxCurrentTCB, m)'
  <2>1. CASE \E t \in Task : vTaskSwitchContext(t)
    <3>1. PICK t \in Task : vTaskSwitchContext(t)
      BY <2>1
    <3>2. u \in Task \ Blocked
      BY <1>3 DEF Seeks
    <3>3. pxCurrentTCB' = t /\ uxPriority[t] >= uxPriority[u]
      BY <3>1, <3>2, SwitchToHighest
    <3>4. \A w \in Waiters(m) : /\ uxPriority[u] >= uxPriority[w]
                                /\ uxPriority[w] \in Int
                                /\ uxPriority[u] \in Int /\ uxPriority[t] \in Int
      BY <1>3, Waiting, Numbers DEF AboveWaiters
    <3>5. \A w \in Waiters(m) : uxPriority[t] >= uxPriority[w]
      BY <3>3, <3>4
    <3> QED BY <1>1, <1>2, <3>3, <3>5 DEF AboveWaiters
  <2>2. CASE ~\E t \in Task : vTaskSwitchContext(t)
    <3>1. /\ pxCurrentTCB' = pxCurrentTCB /\ pxCurrentTCB \in Task
          /\ yieldIrq => yieldIrq'
      <4>1. CASE Quiet
        BY <4>1, QuietFacts
      <4>2. CASE TakeBlocks \/ vTaskDelay
        BY <4>2 DEF TakeBlocks, vTaskDelay, Inv, TypeOK
      <4>3. CASE vTaskPriorityDisinheritAfterTimeout
        BY <4>3 DEF vTaskPriorityDisinheritAfterTimeout, Inv, TypeOK
      <4>4. CASE \E n \in Mutexes : xQueueSemaphoreGive(n)
        BY <4>4 DEF xQueueSemaphoreGive, At, Inv, TypeOK
      <4>5. CASE \E t \in Task, p \in NewPriorities : t # Idle /\ vTaskPrioritySet(t, p)
        BY <4>5 DEF PrioritiesStay
      <4>6. CASE \E t \in Task : TickWakes(t)
        BY <4>6 DEF TickWakes, Inv, TypeOK
      <4> QED BY <2>2, <4>1, <4>2, <4>3, <4>4, <4>5, <4>6, Actions
    <3>2. yieldIrq \/ AboveWaiters(pxCurrentTCB, m)
      BY <1>1 DEF FreeForTheHighest
    <3> QED BY <1>4, <3>1, <3>2 DEF AboveWaiters
  <2> QED BY <2>1, <2>2
<1>6. AboveWaiters(u, m)'
  BY <1>3, <1>4 DEF AboveWaiters
<1> QED BY <1>1, <1>3, <1>5, <1>6

\* When the mutex comes free: the first waiter is the highest, and gets the
\* processor unless the giver is not below it.
LEMMA GivenToHighest ==
  ASSUME OneMutex, PrioritiesStay, Inv, EventOrder, Next,
         NEW m \in Mutexes, xQueueSemaphoreGive(m), Waiters(m)' # {}
  PROVE  /\ \E u \in Task : Seeks(u, m)' /\ AboveWaiters(u, m)'
         /\ yieldIrq' \/ AboveWaiters(pxCurrentTCB, m)'
<1> PICK s, c : s = xTasksWaitingToReceive[m] /\ c = pxCurrentTCB
  OBVIOUS
<1>1. s # << >>
  <2>1. ASSUME s = << >> PROVE FALSE
    <3>1. UNCHANGED waiting
      BY <2>1, GiveFacts
    <3>2. xTasksWaitingToReceive'[m] = << >>
      BY <2>1, <3>1 DEF waiting
    <3> QED BY <3>2 DEF Waiters, ToSet
  <2> QED BY <2>1
<1>2. PICK u \in Task : u = Head(s) /\ u \in Waiters(m) /\ Seeks(u, m)'
  BY <1>1, FirstSeeks
<1>3. Waiters(m)' = Waiters(m) \ {u}
  BY <1>1, <1>2, GiveFacts DEF Waiters
<1>4. \A w \in Waiters(m) : uxPriority[u] >= uxPriority[w]
  <2>1. /\ s \in Seq(Task) /\ Descending(s, uxPriority) /\ uxPriority \in [Task -> Int]
        /\ ToSet(s) = Waiters(m)
    BY PlacementParts, Priorities DEF EventOrder, Waiters
  <2> QED BY <1>1, <1>2, <2>1, DescendingHead
<1>5. \A w \in Waiters(m) : /\ uxPriority'[w] = uxPriority[w] /\ uxPriority[w] \in Int
                            /\ w \in Task
  BY OthersKeep, Waiting, Numbers
<1>6. AboveWaiters(u, m)'
  BY <1>2, <1>3, <1>4, <1>5 DEF AboveWaiters
<1>7. /\ c \in Task /\ pxCurrentTCB' = c
      /\ yieldIrq' = (uxPriority[u] > uxPriority'[c])
      /\ uxPriority'[c] \in Int
  <2> DEFINE p == IF LowersOnGive(c) THEN uxBasePriority[c] ELSE uxPriority[c]
  <2>1. /\ c \in Task /\ uxPriority' = [uxPriority EXCEPT ![c] = p] /\ p \in Priority
        /\ yieldIrq' = (uxPriority[Head(s)] > p)
    BY <1>1, GiveFacts
  <2>2. pxCurrentTCB' = c
    BY DEF xQueueSemaphoreGive
  <2>3. p \in Int
    BY <2>1, Priorities
  <2> HIDE DEF p
  <2> QED BY <1>2, <2>1, <2>2, <2>3, PlacementParts
<1>8. CASE uxPriority[u] > uxPriority'[c]
  BY <1>2, <1>6, <1>7, <1>8
<1>9. CASE ~(uxPriority[u] > uxPriority'[c])
  <2>1. uxPriority'[c] >= uxPriority[u]
    BY <1>2, <1>5, <1>7, <1>9
  <2>2. \A w \in Waiters(m) : uxPriority'[c] >= uxPriority'[w]
    BY <1>2, <1>4, <1>5, <1>7, <2>1
  <2>3. AboveWaiters(pxCurrentTCB, m)'
    BY <1>3, <1>7, <2>2 DEF AboveWaiters
  <2> QED BY <1>2, <1>6, <2>3
<1> QED BY <1>8, <1>9

\* Both together.
LEMMA FreeNext ==
  ASSUME OneMutex, PrioritiesStay, Inv, EventOrder, FreeForTheHighest, Next
  PROVE  FreeForTheHighest'
<1> SUFFICES ASSUME NEW m \in Mutexes, uxMessagesWaiting'[m] = 1, Waiters(m)' # {}
             PROVE  /\ \E u \in Task : Seeks(u, m)' /\ AboveWaiters(u, m)'
                    /\ yieldIrq' \/ AboveWaiters(pxCurrentTCB, m)'
  BY DEF FreeForTheHighest
<1>1. CASE uxMessagesWaiting[m] = 1
  BY <1>1, StaysFree
<1>2. CASE uxMessagesWaiting[m] # 1
  BY <1>2, ComesFree, GivenToHighest
<1> QED BY <1>1, <1>2
-----------------------------------------------------------------------------
\* Who waits, who holds, and who accounts for it.

\* An action that neither takes nor gives the mutex, blocks, or lowers a priority.
LEMMA Others ==
  ASSUME OneMutex, PrioritiesStay, Inv, Next, NEW m \in Mutexes,
         ~TakeSucceeds, ~TakeBlocks, ~vTaskPriorityDisinheritAfterTimeout,
         ~xQueueSemaphoreGive(m)
  PROVE  /\ UNCHANGED << uxMessagesWaiting, xMutexHolder, uxPriority, uxBasePriority >>
         /\ Waiters(m)' \subseteq Waiters(m)
         /\ \A w \in Waiters(m)' : xInheritanceOccurred'[w] = xInheritanceOccurred[w]
<1>1. CASE Quiet
  <2>1. /\ UNCHANGED << uxPriority, uxBasePriority, xTasksWaitingToReceive >>
        /\ pxCurrentTCB \notin Blocked
    BY <1>1, QuietFacts DEF priorities, waiting
  <2>2. UNCHANGED << uxMessagesWaiting, xMutexHolder >>
    BY <1>1 DEF Quiet, TakeAgain, GiveOnce, xQueueSemaphoreTake, CountTake,
       TakeFails, TakeRetries, TakeExpires, AfterTimeOut, TickTimeSlice, mutexes
  <2>3. \/ xInheritanceOccurred' = xInheritanceOccurred
        \/ xInheritanceOccurred' = [xInheritanceOccurred EXCEPT ![pxCurrentTCB] = FALSE]
    BY <1>1 DEF Quiet, TakeAgain, GiveOnce, xQueueSemaphoreTake, CountTake,
       TakeFails, TakeRetries, TakeExpires, AfterTimeOut, TickTimeSlice,
       ReturnFromTake, call
  <2>4. Waiters(m)' = Waiters(m) /\ \A w \in Waiters(m) : w # pxCurrentTCB
    BY <2>1, Waiting DEF Waiters
  <2>5. \A w \in Waiters(m) : xInheritanceOccurred'[w] = xInheritanceOccurred[w]
    BY <2>3, <2>4, Waiting DEF Inv, TypeOK
  <2> QED BY <2>1, <2>2, <2>4, <2>5
<1>2. CASE vTaskDelay
  BY <1>2 DEF vTaskDelay, mutexes, priorities, call, Waiters
<1>3. CASE \E n \in Mutexes : xQueueSemaphoreGive(n)
  BY <1>3 DEF OneMutex
<1>4. CASE \E t \in Task, p \in NewPriorities : t # Idle /\ vTaskPrioritySet(t, p)
  BY <1>4 DEF PrioritiesStay
<1>5. CASE \E t \in Task : TickWakes(t)
  <2>1. PICK t \in Task : TickWakes(t)
    BY <1>5
  <2>2. Waiters(m)' = Waiters(m) \ {t}
    BY <2>1, WakeFacts DEF Waiters
  <2>3. UNCHANGED << uxMessagesWaiting, xMutexHolder, uxPriority, uxBasePriority,
                     xInheritanceOccurred >>
    BY <2>1 DEF TickWakes, mutexes, priorities
  <2> QED BY <2>2, <2>3
<1>6. CASE \E t \in Task : vTaskSwitchContext(t)
  BY <1>6 DEF vTaskSwitchContext, mutexes, priorities, waiting, call, Waiters
<1> QED BY <1>1, <1>2, <1>3, <1>4, <1>5, <1>6, Actions

\* The mutex is taken by a task that none of the waiters is above.
LEMMA Taken ==
  ASSUME OneMutex, Inv, FreeForTheHighest, TakeSucceeds, NEW m \in Mutexes
  PROVE  /\ UNCHANGED << uxPriority, uxBasePriority >> /\ Waiters(m)' = Waiters(m)
         /\ pxCurrentTCB \in Task /\ xMutexHolder'[m] = pxCurrentTCB
         /\ uxPriority[pxCurrentTCB] = uxBasePriority[pxCurrentTCB]
         /\ AboveWaiters(pxCurrentTCB, m)
<1>1. /\ ~yieldIrq /\ pc[pxCurrentTCB] = "take" /\ uxMessagesWaiting[m0] > 0
      /\ xMutexHolder' = [xMutexHolder EXCEPT ![m0] = pxCurrentTCB]
      /\ UNCHANGED << waiting, priorities >>
  BY DEF TakeSucceeds, At, Available
<1>2. m0 \in Mutexes /\ pxCurrentTCB \in Task
  BY <1>1, Here
<1>3. m0 = m
  BY <1>2 DEF OneMutex
<1>4. uxMessagesWaiting[m] = 1
  BY <1>1, <1>3, HoldingTypes
<1>5. uxPriority[pxCurrentTCB] = uxBasePriority[pxCurrentTCB]
  BY <1>2, <1>4, Free
<1>6. AboveWaiters(pxCurrentTCB, m)
  <2>1. CASE Waiters(m) = {}
    BY <2>1 DEF AboveWaiters
  <2>2. CASE Waiters(m) # {}
    BY <1>1, <1>4, <2>2 DEF FreeForTheHighest
  <2> QED BY <2>1, <2>2
<1> QED BY <1>1, <1>2, <1>3, <1>5, <1>6, HoldingTypes DEF waiting, priorities, Waiters

\* A task blocks: what BlockFacts says, in the words of this proof.
LEMMA Blocks ==
  ASSUME OneMutex, Inv, TakeBlocks, NEW m \in Mutexes
  PROVE  \E c, h \in Task :
           /\ c = pxCurrentTCB /\ h = xMutexHolder[m] /\ h # c /\ c \notin Waiters(m)
           /\ xMutexHolder' = xMutexHolder /\ uxBasePriority' = uxBasePriority
           /\ mutex[c] = m /\ UNCHANGED << mutex, xTicksToWait >>
           /\ pc[c] = "check" /\ xTicksToWait[c] # "over"
           /\ pc' = [pc EXCEPT ![c] = "take"]
           /\ Waiters(m)' = Waiters(m) \cup {c}
           /\ \A t \in Task \ {h} : uxPriority'[t] = uxPriority[t]
           /\ \/ uxPriority[h] >= uxPriority[c] /\ uxPriority'[h] = uxPriority[h]
              \/ /\ uxPriority[h] < uxPriority[c] /\ uxPriority'[h] = uxPriority[c]
                 /\ xInheritanceOccurred'[c]
           /\ uxBasePriority[h] < uxPriority[c] => xInheritanceOccurred'[c]
           /\ \A t \in Task \ {c} : xInheritanceOccurred'[t] = xInheritanceOccurred[t]
<1>1. m0 \in Mutexes /\ mutex[pxCurrentTCB] = m0 /\ pxCurrentTCB \in Task
  BY BlockFacts
<1>2. m0 = m
  BY <1>1 DEF OneMutex
<1>3. PICK c, h \in Task, p \in Priority : c = pxCurrentTCB /\ h = xMutexHolder[m] /\ p = uxPriority[c]
  BY <1>1, <1>2, BlockFacts DEF Inv, TypeOK
<1>4. /\ h # c /\ c \notin Waiters(m) /\ pc[c] = "check"
      /\ uxPriority' = IF uxPriority[h] < p THEN [uxPriority EXCEPT ![h] = p] ELSE uxPriority
      /\ xInheritanceOccurred' =
           [xInheritanceOccurred EXCEPT ![c] = (uxPriority[h] < p \/ uxBasePriority[h] < p)]
      /\ Waiters(m)' = Waiters(m) \cup {c}
  BY <1>2, <1>3, BlockFacts DEF Waiters
<1>5. /\ xMutexHolder' = xMutexHolder /\ uxBasePriority' = uxBasePriority
      /\ UNCHANGED << mutex, xTicksToWait >> /\ pc' = [pc EXCEPT ![c] = "take"]
      /\ xTicksToWait[c] # "over"
  BY <1>3 DEF TakeBlocks, mutexes, Goto
<1>6. xInheritanceOccurred \in [Task -> BOOLEAN]
  BY DEF Inv, TypeOK
<1>7. /\ (uxPriority[h] < p \/ uxBasePriority[h] < p) => xInheritanceOccurred'[c]
      /\ \A t \in Task \ {c} : xInheritanceOccurred'[t] = xInheritanceOccurred[t]
  BY <1>4, <1>6
<1>8. /\ uxPriority[h] < p => uxPriority'[h] = p
      /\ ~(uxPriority[h] < p) => uxPriority'[h] = uxPriority[h]
      /\ \A t \in Task \ {h} : uxPriority'[t] = uxPriority[t]
  BY <1>4, PlacementParts
<1>9. uxPriority[h] < p \/ uxPriority[h] >= p
  BY <1>3, Numbers
<1>10. /\ \/ uxPriority[h] >= uxPriority[c] /\ uxPriority'[h] = uxPriority[h]
          \/ /\ uxPriority[h] < uxPriority[c] /\ uxPriority'[h] = uxPriority[c]
             /\ xInheritanceOccurred'[c]
       /\ uxBasePriority[h] < uxPriority[c] => xInheritanceOccurred'[c]
  BY <1>3, <1>7, <1>8, <1>9
<1>11. mutex[c] = m
  BY <1>1, <1>2, <1>3
<1> WITNESS c \in Task, h \in Task
<1>12. /\ c = pxCurrentTCB /\ h = xMutexHolder[m] /\ h # c /\ c \notin Waiters(m)
       /\ xMutexHolder' = xMutexHolder /\ uxBasePriority' = uxBasePriority
       /\ mutex[c] = m /\ UNCHANGED << mutex, xTicksToWait >>
       /\ pc[c] = "check" /\ xTicksToWait[c] # "over"
       /\ pc' = [pc EXCEPT ![c] = "take"]
       /\ Waiters(m)' = Waiters(m) \cup {c}
       /\ \A t \in Task \ {h} : uxPriority'[t] = uxPriority[t]
  BY <1>3, <1>4, <1>5, <1>8, <1>11
<1> QED BY <1>7, <1>10, <1>12

\* A task waits for a holder of its priority or a higher one.
LEMMA InversionNext ==
  ASSUME OneMutex, PrioritiesStay, Inv, Inherit, Next
  PROVE  NoInversion'
<1> SUFFICES ASSUME NEW m \in Mutexes, NEW w \in Waiters(m)', xMutexHolder'[m] # NoTask
             PROVE  uxPriority'[xMutexHolder'[m]] >= uxPriority'[w]
  BY DEF NoInversion
<1>1. CASE TakeSucceeds
  BY <1>1, Taken DEF Inherit, AboveWaiters
<1>2. CASE TakeBlocks
  <2>1. PICK c, h \in Task :
           /\ h = xMutexHolder[m] /\ h # c /\ xMutexHolder' = xMutexHolder
           /\ Waiters(m)' = Waiters(m) \cup {c}
           /\ \A t \in Task \ {h} : uxPriority'[t] = uxPriority[t]
           /\ \/ uxPriority[h] >= uxPriority[c] /\ uxPriority'[h] = uxPriority[h]
              \/ uxPriority[h] < uxPriority[c] /\ uxPriority'[h] = uxPriority[c]
    BY <1>2, Blocks
  <2>2. h # NoTask /\ uxPriority[h] \in Int /\ uxPriority[c] \in Int
    BY Numbers, MutexAssumption
  <2>3. CASE w = c
    BY <2>1, <2>2, <2>3
  <2>4. CASE w # c
    <3>1. w \in Waiters(m) /\ w \in Task /\ w # h /\ uxPriority[w] \in Int
      BY <2>1, <2>4, Waiting, Numbers
    <3>2. uxPriority[h] >= uxPriority[w]
      BY <2>1, <2>2, <3>1 DEF Inherit, NoInversion
    <3> QED BY <2>1, <2>2, <3>1, <3>2
  <2> QED BY <2>3, <2>4
<1>3. CASE vTaskPriorityDisinheritAfterTimeout
  <2>1. /\ m0 \in Mutexes /\ xMutexHolder' = xMutexHolder /\ Waiters(m)' = Waiters(m)
    BY <1>3, Disinherited DEF Inherit, waiting, Waiters
  <2>2. m0 = m
    BY <2>1 DEF OneMutex
  <2>3. PICK h \in Task : h = xMutexHolder[m]
    BY <2>1, HoldingTypes
  <2>4. PICK p \in Priority : /\ uxPriority' = [uxPriority EXCEPT ![h] = p]
                              /\ \A v \in Waiters(m) : p >= uxPriority[v]
    BY <1>3, <2>2, <2>3, Disinherited DEF Inherit
  <2>5. w \in Task /\ w # h
    BY <2>1, <2>3, Waiting
  <2> QED BY <2>1, <2>3, <2>4, <2>5, PlacementParts
<1>4. CASE xQueueSemaphoreGive(m)
  BY <1>4, Given
<1>5. CASE /\ ~TakeSucceeds /\ ~TakeBlocks /\ ~vTaskPriorityDisinheritAfterTimeout
           /\ ~xQueueSemaphoreGive(m)
  BY <1>5, Others DEF Inherit, NoInversion
<1> QED BY <1>1, <1>2, <1>3, <1>4, <1>5

\* A waiter above the holder's base priority knows it.
LEMMA NotedNext ==
  ASSUME OneMutex, PrioritiesStay, Inv, Inherit, Next
  PROVE  Noted'
<1> SUFFICES ASSUME NEW m \in Mutexes, NEW h \in Task, xMutexHolder'[m] = h,
                    NEW w \in Waiters(m)', uxPriority'[w] > uxBasePriority'[h]
             PROVE  xInheritanceOccurred'[w]
  BY DEF Noted
<1>1. CASE TakeSucceeds
  <2>1. /\ w \in Waiters(m) /\ uxPriority[w] > uxBasePriority[h]
        /\ uxPriority[h] = uxBasePriority[h] /\ uxPriority[h] >= uxPriority[w]
    BY <1>1, Taken DEF Inherit, AboveWaiters
  <2> QED BY <2>1, Waiting, Numbers
<1>2. CASE TakeBlocks
  <2>1. PICK c, g \in Task :
           /\ g = xMutexHolder[m] /\ g # c /\ xMutexHolder' = xMutexHolder
           /\ uxBasePriority' = uxBasePriority
           /\ Waiters(m)' = Waiters(m) \cup {c}
           /\ \A t \in Task \ {g} : uxPriority'[t] = uxPriority[t]
           /\ uxBasePriority[g] < uxPriority[c] => xInheritanceOccurred'[c]
           /\ \A t \in Task \ {c} : xInheritanceOccurred'[t] = xInheritanceOccurred[t]
    BY <1>2, Blocks
  <2>2. CASE w = c
    BY <2>1, <2>2, Numbers
  <2>3. CASE w # c
    <3>1. w \in Waiters(m) /\ w \in Task /\ w # g
      BY <2>1, <2>3, Waiting
    <3> QED BY <2>1, <2>3, <3>1 DEF Inherit, Noted
  <2> QED BY <2>2, <2>3
<1>3. CASE vTaskPriorityDisinheritAfterTimeout
  <2>1. /\ xMutexHolder' = xMutexHolder /\ uxBasePriority' = uxBasePriority
        /\ Waiters(m)' = Waiters(m)
    BY <1>3, Disinherited DEF Inherit, waiting, Waiters
  <2>2. w \in Waiters(m) /\ w \in Task /\ uxPriority'[w] = uxPriority[w]
        /\ ~yieldIrq /\ w # pxCurrentTCB
    BY <1>3, <2>1, Waiting, OthersKeep
       DEF Inherit, vTaskPriorityDisinheritAfterTimeout, At
  <2>3. xInheritanceOccurred' = [xInheritanceOccurred EXCEPT ![pxCurrentTCB] = FALSE]
    BY <1>3 DEF vTaskPriorityDisinheritAfterTimeout, ReturnFromTake
  <2>4. xInheritanceOccurred'[w] = xInheritanceOccurred[w]
    BY <2>2, <2>3 DEF Inv, TypeOK
  <2> QED BY <2>1, <2>2, <2>4 DEF Inherit, Noted
<1>4. CASE xQueueSemaphoreGive(m)
  BY <1>4, Given, MutexAssumption
<1>5. CASE /\ ~TakeSucceeds /\ ~TakeBlocks /\ ~vTaskPriorityDisinheritAfterTimeout
           /\ ~xQueueSemaphoreGive(m)
  BY <1>5, Others DEF Inherit, Noted
<1> QED BY <1>1, <1>2, <1>3, <1>4, <1>5
\* Who accounts for an inherited priority goes on to do so while the mutex is
\* held, until it lets the holder disinherit.
LEMMA AccountsStay ==
  ASSUME OneMutex, PrioritiesStay, Inv, Next, NEW m \in Mutexes, NEW h \in Task,
         xMutexHolder[m] = h, xMutexHolder'[m] = h,
         ~vTaskPriorityDisinheritAfterTimeout, NEW u \in Task, Accounts(u, m)
  PROVE  Accounts(u, m)'
<1> PICK c : c = pxCurrentTCB
  OBVIOUS
<1>1. /\ uxMessagesWaiting[m] = 0 /\ h # NoTask
      /\ pc \in [Task -> {"app", "take", "count", "check", "expired", "disinherit"}]
      /\ xTicksToWait \in [Task -> {"none", "ticks", "ever", "over"}]
      /\ xInheritanceOccurred \in [Task -> BOOLEAN]
      /\ mutex \in [Task -> Mutexes \cup {NoMutex}]
  BY Holder, MutexAssumption DEF Inv, TypeOK
<1>2. mutex[u] = m /\ xInheritanceOccurred[u]
  BY DEF Accounts
<1>3. CASE Quiet
  <2>1. /\ Waiters(m)' = Waiters(m) /\ c \notin Blocked /\ c \in Task
        /\ \A t \in Task \ {c} : pc'[t] = pc[t] /\ mutex'[t] = mutex[t]
    BY <1>3, QuietFacts DEF waiting, Waiters
  <2>2. CASE u # c
    <3>1. /\ \/ xTicksToWait' = xTicksToWait
             \/ \E x : xTicksToWait' = [xTicksToWait EXCEPT ![c] = x]
          /\ \/ xInheritanceOccurred' = xInheritanceOccurred
             \/ \E x : xInheritanceOccurred' = [xInheritanceOccurred EXCEPT ![c] = x]
      BY <1>3 DEF Quiet, TakeAgain, GiveOnce, xQueueSemaphoreTake, TakeSucceeds,
         CountTake, TakeFails, TakeRetries, TakeExpires, AfterTimeOut, TickTimeSlice,
         ReturnFromTake, call
    <3>2. xTicksToWait'[u] = xTicksToWait[u]
          /\ xInheritanceOccurred'[u] = xInheritanceOccurred[u]
      BY <1>1, <2>2, <3>1
    <3> QED BY <2>1, <2>2, <3>2 DEF Accounts
  <2>3. CASE u = c
    <3>1. m0 = m /\ u \notin Waiters(m)
      BY <1>2, <2>1, <2>3, Waiting DEF m0
    <3>2. \/ pc[c] \in {"take", "check"} /\ xTicksToWait[c] = "over"
          \/ pc[c] \in {"expired", "disinherit"}
      BY <2>3, <3>1 DEF Accounts
    <3>3. /\ UNCHANGED << mutex, xInheritanceOccurred >>
          /\ \/ UNCHANGED << pc, xTicksToWait >>
             \/ /\ pc[c] = "take" /\ pc' = [pc EXCEPT ![c] = "check"]
                /\ UNCHANGED xTicksToWait
             \/ pc[c] = "check" /\ pc' = [pc EXCEPT ![c] = "expired"]
             \/ pc[c] = "expired" /\ pc' = [pc EXCEPT ![c] = "disinherit"]
      BY <1>1, <1>2, <1>3, <2>3, <3>1, <3>2
         DEF Quiet, TakeAgain, GiveOnce, xQueueSemaphoreTake, TakeSucceeds,
             CountTake, TakeFails, TakeRetries, TakeExpires, AfterTimeOut, TickTimeSlice,
             At, Available, Goto, call
    <3> QED BY <1>1, <1>2, <2>1, <2>3, <3>2, <3>3 DEF Accounts
  <2> QED BY <2>2, <2>3
<1>4. CASE TakeBlocks
  <2>1. PICK b \in Task :
           /\ Waiters(m)' = Waiters(m) \cup {b} /\ b \notin Waiters(m)
           /\ UNCHANGED << mutex, xTicksToWait >>
           /\ pc[b] = "check" /\ xTicksToWait[b] # "over"
           /\ pc' = [pc EXCEPT ![b] = "take"]
           /\ \A t \in Task \ {b} : xInheritanceOccurred'[t] = xInheritanceOccurred[t]
    BY <1>4, Blocks
  <2>2. u # b
    BY <2>1 DEF Accounts
  <2> QED BY <1>1, <2>1, <2>2 DEF Accounts
<1>5. CASE \E n \in Mutexes : xQueueSemaphoreGive(n)
  <2>1. xQueueSemaphoreGive(m)
    BY <1>5 DEF OneMutex
  <2> QED BY <1>1, <2>1, Given
<1>6. CASE vTaskDelay
  BY <1>6 DEF vTaskDelay, call, Waiters, Accounts
<1>7. CASE \E t \in Task, p \in NewPriorities : t # Idle /\ vTaskPrioritySet(t, p)
  BY <1>7 DEF PrioritiesStay
<1>8. CASE \E t \in Task : TickWakes(t)
  <2>1. PICK t \in Task : TickWakes(t)
    BY <1>8
  <2>2. Waiters(m)' = Waiters(m) \ {t}
    BY <2>1, WakeFacts DEF Waiters
  <2>3. /\ UNCHANGED << pc, mutex, xInheritanceOccurred >>
        /\ xTicksToWait' = [xTicksToWait EXCEPT ![t] = IF mutex[t] = NoMutex THEN @ ELSE "over"]
    BY <2>1 DEF TickWakes
  <2>4. u \in Waiters(m) => pc[u] = "take"
    BY Waiting
  <2>5. CASE u = t
    <3>1. xTicksToWait'[u] = "over"
      BY <1>1, <1>2, <2>3, <2>5, MutexAssumption
    <3> QED BY <2>3, <2>4, <3>1 DEF Accounts
  <2>6. CASE u # t
    BY <1>1, <2>2, <2>3, <2>6 DEF Accounts
  <2> QED BY <2>5, <2>6
<1>9. CASE \E t \in Task : vTaskSwitchContext(t)
  BY <1>9 DEF vTaskSwitchContext, waiting, call, Waiters, Accounts
<1> QED BY <1>3, <1>4, <1>5, <1>6, <1>7, <1>8, <1>9, Actions

\* For a raised priority somebody accounts.
LEMMA ReasonNext ==
  ASSUME OneMutex, PrioritiesStay, Inv, Inherit, Next
  PROVE  Reason'
<1> SUFFICES ASSUME NEW m \in Mutexes, NEW h \in Task, xMutexHolder'[m] = h,
                    uxPriority'[h] > uxBasePriority'[h]
             PROVE  \E u \in Task : Accounts(u, m)' /\ uxPriority'[u] >= uxPriority'[h]
  BY DEF Reason
<1>1. CASE TakeSucceeds
  BY <1>1, Taken, Numbers DEF Inherit
<1>2. CASE TakeBlocks
  <2>1. PICK c, g \in Task :
           /\ g = xMutexHolder[m] /\ g # c /\ xMutexHolder' = xMutexHolder
           /\ uxBasePriority' = uxBasePriority
           /\ mutex[c] = m /\ mutex' = mutex
           /\ Waiters(m)' = Waiters(m) \cup {c}
           /\ \A t \in Task \ {g} : uxPriority'[t] = uxPriority[t]
           /\ \/ uxPriority[g] >= uxPriority[c] /\ uxPriority'[g] = uxPriority[g]
              \/ /\ uxPriority[g] < uxPriority[c] /\ uxPriority'[g] = uxPriority[c]
                 /\ xInheritanceOccurred'[c]
    BY <1>2, Blocks
  <2>2. g = h
    BY <2>1
  <2>3. CASE uxPriority[h] >= uxPriority[c] /\ uxPriority'[h] = uxPriority[h]
    <3>1. PICK u \in Task : Accounts(u, m) /\ uxPriority[u] >= uxPriority[h]
      BY <2>1, <2>2, <2>3 DEF Inherit, Reason
    <3>2. Accounts(u, m)'
      BY <1>2, <2>1, <2>2, <3>1, AccountsStay
         DEF TakeBlocks, vTaskPriorityDisinheritAfterTimeout, At
    <3>3. uxPriority'[u] = uxPriority[u]
      BY <2>1, <2>2, <2>3
    <3> QED BY <2>3, <3>1, <3>2, <3>3
  <2>4. CASE uxPriority'[h] = uxPriority[c] /\ xInheritanceOccurred'[c]
    <3>1. Accounts(c, m)'
      BY <2>1, <2>4 DEF Accounts
    <3>2. uxPriority'[c] = uxPriority[c] /\ uxPriority[c] \in Int
      BY <2>1, Numbers
    <3> QED BY <2>4, <3>1, <3>2
  <2> QED BY <2>1, <2>2, <2>3, <2>4
<1>3. CASE vTaskPriorityDisinheritAfterTimeout
  <2>1. /\ m0 \in Mutexes /\ xMutexHolder' = xMutexHolder
        /\ uxBasePriority' = uxBasePriority /\ UNCHANGED waiting
    BY <1>3, Disinherited DEF Inherit
  <2>2. m0 = m /\ Waiters(m)' = Waiters(m)
    BY <2>1 DEF OneMutex, waiting, Waiters
  <2>3. PICK p \in Priority :
           /\ uxPriority' = [uxPriority EXCEPT ![h] = p]
           /\ p = uxBasePriority[h] \/ \E w \in Waiters(m) : p = uxPriority[w]
    BY <1>3, <2>1, <2>2, Disinherited DEF Inherit
  <2>4. uxPriority'[h] = p /\ p > uxBasePriority[h]
    BY <2>1, <2>3, PlacementParts
  <2>5. PICK w \in Waiters(m) : p = uxPriority[w]
    BY <2>3, <2>4, Numbers
  <2>6. /\ w \in Task /\ w # h /\ mutex[w] = m /\ w # pxCurrentTCB
        /\ uxPriority[w] \in Int
    BY <1>3, <2>1, <2>5, Waiting, Numbers DEF vTaskPriorityDisinheritAfterTimeout, At
  <2>7. xInheritanceOccurred[w]
    BY <2>1, <2>4, <2>5 DEF Inherit, Noted
  <2>8. /\ mutex' = [mutex EXCEPT ![pxCurrentTCB] = NoMutex]
        /\ xInheritanceOccurred' = [xInheritanceOccurred EXCEPT ![pxCurrentTCB] = FALSE]
    BY <1>3 DEF vTaskPriorityDisinheritAfterTimeout, ReturnFromTake
  <2>9. Accounts(w, m)'
    <3>1. mutex'[w] = m
      BY <2>6, <2>8, HoldingTypes
    <3>2. xInheritanceOccurred'[w]
      BY <2>6, <2>7, <2>8 DEF Inv, TypeOK
    <3> QED BY <2>2, <3>1, <3>2 DEF Accounts
  <2>10. uxPriority'[w] = uxPriority[w]
    BY <2>3, <2>6, PlacementParts
  <2> QED BY <2>4, <2>5, <2>6, <2>9, <2>10
<1>4. CASE xQueueSemaphoreGive(m)
  BY <1>4, Given, MutexAssumption
<1>5. CASE /\ ~TakeSucceeds /\ ~TakeBlocks /\ ~vTaskPriorityDisinheritAfterTimeout
           /\ ~xQueueSemaphoreGive(m)
  <2>1. UNCHANGED << xMutexHolder, uxPriority, uxBasePriority >>
    BY <1>5, Others
  <2>2. PICK u \in Task : Accounts(u, m) /\ uxPriority[u] >= uxPriority[h]
    BY <2>1 DEF Inherit, Reason
  <2> QED BY <1>5, <2>1, <2>2, AccountsStay
<1> QED BY <1>1, <1>2, <1>3, <1>4, <1>5
-----------------------------------------------------------------------------
\* The theorems.

\* Together with the invariant of MutexProofs it is inductive.
LEMMA InheritInvariant ==
  ASSUME OneMutex, PrioritiesStay
  PROVE  Spec => [](Inv /\ Inherit)
<1>1. Init => Inv /\ Inherit
  <2> SUFFICES ASSUME Init PROVE Inherit
    BY InitInv
  <2>1. \A m \in Mutexes : xTasksWaitingToReceive[m] = << >> /\ Waiters(m) = {}
    BY DEF Init, Waiters, ToSet
  <2>2. EventOrder
    BY <2>1 DEF Init, EventOrder, Descending
  <2>3. FreeForTheHighest /\ Noted /\ NoInversion
    BY <2>1 DEF FreeForTheHighest, Noted, NoInversion
  <2>4. Reason
    BY MutexAssumption DEF Init, Reason
  <2> QED BY <2>2, <2>3, <2>4 DEF Inherit
<1>2. Inv /\ Inherit /\ [Next]_vars => (Inv /\ Inherit)'
  <2> SUFFICES ASSUME Inv, Inherit, [Next]_vars PROVE Inherit'
    BY NextInv
  <2>1. CASE Next
    BY <2>1, EventOrderNext, FreeNext, ReasonNext, NotedNext, InversionNext DEF Inherit
  <2>2. CASE UNCHANGED vars
    <3>1. /\ UNCHANGED << mutexes, waiting, priorities, pxCurrentTCB, yieldIrq, call >>
      BY <2>2 DEF vars
    <3>2. /\ UNCHANGED << uxMessagesWaiting, xMutexHolder, xTasksWaitingToReceive,
                          pxDelayed, xSuspended, uxPriority, uxBasePriority,
                          eventPriority, pc, mutex, xTicksToWait, xInheritanceOccurred >>
          /\ \A m \in Mutexes : Waiters(m)' = Waiters(m)
          /\ Blocked' = Blocked
      BY <3>1 DEF mutexes, waiting, priorities, call, Waiters, Blocked
    <3>3. EventOrder' /\ NoInversion' /\ Noted'
      BY <3>2 DEF Inherit, EventOrder, NoInversion, Noted
    <3>4. FreeForTheHighest'
      BY <3>1, <3>2 DEF Inherit, FreeForTheHighest, Seeks, AboveWaiters
    <3>5. Reason'
      BY <3>2 DEF Inherit, Reason, Accounts
    <3> QED BY <3>3, <3>4, <3>5 DEF Inherit
  <2> QED BY <2>1, <2>2
<1> QED BY <1>1, <1>2, PTL DEF Spec

\* No priority inversion: whoever waits for the mutex waits for a holder that
\* runs at its priority or a higher one.
THEOREM MutexNoInversion ==
  ASSUME OneMutex, PrioritiesStay
  PROVE  Spec => []NoInversion
<1>1. Inherit => NoInversion
  BY DEF Inherit
<1> QED BY <1>1, InheritInvariant, PTL

\* A raised priority is that of a task in a call of Take of the mutex held.
THEOREM MutexInherits ==
  ASSUME OneMutex, PrioritiesStay
  PROVE  Spec => []InheritsForAWaiter
<1>1. Inv /\ Inherit => InheritsForAWaiter
  <2> SUFFICES ASSUME Inv, Inherit, NEW t \in Task, uxPriority[t] > uxBasePriority[t]
               PROVE  \E m \in HeldBy(t), u \in Task :
                        InCallOf(m, u) /\ uxPriority[u] >= uxPriority[t]
    BY DEF InheritsForAWaiter
  <2>1. HeldBy(t) # {}
    BY Numbers DEF Inv, BasePriorityKept
  <2>2. PICK m \in Mutexes : xMutexHolder[m] = t
    BY <2>1 DEF HeldBy
  <2>3. PICK u \in Task : Accounts(u, m) /\ uxPriority[u] >= uxPriority[t]
    BY <2>2 DEF Inherit, Reason
  <2>4. m \in HeldBy(t) /\ InCallOf(m, u)
    BY <2>2, <2>3 DEF HeldBy, Accounts, InCallOf
  <2> QED BY <2>3, <2>4
<1> QED BY <1>1, InheritInvariant, PTL
=============================================================================
