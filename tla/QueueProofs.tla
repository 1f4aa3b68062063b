---------------------------- MODULE QueueProofs ----------------------------
(***************************************************************************)
(* The queue for any number of tasks of any priorities, any length, any    *)
(* calls and any block times: its locks, its two waiting lists, the        *)
(* wake-ups that are not lost, and the bounded queue that it implements.   *)
(***************************************************************************)
EXTENDS Queue, ListRingProofs

\* Where a task has suspended the scheduler.
Suspending == {"check", "test", "place", "unlock", "unlockRx"}

\* Each task of a list occurs in it once, and in no other.
ListsOK ==
  /\ IsInjective(xTasksWaitingToSend) /\ IsInjective(xTasksWaitingToReceive)
  /\ ToSet(xTasksWaitingToSend) \cap ToSet(xTasksWaitingToReceive) = {}
  /\ \A t \in ToSet(xTasksWaitingToSend) : Sends(call[t].op)
  /\ \A t \in ToSet(xTasksWaitingToReceive) : Reads(call[t].op)

\* Where a task is, what it called, and whether it waits or has timed out.
TaskOK(t) ==
  /\ call[t].op \in (Calls \ {"reset"}) \cup {"none"}
  /\ (call[t].op = "none") = (pc[t] = "app")
  /\ Sends(call[t].op) = (call[t].item # NoItem)
  /\ call[t].op = "overwrite" => pc[t] = "first"
  /\ (pc[t] \in Suspending) = (suspender = t)
  /\ timedOut[t] => pc[t] \in {"unlock", "unlockRx", "recheck"}
  /\ Waiting(t) => pc[t] \in {"look", "unlock", "unlockRx"} /\ ~timedOut[t]

\* A task that has found the queue empty, or full, and is about to wait:
\* interrupts have counted what has changed since, as far as a lock counts.
AboutToWait ==
  \A t \in Task : pc[t] = "place" =>
    /\ Reads(call[t].op) =>
         uxMessagesWaiting <= cTxLock \/ cTxLock = Cardinality(Task)
    /\ Sends(call[t].op) =>
         uxLength - uxMessagesWaiting <= cRxLock \/ cRxLock = Cardinality(Task)

\* The inductive invariant but for the wake-ups.
Inv ==
  /\ TypeOK /\ LockedBySuspender
  /\ ListsOK
  /\ \A t \in Task : TaskOK(t)
  /\ AboutToWait
-----------------------------------------------------------------------------
\* The waiting lists.

\* What xTaskRemoveFromEventList leaves of a list.
LEMMA WokenList ==
  ASSUME NEW list \in Seq(Task), IsInjective(list)
  PROVE  /\ Woken(list) \in Seq(Task) /\ IsInjective(Woken(list))
         /\ list = << >> => Woken(list) = << >> /\ ToSet(list) = {}
         /\ list # << >> => /\ Head(list) \in ToSet(list)
                            /\ Head(list) \in Task
                            /\ ToSet(Woken(list)) = ToSet(list) \ {Head(list)}
         /\ ToSet(Woken(list)) \subseteq ToSet(list)
<1>1. CASE list = << >>
  BY <1>1 DEF Woken, ToSet
<1>2. CASE list # << >>
  BY <1>2, DropHead DEF Woken
<1> QED BY <1>1, <1>2

\* How many tasks prvUnlockQueue wakes.
LEMMA OwedNumber ==
  ASSUME NEW list \in Seq(Task), IsInjective(list), NEW lock \in Int
  PROVE  /\ WokenBy(lock, list) \in Seq(Task)
         /\ IsInjective(WokenBy(lock, list))
         /\ ToSet(WokenBy(lock, list)) \subseteq ToSet(list)
         /\ Owed(lock, list) = IF lock >= Len(list) THEN Len(list)
                               ELSE IF lock > 0 THEN lock ELSE 0
         /\ Owed(lock, list) = Len(list) => WokenBy(lock, list) = << >>
         /\ Cardinality(ToSet(list) \ ToSet(WokenBy(lock, list)))
              = Owed(lock, list)
<1> DEFINE e == WokenBy(lock, list)
<1>1. Len(list) \in Nat
  OBVIOUS
<1>2. /\ e \in Seq(Task) /\ IsInjective(e) /\ ToSet(e) \subseteq ToSet(list)
      /\ Len(list) - Len(e) = IF lock >= Len(list) THEN Len(list)
                              ELSE IF lock > 0 THEN lock ELSE 0
  <2>1. CASE lock >= Len(list)
    <3>1. e = << >>
      BY <2>1 DEF WokenBy
    <3> QED BY <3>1, <2>1, <1>1 DEF ToSet, IsInjective
  <2>2. CASE ~(lock >= Len(list)) /\ lock > 0
    <3>1. lock \in 0..Len(list) /\ e = SubSeq(list, lock + 1, Len(list))
      BY <2>2, <1>1 DEF WokenBy
    <3>2. /\ e \in Seq(Task) /\ IsInjective(e) /\ ToSet(e) \subseteq ToSet(list)
          /\ Len(e) = Len(list) - lock
      <4> HIDE DEF e
      <4> QED BY ONLY <3>1, DropFirst, list \in Seq(Task), IsInjective(list)
    <3> QED BY <2>2, <3>1, <3>2, <1>1
  <2>3. CASE ~(lock >= Len(list)) /\ ~(lock > 0)
    <3>1. e = list
      BY <2>3 DEF WokenBy
    <3> QED BY <3>1, <2>3, <1>1
  <2> QED BY <2>1, <2>2, <2>3
<1> HIDE DEF e
<1>3. Len(e) \in Nat /\ Len(e) = 0 => e = << >>
  BY <1>2
<1>4. Cardinality(ToSet(list) \ ToSet(e)) = Len(list) - Len(e)
  BY ONLY <1>2, DropCardinality, list \in Seq(Task), IsInjective(list)
<1>5. Owed(lock, list) = Len(list) - Len(e)
  BY DEF Owed, e
<1>6. Len(list) - Len(e) = Len(list) => e = << >>
  BY <1>1, <1>2, <1>3
<1> QED BY <1>2, <1>4, <1>5, <1>6 DEF e

\* What the lock count still owes, spelled out.
LEMMA OwedIs ==
  ASSUME NEW list \in Seq(Task), IsInjective(list), NEW lock \in Int
  PROVE  Owed(lock, list) = IF lock >= Len(list) THEN Len(list)
                            ELSE IF lock > 0 THEN lock ELSE 0
BY OwedNumber, Zenon

\* vTaskPlaceOnEventList
LEMMA PlacedList ==
  ASSUME NEW list \in Seq(Task), IsInjective(list),
         NEW t \in Task, t \notin ToSet(list)
  PROVE  /\ Placed(list, t) \in Seq(Task) /\ IsInjective(Placed(list, t))
         /\ ToSet(Placed(list, t)) = ToSet(list) \cup {t}
         /\ Len(Placed(list, t)) = Len(list) + 1
<1> DEFINE n == Len(list)
           lower == {i \in 1..n : uxPriority[list[i]] < uxPriority[t]}
           k == IF lower = {} THEN n + 1 ELSE Min(lower)
<1>1. n \in Nat
  OBVIOUS
<1>2. k \in Nat /\ 1 <= k /\ k <= n + 1
  <2>1. CASE lower = {}
    BY <2>1, <1>1
  <2>2. CASE lower # {}
    <3>1. lower \subseteq Nat /\ lower \subseteq 1..n
      OBVIOUS
    <3>2. Min(lower) \in lower
      <4> HIDE DEF lower
      <4> QED BY <2>2, <3>1, MinIsLeast
    <3>3. k \in 1..n
      BY <2>2, <3>1, <3>2
    <3> QED BY <3>3, <1>1
  <2> QED BY <2>1, <2>2
<1>3. Placed(list, t) = InsertAt(list, k, t)
  BY DEF Placed
<1> HIDE DEF k
<1> QED BY ONLY <1>2, <1>3, InsertElement, list \in Seq(Task), t \in Task,
                IsInjective(list), t \notin ToSet(list) DEF n

\* uxListRemove
LEMMA WithoutList ==
  ASSUME NEW list \in Seq(Task), IsInjective(list), NEW t
  PROVE  /\ Without(list, t) \in Seq(Task) /\ IsInjective(Without(list, t))
         /\ ToSet(Without(list, t)) = ToSet(list) \ {t}
         /\ t \notin ToSet(list) => Without(list, t) = list
<1>1. CASE t \in ToSet(list)
  <2>1. Without(list, t) = uxListRemove(list, t)
    BY <1>1 DEF Without, uxListRemove
  <2> QED BY <1>1, <2>1, RemoveElement
<1>2. CASE t \notin ToSet(list)
  BY <1>2 DEF Without
<1> QED BY <1>1, <1>2
-----------------------------------------------------------------------------
\* The circular buffer.

StoreOK ==
  /\ buffer \in [Position -> Item \cup {NoItem}]
  /\ uxMessagesWaiting \in 0..uxLength
  /\ pcWriteTo \in Position /\ pcReadFrom \in Position
  /\ pvBuffer \in Item \cup {NoItem}

\* What prvCopyDataToQueue does to the number of items.
LEMMA CopyTo ==
  ASSUME StoreOK, NEW x \in Item,
         NEW pos \in {"back", "front", "overwrite"},
         ~IsFull \/ pos = "overwrite", pos = "overwrite" => uxLength = 1,
         prvCopyDataToQueue(x, pos)
  PROVE  /\ StoreOK'
         /\ \/ uxMessagesWaiting' = uxMessagesWaiting + 1
            \/ IsFull /\ uxMessagesWaiting' = uxMessagesWaiting
<1>1. uxLength \in Nat \ {0} /\ Position = 0..(uxLength - 1)
  BY QueueAssumption DEF QueueAssumption, Position
<1>2. \A i \in Position : Following(i) \in Position /\ Preceding(i) \in Position
  BY <1>1 DEF Following, Preceding
<1>3. /\ buffer' \in [Position -> Item \cup {NoItem}]
      /\ pcWriteTo' \in Position /\ pcReadFrom' \in Position
      /\ pvBuffer' \in Item \cup {NoItem}
  BY <1>2 DEF StoreOK, prvCopyDataToQueue, CopyToFront
<1>4. /\ uxMessagesWaiting' \in 0..uxLength
      /\ \/ uxMessagesWaiting' = uxMessagesWaiting + 1
         \/ IsFull /\ uxMessagesWaiting' = uxMessagesWaiting
  BY <1>1 DEF StoreOK, prvCopyDataToQueue, CountWith, IsEmpty, IsFull
<1> QED BY <1>3, <1>4 DEF StoreOK

\* What prvCopyDataFromQueue does to it.
LEMMA CopyFrom ==
  ASSUME StoreOK, NEW takes \in BOOLEAN, ~IsEmpty,
         prvCopyDataFromQueue(takes)
  PROVE  /\ StoreOK'
         /\ uxMessagesWaiting' = uxMessagesWaiting - (IF takes THEN 1 ELSE 0)
<1>1. uxLength \in Nat \ {0} /\ Position = 0..(uxLength - 1)
  BY QueueAssumption DEF QueueAssumption, Position
<1>2. \A i \in Position : Following(i) \in Position
  BY <1>1 DEF Following
<1>3. Following(pcReadFrom) \in Position
  BY <1>2 DEF StoreOK
<1> QED BY <1>1, <1>3 DEF StoreOK, prvCopyDataFromQueue, IsEmpty
-----------------------------------------------------------------------------
\* Steps, and what they leave.

LocksTyped == cRxLock \in Lock /\ cTxLock \in Lock

CallRecord ==
  [op : {"none", "back", "front", "overwrite", "receive", "peek"},
   item : Item \cup {NoItem}, wait : {"none", "some", "forever"}]

CallersTyped ==
  /\ pc \in [Task -> Places] /\ call \in [Task -> CallRecord]
  /\ timedOut \in [Task -> BOOLEAN] /\ ucDelayAborted \in [Task -> BOOLEAN]
  /\ cause \in [Task -> SUBSET {"time", "abort"}]

ListsTyped ==
  xTasksWaitingToSend \in Seq(Task) /\ xTasksWaitingToReceive \in Seq(Task)

\* The type invariant, part by part.
LEMMA TypeParts ==
  TypeOK <=> /\ StoreOK /\ LocksTyped /\ ListsTyped /\ CallersTyped
             /\ suspender \in Task \cup {NoTask}
BY DEF TypeOK, StoreOK, LocksTyped, ListsTyped, CallersTyped, CallRecord

\* Lists that have only lost tasks.
LEMMA ListsShrink ==
  ASSUME ListsTyped, ListsOK, ListsTyped',
         IsInjective(xTasksWaitingToSend)', IsInjective(xTasksWaitingToReceive)',
         ToSet(xTasksWaitingToSend)' \subseteq ToSet(xTasksWaitingToSend),
         ToSet(xTasksWaitingToReceive)' \subseteq ToSet(xTasksWaitingToReceive),
         \A u \in Task : Waiting(u)' => call'[u].op = call[u].op
  PROVE  ListsOK' /\ \A u \in Task : Waiting(u)' => Waiting(u)
<1>1. /\ ToSet(xTasksWaitingToSend) \subseteq Task
      /\ ToSet(xTasksWaitingToReceive) \subseteq Task
  BY DEF ListsTyped, ToSet
<1>2. \A u \in Task : Waiting(u)' => Waiting(u)
  BY DEF Waiting
<1>3. ListsOK'
  BY <1>1, <1>2 DEF ListsOK, Waiting
<1> QED BY <1>2, <1>3

\* A task that does nothing in the step of another.
LEMMA OtherTask ==
  ASSUME NEW u \in Task, TaskOK(u),
         pc'[u] = pc[u], call'[u] = call[u], timedOut'[u] = timedOut[u],
         (suspender' = u) = (suspender = u), Waiting(u)' => Waiting(u)
  PROVE  TaskOK(u)'
BY DEF TaskOK

\* A task that runs outside its own suspension runs in none, and the queue is
\* not locked.
LEMMA RunsUnlocked ==
  ASSUME Inv, NEW t \in Task, Runs(t), pc[t] \notin Suspending
  PROVE  /\ ~Waiting(t) /\ suspender = NoTask
         /\ cRxLock = queueUNLOCKED /\ cTxLock = queueUNLOCKED
         /\ \A u \in Task : pc[u] \notin Suspending
BY QueueAssumption DEF QueueAssumption, Inv, TaskOK, Runs, LockedBySuspender

\* Its parts make up the invariant of the next state.
LEMMA NextInv ==
  ASSUME StoreOK', LocksTyped', ListsTyped', CallersTyped',
         suspender' \in Task \cup {NoTask}, LockedBySuspender', ListsOK',
         \A u \in Task : TaskOK(u)', AboutToWait'
  PROVE  Inv'
BY DEF Inv, TypeOK, StoreOK, LocksTyped, ListsTyped, CallersTyped, CallRecord

\* The invariant, part by part.
LEMMA InvParts ==
  ASSUME Inv
  PROVE  /\ StoreOK /\ LocksTyped /\ ListsTyped /\ CallersTyped
         /\ suspender \in Task \cup {NoTask} /\ LockedBySuspender /\ ListsOK
         /\ (\A u \in Task : TaskOK(u)) /\ AboutToWait
BY TypeParts DEF Inv

\* A new queue.
LEMMA InitInv == Init => Inv
<1> SUFFICES ASSUME Init PROVE Inv
  OBVIOUS
<1>1. StoreOK
  BY QueueAssumption DEF QueueAssumption, Init, StoreOK, Position
<1>2. LocksTyped /\ ListsTyped /\ CallersTyped
  <2>1. Cardinality(Task) \in Nat
    BY QueueAssumption, FS_CardinalityType DEF QueueAssumption
  <2> QED BY <2>1 DEF Init, LocksTyped, ListsTyped, CallersTyped, CallRecord,
             Lock, queueUNLOCKED, Places, NoCall
<1>3. suspender \in Task \cup {NoTask} /\ LockedBySuspender
  BY DEF Init, LockedBySuspender
<1>4. ListsOK /\ \A u \in Task : ~Waiting(u)
  BY DEF Init, ListsOK, Waiting, IsInjective, ToSet
<1>5. \A u \in Task : TaskOK(u)
  BY <1>4, QueueAssumption
     DEF Init, TaskOK, NoCall, Sends, Suspending, QueueAssumption
<1>6. AboutToWait
  BY DEF Init, AboutToWait
<1> QED BY <1>1, <1>2, <1>3, <1>4, <1>5, <1>6, TypeParts DEF Inv

\* A call begins.
LEMMA CallInv ==
  ASSUME Inv, NEW t \in Task, NEW op \in Calls \ {"reset"},
         NEW x \in Item \cup {NoItem}, NEW w \in Waits, Call(t, op, x, w)
  PROVE  Inv'
<1>1. /\ ~Waiting(t) /\ suspender = NoTask
      /\ cRxLock = queueUNLOCKED /\ cTxLock = queueUNLOCKED
      /\ \A u \in Task : pc[u] \notin Suspending
  BY RunsUnlocked DEF Call, At, Suspending
<1>2. /\ StoreOK /\ LocksTyped /\ ListsTyped /\ CallersTyped /\ ListsOK
      /\ \A u \in Task : TaskOK(u)
  BY InvParts
<1>3. /\ op \in {"back", "front", "overwrite", "receive", "peek"}
      /\ w \in {"none", "some", "forever"}
  BY QueueAssumption DEF QueueAssumption
<1>4. StoreOK' /\ LocksTyped' /\ ListsTyped'
  BY <1>2 DEF Call, StoreOK, LocksTyped, ListsTyped, store, locks, waiting
<1>5. CallersTyped'
  BY <1>2, <1>3 DEF Call, CallersTyped, CallRecord, Goto, Places
<1>6. suspender' \in Task \cup {NoTask} /\ LockedBySuspender'
  BY <1>1 DEF Call, LockedBySuspender, locks
<1>7. \A u \in Task : u # t => pc'[u] = pc[u] /\ call'[u] = call[u]
  BY <1>2 DEF Call, Goto, CallersTyped
<1>8. ListsOK' /\ \A u \in Task : Waiting(u)' => Waiting(u)
  BY <1>1, <1>2, <1>7, ListsShrink DEF Call, waiting, ListsOK, Waiting
<1>9. ASSUME NEW u \in Task PROVE TaskOK(u)'
  <2>1. CASE u # t
    BY <2>1, <1>2, <1>7, <1>8, OtherTask DEF Call
  <2>2. CASE u = t
    <3>1. /\ pc'[t] = "first" /\ call'[t] = [op |-> op, item |-> x, wait |-> w]
          /\ timedOut' = timedOut /\ suspender' = suspender
      BY <1>2 DEF Call, Goto, CallersTyped
    <3>2. Sends(op) = (x # NoItem) /\ pc[t] = "app"
      BY DEF Call, At
    <3> QED BY <2>2, <3>1, <3>2, <1>1, <1>2, <1>3, <1>8, QueueAssumption
            DEF TaskOK, Suspending, QueueAssumption
  <2> QED BY <2>1, <2>2
<1>10. AboutToWait'
  BY <1>1, <1>2 DEF Call, Goto, CallersTyped, AboutToWait, Suspending
<1> QED BY <1>4, <1>5, <1>6, <1>8, <1>9, <1>10, NextInv

\* A call returns.
LEMMA Returns ==
  ASSUME CallersTyped, NEW t \in Task, Return(t),
         ucDelayAborted' = ucDelayAborted
  PROVE  /\ CallersTyped' /\ pc'[t] = "app" /\ call'[t] = NoCall
         /\ timedOut'[t] = FALSE
         /\ \A u \in Task : u # t => /\ pc'[u] = pc[u] /\ call'[u] = call[u]
                                     /\ timedOut'[u] = timedOut[u]
BY DEF Return, Goto, CallersTyped, CallRecord, NoCall, Places

\* What a call sends, and that only a queue of one is overwritten.
LEMMA SendCall ==
  ASSUME Inv, NEW t \in Task
  PROVE  /\ Sends(call[t].op) => call[t].item \in Item
         /\ call[t].op = "overwrite" => uxLength = 1
<1>1. CallersTyped /\ TaskOK(t)
  BY InvParts
<1>2. call[t].item \in Item \cup {NoItem}
  BY <1>1 DEF CallersTyped, CallRecord
<1>3. /\ Sends(call[t].op) = (call[t].item # NoItem)
      /\ call[t].op \in (Calls \ {"reset"}) \cup {"none"}
  BY <1>1 DEF TaskOK
<1> QED BY <1>2, <1>3, QueueAssumption DEF QueueAssumption

\* A call is served.
LEMMA ServedInv ==
  ASSUME Inv, NEW t \in Task, Served(t)
  PROVE  Inv'
<1>1. /\ ~Waiting(t) /\ suspender = NoTask
      /\ cRxLock = queueUNLOCKED /\ cTxLock = queueUNLOCKED
      /\ \A u \in Task : pc[u] \notin Suspending
  BY RunsUnlocked DEF Served, At, Suspending
<1>2. /\ StoreOK /\ LocksTyped /\ ListsTyped /\ CallersTyped /\ ListsOK
      /\ \A u \in Task : TaskOK(u)
  BY InvParts
<1> DEFINE op == call[t].op
<1>3. /\ Sends(op) => call[t].item \in Item
      /\ op = "overwrite" => uxLength = 1
  BY SendCall
<1>4. StoreOK' /\ ListsTyped' /\ IsInjective(xTasksWaitingToSend)'
      /\ IsInjective(xTasksWaitingToReceive)'
      /\ ToSet(xTasksWaitingToSend)' \subseteq ToSet(xTasksWaitingToSend)
      /\ ToSet(xTasksWaitingToReceive)' \subseteq ToSet(xTasksWaitingToReceive)
  <2>1. CASE /\ Sends(op) /\ (~IsFull \/ op = "overwrite")
             /\ prvCopyDataToQueue(call[t].item, op) /\ WakeReceiver
    <3>1. StoreOK'
      BY <2>1, <1>2, <1>3, CopyTo DEF Sends
    <3> QED BY <2>1, <3>1, <1>2, WokenList DEF WakeReceiver, ListsTyped, ListsOK
  <2>2. CASE /\ op = "receive" /\ ~IsEmpty /\ prvCopyDataFromQueue(TRUE)
             /\ WakeSender
    <3>1. StoreOK'
      BY <2>2, <1>2, CopyFrom
    <3> QED BY <2>2, <3>1, <1>2, WokenList DEF WakeSender, ListsTyped, ListsOK
  <2>3. CASE /\ op = "peek" /\ ~IsEmpty /\ prvCopyDataFromQueue(FALSE)
             /\ WakeNextReader
    <3>1. StoreOK'
      BY <2>3, <1>2, CopyFrom
    <3> QED BY <2>3, <3>1, <1>2, WokenList
            DEF WakeNextReader, WakeReceiver, ListsTyped, ListsOK
  <2> QED BY <2>1, <2>2, <2>3 DEF Served
<1>5. /\ CallersTyped' /\ pc'[t] = "app" /\ call'[t] = NoCall
      /\ timedOut'[t] = FALSE
      /\ \A u \in Task : u # t => /\ pc'[u] = pc[u] /\ call'[u] = call[u]
                                  /\ timedOut'[u] = timedOut[u]
  BY <1>2, Returns DEF Served
<1>6. LocksTyped' /\ suspender' = NoTask /\ LockedBySuspender'
  BY <1>1, <1>2 DEF Served, locks, LocksTyped, LockedBySuspender
<1>7. ListsOK' /\ \A u \in Task : Waiting(u)' => Waiting(u)
  <2>1. ~Waiting(t)'
    BY <1>1, <1>4 DEF Waiting
  <2> QED BY <2>1, <1>2, <1>4, <1>5, ListsShrink
<1>8. ASSUME NEW u \in Task PROVE TaskOK(u)'
  <2>1. CASE u # t
    BY <2>1, <1>1, <1>2, <1>5, <1>6, <1>7, OtherTask
  <2>2. CASE u = t
    BY <2>2, <1>1, <1>5, <1>6, <1>7, QueueAssumption
       DEF TaskOK, NoCall, Sends, Suspending, QueueAssumption
  <2> QED BY <2>1, <2>2
<1>9. AboutToWait'
  BY <1>1, <1>5 DEF AboutToWait, Suspending
<1> QED BY <1>4, <1>5, <1>6, <1>7, <1>8, <1>9, NextInv

\* It is not: the task returns or goes on to wait.
LEMMA NotServedInv ==
  ASSUME Inv, NEW t \in Task, NotServed(t)
  PROVE  Inv'
<1>1. /\ ~Waiting(t) /\ suspender = NoTask
      /\ cRxLock = queueUNLOCKED /\ cTxLock = queueUNLOCKED
      /\ \A u \in Task : pc[u] \notin Suspending
  BY RunsUnlocked DEF NotServed, At, Suspending
<1>2. /\ StoreOK /\ LocksTyped /\ ListsTyped /\ CallersTyped /\ ListsOK
      /\ \A u \in Task : TaskOK(u)
  BY InvParts
<1>3. StoreOK' /\ LocksTyped' /\ ListsTyped'
  BY <1>2 DEF NotServed, StoreOK, LocksTyped, ListsTyped, store, locks, waiting
<1>4. PICK where \in {"app", "lock"} :
        \/ Return(t) /\ where = "app"
        \/ Goto(t, where) /\ UNCHANGED << call, timedOut, cause >> /\ where = "lock"
  BY DEF NotServed
<1>5. /\ CallersTyped' /\ pc'[t] = where
      /\ \A u \in Task : u # t => /\ pc'[u] = pc[u] /\ call'[u] = call[u]
                                  /\ timedOut'[u] = timedOut[u]
      /\ \/ where = "app" /\ call'[t] = NoCall /\ timedOut'[t] = FALSE
         \/ where = "lock" /\ call'[t] = call[t] /\ timedOut'[t] = timedOut[t]
  <2>1. ucDelayAborted' = ucDelayAborted
    BY DEF NotServed
  <2>2. CASE Return(t) /\ where = "app"
    BY <2>1, <2>2, <1>2, Returns
  <2>3. CASE where = "lock" /\ Goto(t, where) /\ UNCHANGED << call, timedOut, cause >>
    BY <2>1, <2>3, <1>2 DEF Goto, CallersTyped, Places
  <2> QED BY <1>4, <2>2, <2>3
<1>6. suspender' = NoTask /\ LockedBySuspender'
  BY <1>1 DEF NotServed, locks, LockedBySuspender
<1>7. ListsOK' /\ \A u \in Task : Waiting(u)' => Waiting(u)
  BY <1>1, <1>2, <1>3, <1>5, ListsShrink DEF NotServed, waiting, ListsOK, Waiting
<1>8. ASSUME NEW u \in Task PROVE TaskOK(u)'
  <2>1. CASE u # t
    BY <2>1, <1>1, <1>2, <1>5, <1>6, <1>7, OtherTask
  <2>2. CASE u = t
    <3>1. /\ pc[t] \in {"first", "look"} /\ ~timedOut[t]
          /\ call[t].op \in {"back", "front", "receive", "peek"}
      BY <1>2 DEF NotServed, At, TaskOK, Reads
    <3> QED BY <2>2, <3>1, <1>1, <1>2, <1>5, <1>6, <1>7, QueueAssumption
            DEF TaskOK, NoCall, Sends, Suspending, QueueAssumption
  <2> QED BY <2>1, <2>2
<1>9. AboutToWait'
  BY <1>1, <1>5 DEF AboutToWait, Suspending
<1> QED BY <1>3, <1>5, <1>6, <1>7, <1>8, <1>9, NextInv

\* The task suspends the scheduler and locks the queue.
LEMMA LockInv ==
  ASSUME Inv, NEW t \in Task, prvLockQueue(t)
  PROVE  Inv'
<1>1. /\ ~Waiting(t) /\ suspender = NoTask
      /\ cRxLock = queueUNLOCKED /\ cTxLock = queueUNLOCKED
      /\ \A u \in Task : pc[u] \notin Suspending
  BY RunsUnlocked DEF prvLockQueue, At, Suspending
<1>2. /\ StoreOK /\ LocksTyped /\ ListsTyped /\ CallersTyped /\ ListsOK
      /\ \A u \in Task : TaskOK(u)
  BY InvParts
<1>3. StoreOK' /\ ListsTyped'
  BY <1>2 DEF prvLockQueue, StoreOK, ListsTyped, store, waiting
<1>4. cRxLock' = 0 /\ cTxLock' = 0 /\ LocksTyped'
  <2>1. Cardinality(Task) \in Nat
    BY QueueAssumption, FS_CardinalityType DEF QueueAssumption
  <2> QED BY <1>1, <2>1 DEF prvLockQueue, Locked, LocksTyped, Lock,
             queueUNLOCKED, queueLOCKED_UNMODIFIED
<1>5. /\ CallersTyped' /\ pc'[t] = "check"
      /\ \A u \in Task : u # t => pc'[u] = pc[u]
      /\ call' = call /\ timedOut' = timedOut
  BY <1>2 DEF prvLockQueue, Goto, CallersTyped, Places
<1>6. suspender' = t /\ LockedBySuspender'
  BY <1>4, <1>5, QueueAssumption
     DEF prvLockQueue, LockedBySuspender, queueUNLOCKED, QueueAssumption
<1>7. ListsOK' /\ \A u \in Task : Waiting(u)' => Waiting(u)
  BY <1>2, <1>3, <1>5, ListsShrink DEF prvLockQueue, waiting, ListsOK
<1>8. ASSUME NEW u \in Task PROVE TaskOK(u)'
  <2>1. CASE u # t
    BY <2>1, <1>1, <1>2, <1>5, <1>6, <1>7, OtherTask, QueueAssumption
       DEF QueueAssumption
  <2>2. CASE u = t
    <3>1. pc[t] = "lock"
      BY DEF prvLockQueue, At
    <3> QED BY <2>2, <3>1, <1>1, <1>2, <1>5, <1>6, <1>7 DEF TaskOK, Suspending
  <2> QED BY <2>1, <2>2
<1>9. AboutToWait'
  BY <1>1, <1>5 DEF AboutToWait, Suspending
<1> QED BY <1>3, <1>4, <1>5, <1>6, <1>7, <1>8, <1>9, NextInv

\* A reader that timed out looks at the queue once more.
LEMMA RecheckInv ==
  ASSUME Inv, NEW t \in Task, Recheck(t)
  PROVE  Inv'
<1>1. /\ ~Waiting(t) /\ suspender = NoTask
      /\ cRxLock = queueUNLOCKED /\ cTxLock = queueUNLOCKED
      /\ \A u \in Task : pc[u] \notin Suspending
  BY RunsUnlocked DEF Recheck, At, Suspending
<1>2. /\ StoreOK /\ LocksTyped /\ ListsTyped /\ CallersTyped /\ ListsOK
      /\ \A u \in Task : TaskOK(u)
  BY InvParts
<1>3. StoreOK' /\ LocksTyped' /\ ListsTyped'
  BY <1>2 DEF Recheck, StoreOK, LocksTyped, ListsTyped, store, locks, waiting
<1>4. /\ CallersTyped' /\ timedOut'[t] = FALSE
      /\ \A u \in Task : u # t => /\ pc'[u] = pc[u] /\ call'[u] = call[u]
                                  /\ timedOut'[u] = timedOut[u]
      /\ \/ pc'[t] = "app" /\ call'[t] = NoCall
         \/ pc'[t] = "look" /\ call'[t] = call[t]
  <2>1. ucDelayAborted' = ucDelayAborted
    BY DEF Recheck
  <2>2. CASE IsEmpty
    BY <2>1, <2>2, <1>2, Returns DEF Recheck
  <2>3. CASE ~IsEmpty
    BY <2>1, <2>3, <1>2 DEF Recheck, Goto, CallersTyped, Places
  <2> QED BY <2>2, <2>3
<1>5. suspender' = NoTask /\ LockedBySuspender'
  BY <1>1 DEF Recheck, locks, LockedBySuspender
<1>6. ListsOK' /\ \A u \in Task : Waiting(u)' => Waiting(u)
  BY <1>1, <1>2, <1>3, <1>4, ListsShrink DEF Recheck, waiting, ListsOK, Waiting
<1>7. ASSUME NEW u \in Task PROVE TaskOK(u)'
  <2>1. CASE u # t
    BY <2>1, <1>1, <1>2, <1>4, <1>5, <1>6, OtherTask
  <2>2. CASE u = t
    <3>1. pc[t] = "recheck"
      BY DEF Recheck, At
    <3> QED BY <2>2, <3>1, <1>1, <1>2, <1>4, <1>5, <1>6, QueueAssumption
            DEF TaskOK, NoCall, Sends, Suspending, QueueAssumption
  <2> QED BY <2>1, <2>2
<1>8. AboutToWait'
  BY <1>1, <1>4 DEF AboutToWait, Suspending
<1> QED BY <1>3, <1>4, <1>5, <1>6, <1>7, <1>8, NextInv

\* The queue is reset.
LEMMA ResetInv ==
  ASSUME Inv, NEW t \in Task, xQueueGenericReset(t)
  PROVE  Inv'
<1>1. /\ suspender = NoTask
      /\ cRxLock = queueUNLOCKED /\ cTxLock = queueUNLOCKED
      /\ \A u \in Task : pc[u] \notin Suspending
  BY RunsUnlocked DEF xQueueGenericReset, At, Suspending
<1>2. /\ StoreOK /\ LocksTyped /\ ListsTyped /\ CallersTyped /\ ListsOK
      /\ \A u \in Task : TaskOK(u)
  BY InvParts
<1>3. StoreOK' /\ LocksTyped'
  BY <1>1, <1>2, QueueAssumption
     DEF xQueueGenericReset, StoreOK, LocksTyped, QueueAssumption, Position
<1>4. ListsTyped' /\ IsInjective(xTasksWaitingToSend)'
      /\ IsInjective(xTasksWaitingToReceive)'
      /\ ToSet(xTasksWaitingToSend)' \subseteq ToSet(xTasksWaitingToSend)
      /\ ToSet(xTasksWaitingToReceive)' \subseteq ToSet(xTasksWaitingToReceive)
  BY <1>2, WokenList DEF xQueueGenericReset, WakeSender, ListsTyped, ListsOK
<1>5. CallersTyped' /\ pc' = pc /\ call' = call /\ timedOut' = timedOut
  BY <1>2 DEF xQueueGenericReset, callers, CallersTyped
<1>6. suspender' = NoTask /\ LockedBySuspender'
  BY <1>1 DEF xQueueGenericReset, LockedBySuspender
<1>7. ListsOK' /\ \A u \in Task : Waiting(u)' => Waiting(u)
  BY <1>2, <1>4, <1>5, ListsShrink
<1>8. ASSUME NEW u \in Task PROVE TaskOK(u)'
  BY <1>1, <1>2, <1>5, <1>6, <1>7, OtherTask
<1>9. AboutToWait'
  BY <1>1, <1>5 DEF AboutToWait, Suspending
<1> QED BY <1>3, <1>4, <1>5, <1>6, <1>7, <1>8, <1>9, NextInv
-----------------------------------------------------------------------------
\* The steps of the task that has suspended the scheduler.

\* It has locked the queue, and nobody else is there.
LEMMA HoldsLocks ==
  ASSUME Inv, NEW t \in Task, pc[t] \in Suspending
  PROVE  /\ suspender = t /\ t # NoTask
         /\ cRxLock \in 0..Cardinality(Task)
         /\ pc[t] = "unlockRx" => cTxLock = queueUNLOCKED
         /\ pc[t] # "unlockRx" => cTxLock \in 0..Cardinality(Task)
         /\ \A u \in Task : u # t => pc[u] \notin Suspending
         /\ Cardinality(Task) \in Nat
<1>1. Cardinality(Task) \in Nat
  BY QueueAssumption, FS_CardinalityType DEF QueueAssumption
<1>2. LockedBySuspender /\ LocksTyped /\ \A u \in Task : TaskOK(u)
  BY InvParts
<1>3. suspender = t /\ t # NoTask /\ \A u \in Task : u # t => pc[u] \notin Suspending
  BY <1>2, QueueAssumption DEF TaskOK, QueueAssumption
<1> QED BY <1>1, <1>2, <1>3
        DEF LockedBySuspender, LocksTyped, Lock, queueUNLOCKED

\* The time-out is checked.
LEMMA CheckInv ==
  ASSUME Inv, NEW t \in Task, xTaskCheckForTimeOut(t)
  PROVE  Inv'
<1>1. pc[t] = "check" /\ ~Waiting(t) /\ suspender = t
  BY HoldsLocks DEF xTaskCheckForTimeOut, At, Runs, Suspending
<1>2. /\ StoreOK /\ LocksTyped /\ ListsTyped /\ CallersTyped /\ ListsOK
      /\ \A u \in Task : TaskOK(u)
  BY InvParts
<1>3. StoreOK' /\ LocksTyped' /\ ListsTyped'
  BY <1>2 DEF xTaskCheckForTimeOut, StoreOK, LocksTyped, ListsTyped, store,
              locks, waiting
<1>4. PICK over \in BOOLEAN :
        /\ timedOut' = [timedOut EXCEPT ![t] = over]
        /\ Goto(t, IF over THEN "unlock" ELSE "test")
  BY <1>2 DEF xTaskCheckForTimeOut, CallersTyped
<1>5. \/ call' = call
      \/ call' = [call EXCEPT ![t].wait = "none"]
  BY DEF xTaskCheckForTimeOut
<1>6. /\ CallersTyped'
      /\ pc'[t] = (IF over THEN "unlock" ELSE "test") /\ timedOut'[t] = over
      /\ call'[t].op = call[t].op /\ call'[t].item = call[t].item
      /\ \A u \in Task : u # t => /\ pc'[u] = pc[u] /\ call'[u] = call[u]
                                  /\ timedOut'[u] = timedOut[u]
  <2>1. /\ pc' \in [Task -> Places] /\ timedOut' \in [Task -> BOOLEAN]
        /\ pc'[t] = (IF over THEN "unlock" ELSE "test") /\ timedOut'[t] = over
        /\ \A u \in Task : u # t => pc'[u] = pc[u] /\ timedOut'[u] = timedOut[u]
    BY <1>2, <1>4 DEF CallersTyped, Goto, Places
  <2>2. /\ call' \in [Task -> CallRecord]
        /\ call'[t].op = call[t].op /\ call'[t].item = call[t].item
        /\ \A u \in Task : u # t => call'[u] = call[u]
    <3>1. CASE call' = call
      BY <3>1, <1>2 DEF CallersTyped
    <3>2. CASE call' = [call EXCEPT ![t].wait = "none"]
      BY <3>2, <1>2 DEF CallersTyped, CallRecord
    <3> QED BY <1>5, <3>1, <3>2
  <2>3. /\ ucDelayAborted' \in [Task -> BOOLEAN]
        /\ cause' \in [Task -> SUBSET {"time", "abort"}]
    BY <1>2 DEF xTaskCheckForTimeOut, CallersTyped
  <2> QED BY <2>1, <2>2, <2>3 DEF CallersTyped
<1>7. suspender' = t /\ LockedBySuspender'
  BY <1>1, <1>6, HoldsLocks, InvParts
     DEF xTaskCheckForTimeOut, locks, LockedBySuspender, Suspending
<1>8. ListsOK' /\ \A u \in Task : Waiting(u)' => Waiting(u)
  BY <1>2, <1>3, <1>6, ListsShrink DEF xTaskCheckForTimeOut, waiting, ListsOK
<1>9. ASSUME NEW u \in Task PROVE TaskOK(u)'
  <2>1. CASE u # t
    BY <2>1, <1>1, <1>2, <1>6, <1>7, <1>8, OtherTask
  <2>2. CASE u = t
    BY <2>2, <1>1, <1>2, <1>6, <1>7, <1>8 DEF TaskOK, Suspending
  <2> QED BY <2>1, <2>2
<1>10. AboutToWait'
  <2>1. \A u \in Task : pc'[u] # "place"
    BY <1>1, <1>6, HoldsLocks DEF Suspending
  <2> QED BY <2>1 DEF AboutToWait
<1> QED BY <1>3, <1>6, <1>7, <1>8, <1>9, <1>10, NextInv

\* The queue is looked at again.
LEMMA TestInv ==
  ASSUME Inv, NEW t \in Task, TestQueue(t)
  PROVE  Inv'
<1>1. pc[t] = "test" /\ ~Waiting(t) /\ suspender = t
  BY HoldsLocks DEF TestQueue, At, Runs, Suspending
<1>2. /\ StoreOK /\ LocksTyped /\ ListsTyped /\ CallersTyped /\ ListsOK
      /\ \A u \in Task : TaskOK(u)
  BY InvParts
<1>3. StoreOK' /\ LocksTyped' /\ ListsTyped'
  BY <1>2 DEF TestQueue, StoreOK, LocksTyped, ListsTyped, store, locks, waiting
<1>4. /\ CallersTyped' /\ call' = call /\ timedOut' = timedOut
      /\ pc'[t] = (IF StillBlocks(t) THEN "place" ELSE "unlock")
      /\ \A u \in Task : u # t => pc'[u] = pc[u]
  BY <1>2 DEF TestQueue, Goto, CallersTyped, Places
<1>5. suspender' = t /\ LockedBySuspender'
  BY <1>1, <1>4, HoldsLocks, InvParts
     DEF TestQueue, locks, LockedBySuspender, Suspending
<1>6. ListsOK' /\ \A u \in Task : Waiting(u)' => Waiting(u)
  BY <1>2, <1>3, <1>4, ListsShrink DEF TestQueue, waiting, ListsOK
<1>7. ASSUME NEW u \in Task PROVE TaskOK(u)'
  <2>1. CASE u # t
    BY <2>1, <1>1, <1>2, <1>4, <1>5, <1>6, OtherTask
  <2>2. CASE u = t
    BY <2>2, <1>1, <1>2, <1>4, <1>5, <1>6 DEF TaskOK, Suspending
  <2> QED BY <2>1, <2>2
<1>8. AboutToWait'
  <2>1. \A u \in Task : pc'[u] = "place" => u = t /\ StillBlocks(t)
    BY <1>1, <1>4, HoldsLocks DEF Suspending
  <2>2. cRxLock' \in Nat /\ cTxLock' \in Nat /\ uxMessagesWaiting' = uxMessagesWaiting
    BY <1>1, HoldsLocks DEF TestQueue, locks, store, Suspending
  <2>3. StillBlocks(t) => /\ Reads(call[t].op) => uxMessagesWaiting = 0
                          /\ Sends(call[t].op) => uxMessagesWaiting = uxLength
    BY DEF StillBlocks, Sends, Reads, IsEmpty, IsFull
  <2> QED BY <1>4, <2>1, <2>2, <2>3, QueueAssumption DEF AboutToWait, QueueAssumption
<1> QED BY <1>3, <1>4, <1>5, <1>6, <1>7, <1>8, NextInv

\* The task places itself on a list.
LEMMA PlaceInv ==
  ASSUME Inv, NEW t \in Task, PlaceOnEventList(t)
  PROVE  Inv'
<1>1. pc[t] = "place" /\ ~Waiting(t) /\ suspender = t
  BY HoldsLocks DEF PlaceOnEventList, At, Runs, Suspending
<1>2. /\ StoreOK /\ LocksTyped /\ ListsTyped /\ CallersTyped /\ ListsOK
      /\ \A u \in Task : TaskOK(u)
  BY InvParts
<1>3. StoreOK' /\ LocksTyped'
  BY <1>2 DEF PlaceOnEventList, StoreOK, LocksTyped, store, locks
<1>4. /\ CallersTyped' /\ call' = call /\ timedOut' = timedOut
      /\ pc'[t] = "unlock" /\ \A u \in Task : u # t => pc'[u] = pc[u]
  BY <1>2 DEF PlaceOnEventList, Goto, CallersTyped, Places
<1>5. suspender' = t /\ LockedBySuspender'
  BY <1>1, <1>4, HoldsLocks, InvParts
     DEF PlaceOnEventList, locks, LockedBySuspender, Suspending
<1>6. Sends(call[t].op) \/ Reads(call[t].op)
  BY <1>1, <1>2 DEF TaskOK, CallersTyped, CallRecord, Sends, Reads
<1>7. t \notin ToSet(xTasksWaitingToSend) /\ t \notin ToSet(xTasksWaitingToReceive)
  BY <1>1 DEF Waiting
<1>8. /\ ListsTyped' /\ IsInjective(xTasksWaitingToSend)'
      /\ IsInjective(xTasksWaitingToReceive)'
      /\ \/ /\ Sends(call[t].op)
            /\ ToSet(xTasksWaitingToSend)' = ToSet(xTasksWaitingToSend) \cup {t}
            /\ UNCHANGED xTasksWaitingToReceive
         \/ /\ Reads(call[t].op)
            /\ ToSet(xTasksWaitingToReceive)' = ToSet(xTasksWaitingToReceive) \cup {t}
            /\ UNCHANGED xTasksWaitingToSend
  <2>1. CASE Sends(call[t].op)
    BY <2>1, <1>2, <1>7, PlacedList DEF PlaceOnEventList, ListsTyped, ListsOK
  <2>2. CASE ~Sends(call[t].op)
    BY <2>2, <1>2, <1>6, <1>7, PlacedList DEF PlaceOnEventList, ListsTyped, ListsOK
  <2> QED BY <2>1, <2>2
<1>9. ListsOK' /\ \A u \in Task : u # t => (Waiting(u)' => Waiting(u))
  BY <1>2, <1>4, <1>7, <1>8 DEF ListsOK, Waiting
<1>10. ASSUME NEW u \in Task PROVE TaskOK(u)'
  <2>1. CASE u # t
    BY <2>1, <1>1, <1>2, <1>4, <1>5, <1>9, OtherTask
  <2>2. CASE u = t
    BY <2>2, <1>1, <1>2, <1>4, <1>5 DEF TaskOK, Suspending
  <2> QED BY <2>1, <2>2
<1>11. AboutToWait'
  <2>1. \A u \in Task : pc'[u] # "place"
    BY <1>1, <1>4, HoldsLocks DEF Suspending
  <2> QED BY <2>1 DEF AboutToWait
<1> QED BY <1>3, <1>4, <1>5, <1>8, <1>9, <1>10, <1>11, NextInv

\* The queue is unlocked for senders.
LEMMA UnlockTxInv ==
  ASSUME Inv, NEW t \in Task, UnlockTx(t)
  PROVE  Inv'
<1>1. pc[t] = "unlock" /\ suspender = t
  BY DEF UnlockTx
<1>2. /\ StoreOK /\ LocksTyped /\ ListsTyped /\ CallersTyped /\ ListsOK
      /\ \A u \in Task : TaskOK(u)
  BY InvParts
<1>3. cTxLock \in Int /\ Cardinality(Task) \in Nat
  BY <1>1, HoldsLocks DEF Suspending
<1>4. StoreOK' /\ LocksTyped'
  BY <1>2, <1>3 DEF UnlockTx, StoreOK, LocksTyped, store, Lock, queueUNLOCKED
<1>5. /\ ListsTyped' /\ IsInjective(xTasksWaitingToSend)'
      /\ IsInjective(xTasksWaitingToReceive)'
      /\ ToSet(xTasksWaitingToSend)' \subseteq ToSet(xTasksWaitingToSend)
      /\ ToSet(xTasksWaitingToReceive)' \subseteq ToSet(xTasksWaitingToReceive)
  BY <1>2, <1>3, OwedNumber DEF UnlockTx, ListsTyped, ListsOK
<1>6. /\ CallersTyped' /\ call' = call /\ timedOut' = timedOut
      /\ pc'[t] = "unlockRx" /\ \A u \in Task : u # t => pc'[u] = pc[u]
  BY <1>2 DEF UnlockTx, Goto, CallersTyped, Places
<1>7. suspender' = t /\ LockedBySuspender'
  BY <1>1, <1>6, HoldsLocks, InvParts DEF UnlockTx, LockedBySuspender, Suspending
<1>8. ListsOK' /\ \A u \in Task : Waiting(u)' => Waiting(u)
  BY <1>2, <1>5, <1>6, ListsShrink
<1>9. ASSUME NEW u \in Task PROVE TaskOK(u)'
  <2>1. CASE u # t
    BY <2>1, <1>1, <1>2, <1>6, <1>7, <1>8, OtherTask
  <2>2. CASE u = t
    BY <2>2, <1>1, <1>2, <1>6, <1>7, <1>8 DEF TaskOK, Suspending
  <2> QED BY <2>1, <2>2
<1>10. AboutToWait'
  <2>1. \A u \in Task : pc'[u] # "place"
    BY <1>1, <1>6, HoldsLocks DEF Suspending
  <2> QED BY <2>1 DEF AboutToWait
<1> QED BY <1>4, <1>5, <1>6, <1>7, <1>8, <1>9, <1>10, NextInv

\* The queue is unlocked, and the scheduler resumed.
LEMMA UnlockRxInv ==
  ASSUME Inv, NEW t \in Task, UnlockRx(t)
  PROVE  Inv'
<1>1. pc[t] = "unlockRx" /\ suspender = t /\ cTxLock = queueUNLOCKED
  BY HoldsLocks DEF UnlockRx, Suspending
<1>2. /\ StoreOK /\ LocksTyped /\ ListsTyped /\ CallersTyped /\ ListsOK
      /\ \A u \in Task : TaskOK(u)
  BY InvParts
<1>3. cRxLock \in Int /\ Cardinality(Task) \in Nat
  BY <1>1, HoldsLocks DEF Suspending
<1>4. StoreOK' /\ LocksTyped'
  BY <1>2, <1>3 DEF UnlockRx, StoreOK, LocksTyped, store, Lock, queueUNLOCKED
<1>5. /\ ListsTyped' /\ IsInjective(xTasksWaitingToSend)'
      /\ IsInjective(xTasksWaitingToReceive)'
      /\ ToSet(xTasksWaitingToSend)' \subseteq ToSet(xTasksWaitingToSend)
      /\ ToSet(xTasksWaitingToReceive)' \subseteq ToSet(xTasksWaitingToReceive)
  BY <1>2, <1>3, OwedNumber DEF UnlockRx, ListsTyped, ListsOK
<1>6. /\ CallersTyped'
      /\ \A u \in Task : u # t => /\ pc'[u] = pc[u] /\ call'[u] = call[u]
                                  /\ timedOut'[u] = timedOut[u]
      /\ \/ /\ timedOut[t] /\ pc'[t] = "app" /\ call'[t] = NoCall
            /\ timedOut'[t] = FALSE
         \/ /\ pc'[t] = (IF timedOut[t] THEN "recheck" ELSE "look")
            /\ call'[t] = call[t] /\ timedOut'[t] = timedOut[t]
  <2>1. ucDelayAborted' = ucDelayAborted
    BY DEF UnlockRx
  <2>2. CASE timedOut[t] /\ Sends(call[t].op)
    BY <2>1, <2>2, <1>2, Returns DEF UnlockRx
  <2>3. CASE ~(timedOut[t] /\ Sends(call[t].op))
    BY <2>1, <2>3, <1>2 DEF UnlockRx, Goto, CallersTyped, Places
  <2> QED BY <2>2, <2>3
<1>7. suspender' = NoTask /\ LockedBySuspender'
  BY <1>1 DEF UnlockRx, LockedBySuspender
<1>8. ListsOK' /\ \A u \in Task : Waiting(u)' => Waiting(u)
  <2>1. \A u \in Task : Waiting(u)' => Waiting(u)
    BY <1>5 DEF Waiting
  <2>2. \A u \in Task : Waiting(u)' => call'[u].op = call[u].op
    BY <2>1, <1>2, <1>6 DEF TaskOK
  <2> QED BY <2>2, <1>2, <1>5, ListsShrink
<1>9. ASSUME NEW u \in Task PROVE TaskOK(u)'
  <2>1. CASE u # t
    BY <2>1, <1>1, <1>2, <1>6, <1>7, <1>8, OtherTask, QueueAssumption
       DEF QueueAssumption
  <2>2. CASE u = t
    BY <2>2, <1>1, <1>2, <1>6, <1>7, <1>8, QueueAssumption
       DEF TaskOK, NoCall, Sends, Suspending, QueueAssumption
  <2> QED BY <2>1, <2>2
<1>10. AboutToWait'
  <2>1. \A u \in Task : pc'[u] # "place"
    BY <1>1, <1>6, HoldsLocks DEF Suspending
  <2> QED BY <2>1 DEF AboutToWait
<1> QED BY <1>4, <1>5, <1>6, <1>7, <1>8, <1>9, <1>10, NextInv
-----------------------------------------------------------------------------
\* Interrupts and ticks.

\* What prvIncrementQueueTxLock makes of a lock.
LEMMA CountedLock ==
  ASSUME NEW lock \in Lock, lock # queueUNLOCKED
  PROVE  /\ Counted(lock) \in 0..Cardinality(Task)
         /\ Counted(lock) # queueUNLOCKED
         /\ Counted(lock) = lock + 1 \/ Counted(lock) = Cardinality(Task)
         /\ lock = Cardinality(Task) => Counted(lock) = lock
<1>1. Cardinality(Task) \in Nat
  BY QueueAssumption, FS_CardinalityType DEF QueueAssumption
<1> QED BY <1>1 DEF Counted, Lock, queueUNLOCKED

\* No task calls or returns in the step.
LEMMA InterruptInv ==
  ASSUME Inv, StoreOK', LocksTyped', ListsTyped',
         IsInjective(xTasksWaitingToSend)', IsInjective(xTasksWaitingToReceive)',
         ToSet(xTasksWaitingToSend)' \subseteq ToSet(xTasksWaitingToSend),
         ToSet(xTasksWaitingToReceive)' \subseteq ToSet(xTasksWaitingToReceive),
         UNCHANGED << pc, call, timedOut, suspender >>,
         ucDelayAborted' \in [Task -> BOOLEAN],
         cause' \in [Task -> SUBSET {"time", "abort"}],
         (cTxLock = queueUNLOCKED) = (cTxLock' = queueUNLOCKED),
         (cRxLock = queueUNLOCKED) = (cRxLock' = queueUNLOCKED),
         AboutToWait'
  PROVE  Inv'
<1>1. /\ CallersTyped /\ ListsTyped /\ ListsOK /\ LockedBySuspender
      /\ suspender \in Task \cup {NoTask} /\ \A u \in Task : TaskOK(u)
  BY InvParts
<1>2. CallersTyped' /\ suspender' \in Task \cup {NoTask}
  BY <1>1 DEF CallersTyped
<1>3. LockedBySuspender'
  BY <1>1 DEF LockedBySuspender
<1>4. ListsOK' /\ \A u \in Task : Waiting(u)' => Waiting(u)
  BY <1>1, ListsShrink
<1>5. \A u \in Task : TaskOK(u)'
  BY <1>1, <1>4, OtherTask
<1> QED BY <1>2, <1>3, <1>4, <1>5, NextInv

\* An interrupt sends.
LEMMA SendFromISRInv ==
  ASSUME Inv, NEW x \in Item, NEW pos \in IsrCalls, Sends(pos),
         xQueueGenericSendFromISR(x, pos)
  PROVE  Inv'
<1>1. StoreOK /\ LocksTyped /\ ListsTyped /\ CallersTyped /\ ListsOK /\ AboutToWait
  BY InvParts
<1>2. /\ StoreOK'
      /\ \/ uxMessagesWaiting' = uxMessagesWaiting + 1
         \/ IsFull /\ uxMessagesWaiting' = uxMessagesWaiting
  BY <1>1, CopyTo, QueueAssumption
     DEF xQueueGenericSendFromISR, Sends, QueueAssumption
<1>3. /\ UNCHANGED << pc, call, timedOut, ucDelayAborted, cause, suspender, cRxLock >>
  BY DEF xQueueGenericSendFromISR, callers
<1>4. \/ /\ cTxLock = queueUNLOCKED /\ UNCHANGED cTxLock
         /\ UNCHANGED xTasksWaitingToSend
         /\ xTasksWaitingToReceive' = Woken(xTasksWaitingToReceive)
      \/ /\ cTxLock # queueUNLOCKED /\ cTxLock' = Counted(cTxLock)
         /\ UNCHANGED << xTasksWaitingToSend, xTasksWaitingToReceive >>
  BY DEF xQueueGenericSendFromISR, WakeReceiver, waiting
<1>5. /\ LocksTyped' /\ (cTxLock = queueUNLOCKED) = (cTxLock' = queueUNLOCKED)
  <2>1. CASE cTxLock = queueUNLOCKED
    BY <2>1, <1>1, <1>3, <1>4 DEF LocksTyped
  <2>2. CASE cTxLock # queueUNLOCKED
    <3>1. Counted(cTxLock) \in Lock
      BY <2>2, <1>1, CountedLock DEF LocksTyped, Lock, queueUNLOCKED
    <3> QED BY <2>2, <3>1, <1>1, <1>3, <1>4, CountedLock DEF LocksTyped
  <2> QED BY <2>1, <2>2
<1>6. /\ ListsTyped' /\ IsInjective(xTasksWaitingToSend)'
      /\ IsInjective(xTasksWaitingToReceive)'
      /\ ToSet(xTasksWaitingToSend)' \subseteq ToSet(xTasksWaitingToSend)
      /\ ToSet(xTasksWaitingToReceive)' \subseteq ToSet(xTasksWaitingToReceive)
  BY <1>1, <1>4, WokenList DEF ListsTyped, ListsOK
<1>7. AboutToWait'
  <2> SUFFICES ASSUME NEW u \in Task, pc[u] = "place"
               PROVE  /\ Reads(call[u].op) => \/ uxMessagesWaiting' <= cTxLock'
                                              \/ cTxLock' = Cardinality(Task)
                      /\ Sends(call[u].op) =>
                           \/ uxLength - uxMessagesWaiting' <= cRxLock'
                           \/ cRxLock' = Cardinality(Task)
    BY <1>3 DEF AboutToWait
  <2>1. /\ cTxLock \in 0..Cardinality(Task) /\ cRxLock \in 0..Cardinality(Task)
        /\ cTxLock # queueUNLOCKED /\ Cardinality(Task) \in Nat
    BY HoldsLocks DEF Suspending, queueUNLOCKED
  <2>2. \/ cTxLock' = cTxLock + 1
        \/ cTxLock' = Cardinality(Task)
    BY <2>1, <1>1, <1>4, CountedLock DEF LocksTyped
  <2>3. /\ Reads(call[u].op) => \/ uxMessagesWaiting <= cTxLock
                                \/ cTxLock = Cardinality(Task)
        /\ Sends(call[u].op) => \/ uxLength - uxMessagesWaiting <= cRxLock
                                \/ cRxLock = Cardinality(Task)
    BY <1>1 DEF AboutToWait
  <2>4. /\ uxMessagesWaiting \in Nat /\ uxLength \in Nat
        /\ uxMessagesWaiting' \in {uxMessagesWaiting, uxMessagesWaiting + 1}
    BY <1>1, <1>2, QueueAssumption DEF StoreOK, QueueAssumption
  <2>5. cTxLock = Cardinality(Task) => cTxLock' = Cardinality(Task)
    BY <2>1, <1>1, <1>4, CountedLock DEF LocksTyped
  <2> QED BY <2>1, <2>2, <2>3, <2>4, <2>5, <1>3
<1> QED BY <1>1, <1>2, <1>3, <1>5, <1>6, <1>7, InterruptInv DEF CallersTyped

\* An interrupt receives.
LEMMA ReceiveFromISRInv ==
  ASSUME Inv, xQueueReceiveFromISR
  PROVE  Inv'
<1>1. StoreOK /\ LocksTyped /\ ListsTyped /\ CallersTyped /\ ListsOK /\ AboutToWait
  BY InvParts
<1>2. StoreOK' /\ uxMessagesWaiting' = uxMessagesWaiting - 1
  BY <1>1, CopyFrom DEF xQueueReceiveFromISR
<1>3. /\ UNCHANGED << pc, call, timedOut, ucDelayAborted, cause, suspender, cTxLock >>
  BY DEF xQueueReceiveFromISR, callers
<1>4. \/ /\ cRxLock = queueUNLOCKED /\ UNCHANGED cRxLock
         /\ UNCHANGED xTasksWaitingToReceive
         /\ xTasksWaitingToSend' = Woken(xTasksWaitingToSend)
      \/ /\ cRxLock # queueUNLOCKED /\ cRxLock' = Counted(cRxLock)
         /\ UNCHANGED << xTasksWaitingToSend, xTasksWaitingToReceive >>
  BY DEF xQueueReceiveFromISR, WakeSender, waiting
<1>5. /\ LocksTyped' /\ (cRxLock = queueUNLOCKED) = (cRxLock' = queueUNLOCKED)
  <2>1. CASE cRxLock = queueUNLOCKED
    BY <2>1, <1>1, <1>3, <1>4 DEF LocksTyped
  <2>2. CASE cRxLock # queueUNLOCKED
    <3>1. Counted(cRxLock) \in Lock
      BY <2>2, <1>1, CountedLock DEF LocksTyped, Lock, queueUNLOCKED
    <3> QED BY <2>2, <3>1, <1>1, <1>3, <1>4, CountedLock DEF LocksTyped
  <2> QED BY <2>1, <2>2
<1>6. /\ ListsTyped' /\ IsInjective(xTasksWaitingToSend)'
      /\ IsInjective(xTasksWaitingToReceive)'
      /\ ToSet(xTasksWaitingToSend)' \subseteq ToSet(xTasksWaitingToSend)
      /\ ToSet(xTasksWaitingToReceive)' \subseteq ToSet(xTasksWaitingToReceive)
  BY <1>1, <1>4, WokenList DEF ListsTyped, ListsOK
<1>7. AboutToWait'
  <2> SUFFICES ASSUME NEW u \in Task, pc[u] = "place"
               PROVE  /\ Reads(call[u].op) => \/ uxMessagesWaiting' <= cTxLock'
                                              \/ cTxLock' = Cardinality(Task)
                      /\ Sends(call[u].op) =>
                           \/ uxLength - uxMessagesWaiting' <= cRxLock'
                           \/ cRxLock' = Cardinality(Task)
    BY <1>3 DEF AboutToWait
  <2>1. /\ cTxLock \in 0..Cardinality(Task) /\ cRxLock \in 0..Cardinality(Task)
        /\ cRxLock # queueUNLOCKED /\ Cardinality(Task) \in Nat
    BY HoldsLocks DEF Suspending, queueUNLOCKED
  <2>2. \/ cRxLock' = cRxLock + 1
        \/ cRxLock' = Cardinality(Task)
    BY <2>1, <1>1, <1>4, CountedLock DEF LocksTyped
  <2>3. /\ Reads(call[u].op) => \/ uxMessagesWaiting <= cTxLock
                                \/ cTxLock = Cardinality(Task)
        /\ Sends(call[u].op) => \/ uxLength - uxMessagesWaiting <= cRxLock
                                \/ cRxLock = Cardinality(Task)
    BY <1>1 DEF AboutToWait
  <2>4. uxMessagesWaiting \in Nat /\ uxLength \in Nat
    BY <1>1, QueueAssumption DEF StoreOK, QueueAssumption
  <2>5. cRxLock = Cardinality(Task) => cRxLock' = Cardinality(Task)
    BY <2>1, <1>1, <1>4, CountedLock DEF LocksTyped
  <2> QED BY <2>1, <2>2, <2>3, <2>4, <2>5, <1>2, <1>3
<1> QED BY <1>1, <1>2, <1>3, <1>5, <1>6, <1>7, InterruptInv DEF CallersTyped

\* An interrupt looks at the first item.
LEMMA PeekFromISRInv ==
  ASSUME Inv, xQueuePeekFromISR
  PROVE  Inv'
<1>1. StoreOK /\ LocksTyped /\ ListsTyped /\ CallersTyped /\ ListsOK /\ AboutToWait
  BY InvParts
<1>2. StoreOK' /\ uxMessagesWaiting' = uxMessagesWaiting
  <2>1. StoreOK' /\ uxMessagesWaiting' = uxMessagesWaiting - 0
    BY <1>1, CopyFrom DEF xQueuePeekFromISR
  <2> QED BY <2>1, <1>1 DEF StoreOK
<1>3. /\ UNCHANGED << pc, call, timedOut, ucDelayAborted, cause, suspender >>
      /\ UNCHANGED << cRxLock, cTxLock, xTasksWaitingToSend, xTasksWaitingToReceive >>
  BY DEF xQueuePeekFromISR, callers, locks, waiting
<1>4. LocksTyped' /\ ListsTyped' /\ AboutToWait'
  BY <1>1, <1>2, <1>3 DEF LocksTyped, ListsTyped, AboutToWait
<1>5. /\ IsInjective(xTasksWaitingToSend)' /\ IsInjective(xTasksWaitingToReceive)'
      /\ ToSet(xTasksWaitingToSend)' \subseteq ToSet(xTasksWaitingToSend)
      /\ ToSet(xTasksWaitingToReceive)' \subseteq ToSet(xTasksWaitingToReceive)
  BY <1>1, <1>3 DEF ListsOK
<1> QED BY <1>1, <1>2, <1>3, <1>4, <1>5, InterruptInv DEF CallersTyped

\* A wait ends, because its time is over or because it is aborted.
LEMMA StopWaitingInv ==
  ASSUME Inv, NEW t \in Task, suspender = NoTask, StopWaiting(t),
         UNCHANGED << store, locks, pc, call, timedOut, suspender >>,
         ucDelayAborted' \in [Task -> BOOLEAN],
         cause' \in [Task -> SUBSET {"time", "abort"}]
  PROVE  Inv'
<1>1. StoreOK /\ LocksTyped /\ ListsTyped /\ CallersTyped /\ ListsOK /\ AboutToWait
  BY InvParts
<1>2. StoreOK' /\ LocksTyped' /\ AboutToWait'
  BY <1>1 DEF StoreOK, LocksTyped, AboutToWait, store, locks
<1>3. /\ ListsTyped' /\ IsInjective(xTasksWaitingToSend)'
      /\ IsInjective(xTasksWaitingToReceive)'
      /\ ToSet(xTasksWaitingToSend)' \subseteq ToSet(xTasksWaitingToSend)
      /\ ToSet(xTasksWaitingToReceive)' \subseteq ToSet(xTasksWaitingToReceive)
  BY <1>1, WithoutList DEF StopWaiting, ListsTyped, ListsOK
<1> QED BY <1>2, <1>3, InterruptInv DEF locks

\* A block time ends.
LEMMA ExpireInv ==
  ASSUME Inv, NEW t \in Task, Expire(t)
  PROVE  Inv'
<1>1. CallersTyped
  BY InvParts
<1> QED BY <1>1, StopWaitingInv DEF Expire, CallersTyped

\* A delay is aborted.
LEMMA AbortInv ==
  ASSUME Inv, NEW t \in Task, xTaskAbortDelay(t)
  PROVE  Inv'
<1>1. CallersTyped
  BY InvParts
<1> QED BY <1>1, StopWaitingInv DEF xTaskAbortDelay, CallersTyped
-----------------------------------------------------------------------------
\* Every step keeps the invariant.
LEMMA StepInv == Inv /\ [Next]_vars => Inv'
<1> SUFFICES ASSUME Inv, [Next]_vars PROVE Inv'
  OBVIOUS
<1>1. ASSUME NEW t \in Task, Continue(t) PROVE Inv'
  BY <1>1, ServedInv, NotServedInv, LockInv, CheckInv, TestInv, PlaceInv,
     UnlockTxInv, UnlockRxInv, RecheckInv DEF Continue
<1>2. ASSUME NEW t \in Task, StartCall(t) PROVE Inv'
  BY <1>2, CallInv, ResetInv DEF StartCall
<1>3. CASE Interrupt
  BY <1>3, SendFromISRInv, ReceiveFromISRInv, PeekFromISRInv DEF Interrupt
<1>4. CASE UNCHANGED vars
  BY <1>4 DEF Inv, TypeOK, LockedBySuspender, ListsOK, TaskOK, Waiting,
              AboutToWait, vars, store, locks, waiting, callers
<1> QED BY <1>1, <1>2, <1>3, <1>4, ExpireInv, AbortInv DEF Next

\* The queue's state has its types, its locks are held by the task that has
\* suspended the scheduler, and no task is in both lists or twice in one.
THEOREM QueueInvariant == Spec => []Inv
BY InitInv, StepInv, PTL DEF Spec

\* Type correctness of the queue of queue.c.
THEOREM QueueType == Spec => []TypeOK
<1>1. Inv => TypeOK
  BY DEF Inv
<1> QED BY <1>1, QueueInvariant, PTL

\* cRxLock and cTxLock are set only between prvLockQueue and prvUnlockQueue of
\* one task, so that no lock outlives its task's wait.
THEOREM QueueLocks == Spec => []LockedBySuspender
<1>1. Inv => LockedBySuspender
  BY DEF Inv
<1> QED BY <1>1, QueueInvariant, PTL
-----------------------------------------------------------------------------
\* No wake-up is lost.

\* The readers that have yet to look at the queue, and the senders.
Readers == {t \in Task : Reads(call[t].op) /\ WillLook(t)}
Senders == {t \in Task : Sends(call[t].op) /\ WillLook(t)}

\* While tasks wait in a list, each of n items or free places has a task of W
\* that will look at the queue, or one that prvUnlockQueue will wake.
Covered(n, W, lock, list) ==
  \/ list = << >>
  \/ n <= Cardinality(W) + Owed(lock, list)
  \/ Owed(lock, list) = Len(list)

\* A woken task is counted among those on their way.
LEMMA WokenIsCovered ==
  /\ ReceiversWoken
       <=> Covered(uxMessagesWaiting, Readers, cTxLock, xTasksWaitingToReceive)
  /\ SendersWoken
       <=> Covered(uxLength - uxMessagesWaiting, Senders, cRxLock,
                   xTasksWaitingToSend)
  /\ ReceiversWoken'
       <=> Covered(uxMessagesWaiting', Readers', cTxLock', xTasksWaitingToReceive')
  /\ SendersWoken'
       <=> Covered(uxLength - uxMessagesWaiting', Senders', cRxLock',
                   xTasksWaitingToSend')
BY DEF ReceiversWoken, SendersWoken, Covered, Readers, Senders, Owed

\* Sets of tasks are finite.
LEMMA TaskSets ==
  ASSUME NEW W \in SUBSET Task
  PROVE  IsFiniteSet(W) /\ Cardinality(W) \in Nat
BY QueueAssumption, FS_Subset, FS_CardinalityType DEF QueueAssumption

\* On a queue that is not locked no task is owed a wake-up.
LEMMA CoveredUnlocked ==
  ASSUME NEW n \in Int, NEW W \in SUBSET Task,
         NEW list \in Seq(Task), IsInjective(list),
         NEW lock \in {queueUNLOCKED, queueLOCKED_UNMODIFIED}
  PROVE  Covered(n, W, lock, list) <=> list = << >> \/ n <= Cardinality(W)
<1>1. Cardinality(W) \in Nat /\ Len(list) \in Nat
  BY TaskSets
<1>2. Owed(lock, list) = 0
  BY <1>1, OwedIs DEF queueUNLOCKED, queueLOCKED_UNMODIFIED
<1>3. Len(list) = 0 => list = << >>
  OBVIOUS
<1> QED BY <1>1, <1>2, <1>3 DEF Covered

\* Fewer items and more who look.
LEMMA CoveredByMore ==
  ASSUME NEW n \in Int, NEW m \in Int, NEW W \in SUBSET Task,
         NEW V \in SUBSET Task, NEW list \in Seq(Task), IsInjective(list),
         NEW lock \in Int, Covered(n, W, lock, list), m <= n, W \subseteq V
  PROVE  Covered(m, V, lock, list)
<1>1. /\ Cardinality(W) \in Nat /\ Cardinality(V) \in Nat
      /\ Cardinality(W) <= Cardinality(V)
  BY TaskSets, FS_Subset, W \in SUBSET V
<1>2. Owed(lock, list) \in Int
  BY OwedIs
<1> QED BY <1>1, <1>2 DEF Covered

\* One who looked has taken an item.
LEMMA CoveredByLess ==
  ASSUME NEW n \in Int, NEW W \in SUBSET Task, NEW V \in SUBSET Task, NEW t,
         NEW list \in Seq(Task), IsInjective(list), NEW lock \in Int,
         Covered(n, W, lock, list), W \ {t} \subseteq V
  PROVE  Covered(n - 1, V, lock, list)
<1>1. /\ Cardinality(W) \in Nat /\ Cardinality(V) \in Nat
      /\ Cardinality(W) - 1 <= Cardinality(V)
  BY TaskSets, WithoutOne
<1>2. Owed(lock, list) \in Int
  BY OwedIs
<1> QED BY <1>1, <1>2 DEF Covered

\* An item more, for which the first of the list is woken.
LEMMA CoveredByWoken ==
  ASSUME NEW n \in Int, NEW m \in Int, m <= n + 1,
         NEW W \in SUBSET Task, NEW V \in SUBSET Task,
         NEW list \in Seq(Task), IsInjective(list),
         Covered(n, W, queueUNLOCKED, list),
         list # << >> => W \cup {Head(list)} \subseteq V /\ Head(list) \notin W
  PROVE  Covered(m, V, queueUNLOCKED, Woken(list))
<1>1. Woken(list) \in Seq(Task) /\ IsInjective(Woken(list))
  BY WokenList
<1>2. CASE list = << >>
  BY <1>2 DEF Woken, Covered
<1>3. CASE list # << >>
  <2> DEFINE h == Head(list)
  <2>1. n <= Cardinality(W)
    BY <1>3, CoveredUnlocked
  <2>2. IsFiniteSet(V) /\ W \cup {h} \subseteq V /\ W \cap {h} = {}
    BY <1>3, TaskSets
  <2>3. Cardinality({h}) = 1
    BY FS_Singleton
  <2> HIDE DEF h
  <2>4. /\ Cardinality(W) \in Nat /\ Cardinality(V) \in Nat
        /\ Cardinality(W) + 1 <= Cardinality(V)
    BY <2>2, <2>3, DisjointParts
  <2>5. m <= Cardinality(V)
    BY <2>1, <2>4
  <2> QED BY <1>1, <2>5, CoveredUnlocked
<1> QED BY <1>2, <1>3

\* An interrupt has counted an item.
LEMMA CoveredByCount ==
  ASSUME NEW n \in Int, NEW m \in Int, m <= n + 1,
         NEW W \in SUBSET Task, NEW list \in Seq(Task), IsInjective(list),
         NEW lock \in 0..Cardinality(Task), Covered(n, W, lock, list)
  PROVE  Covered(m, W, Counted(lock), list)
<1>1. /\ Cardinality(W) \in Nat /\ Cardinality(Task) \in Nat
      /\ Len(list) \in Nat /\ Len(list) <= Cardinality(Task)
  BY TaskSets, ListBound, QueueAssumption DEF QueueAssumption
<1>2. Counted(lock) = IF lock < Cardinality(Task) THEN lock + 1 ELSE lock
  BY DEF Counted
<1>3. /\ lock \in Int /\ Counted(lock) \in Int
      /\ Owed(lock, list) = IF lock >= Len(list) THEN Len(list)
                            ELSE IF lock > 0 THEN lock ELSE 0
  BY <1>1, <1>2, OwedIs
<1>4. Owed(Counted(lock), list)
        = IF Counted(lock) >= Len(list) THEN Len(list)
          ELSE IF Counted(lock) > 0 THEN Counted(lock) ELSE 0
  BY <1>3, OwedIs
<1> QED BY <1>1, <1>2, <1>3, <1>4 DEF Covered

\* prvUnlockQueue has woken those that were owed.
LEMMA CoveredByUnlock ==
  ASSUME NEW n \in Int, NEW W \in SUBSET Task, NEW V \in SUBSET Task,
         NEW list \in Seq(Task), IsInjective(list), NEW lock \in Int,
         Covered(n, W, lock, list),
         W \cup (ToSet(list) \ ToSet(WokenBy(lock, list))) \subseteq V,
         W \cap ToSet(list) = {}
  PROVE  Covered(n, V, queueUNLOCKED, WokenBy(lock, list))
<1> DEFINE K == ToSet(list) \ ToSet(WokenBy(lock, list))
           e == WokenBy(lock, list)
<1>1. /\ e \in Seq(Task) /\ IsInjective(e)
      /\ Owed(lock, list) = Len(list) => e = << >>
      /\ Cardinality(K) = Owed(lock, list)
      /\ list = << >> => e = << >>
  <2>1. list = << >> => Owed(lock, list) = Len(list)
    BY DEF Owed, WokenBy
  <2> QED BY <2>1, OwedNumber
<1>2. IsFiniteSet(V) /\ W \cup K \subseteq V /\ W \cap K = {}
  BY TaskSets
<1> HIDE DEF K, e
<1>3. /\ Cardinality(W) \in Nat /\ Cardinality(K) \in Nat /\ Cardinality(V) \in Nat
      /\ Cardinality(W) + Cardinality(K) <= Cardinality(V)
  BY <1>2, DisjointParts
<1>4. e = << >> \/ n <= Cardinality(V)
  BY <1>1, <1>3 DEF Covered
<1>5. Covered(n, V, queueUNLOCKED, e)
  BY <1>1, <1>4, CoveredUnlocked
<1> QED BY <1>5 DEF e

\* No item needs no one.
LEMMA CoveredNone ==
  ASSUME NEW W \in SUBSET Task, NEW list \in Seq(Task), IsInjective(list),
         NEW lock \in Int
  PROVE  Covered(0, W, lock, list)
<1>1. Cardinality(W) \in Nat /\ Len(list) \in Nat
  BY TaskSets
<1>2. Owed(lock, list) \in Nat
  BY <1>1, OwedIs
<1> QED BY <1>1, <1>2 DEF Covered

\* What the covers are about.
LEMMA CoverTypes ==
  ASSUME Inv
  PROVE  /\ uxMessagesWaiting \in Int /\ uxLength - uxMessagesWaiting \in Int
         /\ uxMessagesWaiting \in 0..uxLength /\ uxLength \in Nat
         /\ cRxLock \in Int /\ cTxLock \in Int
         /\ xTasksWaitingToSend \in Seq(Task) /\ IsInjective(xTasksWaitingToSend)
         /\ xTasksWaitingToReceive \in Seq(Task)
         /\ IsInjective(xTasksWaitingToReceive)
         /\ Readers \in SUBSET Task /\ Senders \in SUBSET Task
         /\ Readers' \in SUBSET Task /\ Senders' \in SUBSET Task
<1>1. Cardinality(Task) \in Nat
  BY QueueAssumption, FS_CardinalityType DEF QueueAssumption
<1>2. StoreOK /\ LocksTyped /\ ListsTyped /\ ListsOK
  BY InvParts
<1> QED BY <1>1, <1>2, QueueAssumption
        DEF StoreOK, LocksTyped, ListsTyped, ListsOK, Lock, queueUNLOCKED,
            Readers, Senders, QueueAssumption

\* A task that is not concerned has still to look.
LEMMA StillLooks ==
  ASSUME NEW u \in Task, Waiting(u)' => Waiting(u),
         pc'[u] = pc[u], call'[u] = call[u], timedOut'[u] = timedOut[u]
  PROVE  /\ u \in Readers => u \in Readers'
         /\ u \in Senders => u \in Senders'
BY DEF Readers, Senders, WillLook

\* A task that no longer waits will look.
LEMMA WokenLooks ==
  ASSUME NEW u \in Task, TaskOK(u), Waiting(u), ~Waiting(u)',
         \/ pc'[u] = pc[u] \/ pc'[u] \in {"look", "unlockRx"},
         call'[u] = call[u], timedOut'[u] = timedOut[u]
  PROVE  /\ u \notin Readers /\ u \notin Senders
         /\ Reads(call[u].op) => u \in Readers'
         /\ Sends(call[u].op) => u \in Senders'
BY DEF Readers, Senders, WillLook, TaskOK

\* The first of a list, once it is woken.
LEMMA HeadLooks ==
  ASSUME Inv, \A u \in Task : Waiting(u) => /\ pc'[u] = pc[u] /\ call'[u] = call[u]
                                            /\ timedOut'[u] = timedOut[u]
  PROVE  /\ /\ xTasksWaitingToReceive # << >>
            /\ xTasksWaitingToReceive' = Woken(xTasksWaitingToReceive)
            /\ xTasksWaitingToSend' = xTasksWaitingToSend
            => /\ Head(xTasksWaitingToReceive) \in Readers' \ Readers
               /\ Waiting(Head(xTasksWaitingToReceive))
         /\ /\ xTasksWaitingToSend # << >>
            /\ xTasksWaitingToSend' = Woken(xTasksWaitingToSend)
            /\ xTasksWaitingToReceive' = xTasksWaitingToReceive
            => /\ Head(xTasksWaitingToSend) \in Senders' \ Senders
               /\ Waiting(Head(xTasksWaitingToSend))
<1>1. ListsTyped /\ ListsOK /\ \A u \in Task : TaskOK(u)
  BY InvParts
<1>2. ASSUME xTasksWaitingToReceive # << >>,
             xTasksWaitingToReceive' = Woken(xTasksWaitingToReceive),
             xTasksWaitingToSend' = xTasksWaitingToSend
      PROVE  /\ Head(xTasksWaitingToReceive) \in Readers' \ Readers
             /\ Waiting(Head(xTasksWaitingToReceive))
  <2>0. PICK h \in Task : h = Head(xTasksWaitingToReceive)
    BY <1>1, <1>2, WokenList DEF ListsTyped, ListsOK
  <2>1. /\ h \in Task /\ h \in ToSet(xTasksWaitingToReceive)
        /\ h \notin ToSet(xTasksWaitingToReceive')
    BY <2>0, <1>1, <1>2, WokenList DEF ListsTyped, ListsOK
  <2>2. ToSet(xTasksWaitingToSend') = ToSet(xTasksWaitingToSend)
    BY <1>2
  <2>3. h \notin ToSet(xTasksWaitingToSend') /\ Reads(call[h].op)
    BY <2>1, <2>2, <1>1 DEF ListsOK
  <2>4. Waiting(h) /\ ~Waiting(h)'
    BY <2>1, <2>3 DEF Waiting
  <2>5. h \in Readers' \ Readers
    BY <2>1, <2>3, <2>4, <1>1, WokenLooks
  <2> QED BY <2>0, <2>4, <2>5
<1>3. ASSUME xTasksWaitingToSend # << >>,
             xTasksWaitingToSend' = Woken(xTasksWaitingToSend),
             xTasksWaitingToReceive' = xTasksWaitingToReceive
      PROVE  /\ Head(xTasksWaitingToSend) \in Senders' \ Senders
             /\ Waiting(Head(xTasksWaitingToSend))
  <2>0. PICK h \in Task : h = Head(xTasksWaitingToSend)
    BY <1>1, <1>3, WokenList DEF ListsTyped, ListsOK
  <2>1. /\ h \in Task /\ h \in ToSet(xTasksWaitingToSend)
        /\ h \notin ToSet(xTasksWaitingToSend')
    BY <2>0, <1>1, <1>3, WokenList DEF ListsTyped, ListsOK
  <2>2. ToSet(xTasksWaitingToReceive') = ToSet(xTasksWaitingToReceive)
    BY <1>3
  <2>3. h \notin ToSet(xTasksWaitingToReceive') /\ Sends(call[h].op)
    BY <2>1, <2>2, <1>1 DEF ListsOK
  <2>4. Waiting(h) /\ ~Waiting(h)'
    BY <2>1, <2>3 DEF Waiting
  <2>5. h \in Senders' \ Senders
    BY <2>1, <2>3, <2>4, <1>1, WokenLooks
  <2> QED BY <2>0, <2>4, <2>5
<1> QED BY <1>2, <1>3

\* A step that leaves the items and the lists, in which at most a task that
\* has found the queue empty, or full, has looked in vain.
LEMMA QuietStep ==
  ASSUME Inv, NEW t \in Task,
         UNCHANGED << uxMessagesWaiting, xTasksWaitingToSend, xTasksWaitingToReceive >>,
         \/ UNCHANGED << cRxLock, cTxLock >>
         \/ /\ cRxLock = queueUNLOCKED /\ cRxLock' = queueLOCKED_UNMODIFIED
            /\ cTxLock = queueUNLOCKED /\ cTxLock' = queueLOCKED_UNMODIFIED,
         \A u \in Task : u # t => /\ pc'[u] = pc[u] /\ call'[u] = call[u]
                                  /\ timedOut'[u] = timedOut[u],
         t \in Readers => t \in Readers' \/ IsEmpty,
         t \in Senders => t \in Senders' \/ IsFull
  PROVE  (ReceiversWoken => ReceiversWoken') /\ (SendersWoken => SendersWoken')
<1>1. \A u \in Task : Waiting(u)' => Waiting(u)
  BY DEF Waiting
<1>2. \A u \in Task : u # t => /\ u \in Readers => u \in Readers'
                               /\ u \in Senders => u \in Senders'
  BY <1>1, StillLooks
<1> DEFINE M == uxMessagesWaiting
           F == uxLength - uxMessagesWaiting
           R == xTasksWaitingToReceive
           S == xTasksWaitingToSend
<1>3. /\ M \in Int /\ F \in Int /\ cRxLock \in Int /\ cTxLock \in Int
      /\ cRxLock' \in Int /\ cTxLock' \in Int
      /\ S \in Seq(Task) /\ IsInjective(S) /\ R \in Seq(Task) /\ IsInjective(R)
      /\ Readers \in SUBSET Task /\ Senders \in SUBSET Task
      /\ Readers' \in SUBSET Task /\ Senders' \in SUBSET Task
  BY CoverTypes DEF queueLOCKED_UNMODIFIED
<1>4. Covered(M, Readers, cTxLock, R) => Covered(M, Readers', cTxLock', R)
  <2>1. CASE IsEmpty
    BY <2>1, <1>3, CoveredNone DEF IsEmpty
  <2>2. CASE ~IsEmpty
    <3>1. Readers \subseteq Readers'
      BY <2>2, <1>2, <1>3
    <3>2. Covered(M, Readers, cTxLock, R) => Covered(M, Readers, cTxLock', R)
      BY <1>3, CoveredUnlocked
    <3> QED BY <3>1, <3>2, <1>3, CoveredByMore
  <2> QED BY <2>1, <2>2
<1>5. Covered(F, Senders, cRxLock, S) => Covered(F, Senders', cRxLock', S)
  <2>1. CASE IsFull
    <3>1. F = 0
      BY <2>1, CoverTypes DEF IsFull
    <3> QED BY <3>1, <1>3, CoveredNone
  <2>2. CASE ~IsFull
    <3>1. Senders \subseteq Senders'
      BY <2>2, <1>2, <1>3
    <3>2. Covered(F, Senders, cRxLock, S) => Covered(F, Senders, cRxLock', S)
      BY <1>3, CoveredUnlocked
    <3> QED BY <3>1, <3>2, <1>3, CoveredByMore
  <2> QED BY <2>1, <2>2
<1> QED BY <1>4, <1>5, WokenIsCovered

\* A call is served.
LEMMA ServedWakes ==
  ASSUME Inv, NEW t \in Task, Served(t)
  PROVE  (ReceiversWoken => ReceiversWoken') /\ (SendersWoken => SendersWoken')
<1> DEFINE op == call[t].op
           M == uxMessagesWaiting
           F == uxLength - uxMessagesWaiting
           R == xTasksWaitingToReceive
           S == xTasksWaitingToSend
<1>1. /\ ~Waiting(t) /\ cRxLock = queueUNLOCKED /\ cTxLock = queueUNLOCKED
  BY RunsUnlocked DEF Served, At, Suspending
<1>2. StoreOK /\ ListsTyped /\ CallersTyped /\ ListsOK /\ \A u \in Task : TaskOK(u)
  BY InvParts
<1>3. /\ M \in Int /\ F \in Int /\ M \in 0..uxLength /\ uxLength \in Nat
      /\ S \in Seq(Task) /\ IsInjective(S) /\ R \in Seq(Task) /\ IsInjective(R)
      /\ Readers \in SUBSET Task /\ Senders \in SUBSET Task
      /\ Readers' \in SUBSET Task /\ Senders' \in SUBSET Task
      /\ queueUNLOCKED \in Int
  BY CoverTypes DEF queueUNLOCKED
<1>4. /\ \A u \in Task : u # t => /\ pc'[u] = pc[u] /\ call'[u] = call[u]
                                  /\ timedOut'[u] = timedOut[u]
      /\ cRxLock' = queueUNLOCKED /\ cTxLock' = queueUNLOCKED
  BY <1>1, <1>2, Returns DEF Served, locks
<1>5. \A u \in Task : Waiting(u) => /\ pc'[u] = pc[u] /\ call'[u] = call[u]
                                    /\ timedOut'[u] = timedOut[u]
  BY <1>1, <1>4
<1>6. /\ \A u \in Task : Waiting(u)' => Waiting(u)
      /\ Readers \ {t} \subseteq Readers' /\ Senders \ {t} \subseteq Senders'
  <2>1. \A u \in Task : Waiting(u)' => Waiting(u)
    <3>1. /\ ToSet(xTasksWaitingToSend') \subseteq ToSet(S)
          /\ ToSet(xTasksWaitingToReceive') \subseteq ToSet(R)
      BY <1>3, WokenList DEF Served, WakeReceiver, WakeSender, WakeNextReader
    <3> QED BY <3>1 DEF Waiting
  <2> QED BY <2>1, <1>3, <1>4, StillLooks
<1>7. CASE /\ Sends(op) /\ (~IsFull \/ op = "overwrite")
           /\ prvCopyDataToQueue(call[t].item, op) /\ WakeReceiver
  <2>1. \/ uxMessagesWaiting' = M + 1
        \/ IsFull /\ uxMessagesWaiting' = M
    BY <1>2, <1>7, SendCall, CopyTo DEF Sends
  <2>2. /\ xTasksWaitingToReceive' = Woken(R) /\ xTasksWaitingToSend' = S
        /\ Readers \subseteq Readers'
    BY <1>6, <1>7 DEF WakeReceiver, Readers, Sends, Reads
  <2>3. R # << >> => Head(R) \in Readers' /\ Head(R) \notin Readers
    BY <2>2, <1>5, HeadLooks
  <2>4. uxMessagesWaiting' \in Int /\ uxMessagesWaiting' <= M + 1
    BY <2>1, <1>3
  <2>5. ReceiversWoken => ReceiversWoken'
    <3>1. Covered(M, Readers, queueUNLOCKED, R)
            => Covered(uxMessagesWaiting', Readers', queueUNLOCKED, Woken(R))
      BY <2>2, <2>3, <2>4, <1>3, CoveredByWoken
    <3> QED BY <3>1, <2>2, <1>1, <1>4, WokenIsCovered
  <2>6. SendersWoken => SendersWoken'
    <3>1. CASE uxMessagesWaiting' = M + 1
      <4>1. Covered(F, Senders, queueUNLOCKED, S)
              => Covered(F - 1, Senders', queueUNLOCKED, S)
        BY <1>3, <1>6, CoveredByLess
      <4>2. uxLength - uxMessagesWaiting' = F - 1
        BY <3>1, <1>3
      <4> QED BY <4>1, <4>2, <2>2, <1>1, <1>4, WokenIsCovered
    <3>2. CASE IsFull /\ uxMessagesWaiting' = M
      <4>1. uxLength - uxMessagesWaiting' = 0
        BY <3>2, <1>3 DEF IsFull
      <4>2. Covered(0, Senders', queueUNLOCKED, S)
        BY <1>3, CoveredNone
      <4> QED BY <4>1, <4>2, <2>2, <1>4, WokenIsCovered
    <3> QED BY <2>1, <3>1, <3>2
  <2> QED BY <2>5, <2>6
<1>8. CASE /\ op = "receive" /\ ~IsEmpty /\ prvCopyDataFromQueue(TRUE)
           /\ WakeSender
  <2>1. uxMessagesWaiting' = M - 1
    BY <1>8 DEF prvCopyDataFromQueue
  <2>2. /\ xTasksWaitingToSend' = Woken(S) /\ xTasksWaitingToReceive' = R
        /\ Senders \subseteq Senders'
    BY <1>6, <1>8 DEF WakeSender, Senders, Sends
  <2>3. S # << >> => Head(S) \in Senders' /\ Head(S) \notin Senders
    BY <2>2, <1>5, HeadLooks
  <2>4. ReceiversWoken => ReceiversWoken'
    <3>1. Covered(M, Readers, queueUNLOCKED, R)
            => Covered(M - 1, Readers', queueUNLOCKED, R)
      BY <1>3, <1>6, CoveredByLess
    <3> QED BY <3>1, <2>1, <2>2, <1>1, <1>4, WokenIsCovered
  <2>5. SendersWoken => SendersWoken'
    <3>1. /\ uxLength - uxMessagesWaiting' = F + 1
          /\ F + 1 \in Int /\ F + 1 <= F + 1
      BY <2>1, <1>3
    <3>2. Covered(F, Senders, queueUNLOCKED, S)
            => Covered(F + 1, Senders', queueUNLOCKED, Woken(S))
      BY <2>2, <2>3, <3>1, <1>3, CoveredByWoken
    <3> QED BY <3>1, <3>2, <2>2, <1>1, <1>4, WokenIsCovered
  <2> QED BY <2>4, <2>5
<1>9. CASE /\ op = "peek" /\ ~IsEmpty /\ prvCopyDataFromQueue(FALSE)
           /\ WakeNextReader
  <2>1. uxMessagesWaiting' = M
    BY <1>9 DEF prvCopyDataFromQueue
  <2>2. /\ xTasksWaitingToReceive' = Woken(R) /\ xTasksWaitingToSend' = S
        /\ Senders \subseteq Senders'
    BY <1>6, <1>9 DEF WakeNextReader, WakeReceiver, Senders, Sends
  <2>3. R # << >> => Head(R) \in Readers' /\ Head(R) \notin Readers
    BY <2>2, <1>5, HeadLooks
  <2>4. ReceiversWoken => ReceiversWoken'
    <3>1. Readers \ {t} \in SUBSET Task /\ M - 1 \in Int /\ M <= (M - 1) + 1
      BY <1>3
    <3>2. Covered(M, Readers, queueUNLOCKED, R)
            => Covered(M - 1, Readers \ {t}, queueUNLOCKED, R)
      BY <3>1, <1>3, CoveredByLess
    <3>3. Covered(M - 1, Readers \ {t}, queueUNLOCKED, R)
            => Covered(M, Readers', queueUNLOCKED, Woken(R))
      BY <2>3, <3>1, <1>3, <1>6, CoveredByWoken
    <3> QED BY <3>2, <3>3, <2>1, <2>2, <1>1, <1>4, WokenIsCovered
  <2>5. SendersWoken => SendersWoken'
    <3>1. Covered(F, Senders, queueUNLOCKED, S)
            => Covered(F, Senders', queueUNLOCKED, S)
      BY <2>2, <1>3, CoveredByMore
    <3> QED BY <3>1, <2>1, <2>2, <1>1, <1>4, WokenIsCovered
  <2> QED BY <2>4, <2>5
<1> QED BY <1>7, <1>8, <1>9 DEF Served

\* The steps of a call that wake nobody.
LEMMA QuietWakes ==
  ASSUME Inv, NEW t \in Task,
         \/ \E op \in Calls \ {"reset"}, x \in Item \cup {NoItem}, w \in Waits :
              Call(t, op, x, w)
         \/ NotServed(t) \/ prvLockQueue(t) \/ xTaskCheckForTimeOut(t)
         \/ TestQueue(t) \/ Recheck(t)
  PROVE  (ReceiversWoken => ReceiversWoken') /\ (SendersWoken => SendersWoken')
<1>1. CallersTyped /\ TaskOK(t)
  BY InvParts
<1>2. CASE \E op \in Calls \ {"reset"}, x \in Item \cup {NoItem}, w \in Waits :
             Call(t, op, x, w)
  <2>1. /\ UNCHANGED << uxMessagesWaiting, xTasksWaitingToSend, xTasksWaitingToReceive >>
        /\ UNCHANGED << cRxLock, cTxLock >>
        /\ \A u \in Task : u # t => /\ pc'[u] = pc[u] /\ call'[u] = call[u]
                                    /\ timedOut'[u] = timedOut[u]
    BY <1>1, <1>2 DEF Call, Goto, CallersTyped, store, locks, waiting
  <2>2. t \notin Readers /\ t \notin Senders
    BY <1>2 DEF Call, At, Readers, Senders, WillLook
  <2> QED BY <2>1, <2>2, QuietStep
<1>3. CASE NotServed(t)
  <2>1. /\ UNCHANGED << uxMessagesWaiting, xTasksWaitingToSend, xTasksWaitingToReceive >>
        /\ UNCHANGED << cRxLock, cTxLock >>
    BY <1>3 DEF NotServed, store, locks, waiting
  <2>2. \A u \in Task : u # t => /\ pc'[u] = pc[u] /\ call'[u] = call[u]
                                 /\ timedOut'[u] = timedOut[u]
    BY <1>1, <1>3, Returns DEF NotServed, Goto, CallersTyped
  <2>3. (t \in Readers => IsEmpty) /\ (t \in Senders => IsFull)
    BY <1>3 DEF NotServed, Readers, Senders, Reads, Sends
  <2> QED BY <2>1, <2>2, <2>3, QuietStep
<1>4. CASE prvLockQueue(t)
  <2>1. cRxLock = queueUNLOCKED /\ cTxLock = queueUNLOCKED
    BY <1>4, RunsUnlocked DEF prvLockQueue, At, Suspending
  <2>2. /\ UNCHANGED << uxMessagesWaiting, xTasksWaitingToSend, xTasksWaitingToReceive >>
        /\ cRxLock' = queueLOCKED_UNMODIFIED /\ cTxLock' = queueLOCKED_UNMODIFIED
        /\ \A u \in Task : u # t => /\ pc'[u] = pc[u] /\ call'[u] = call[u]
                                    /\ timedOut'[u] = timedOut[u]
    BY <2>1, <1>1, <1>4 DEF prvLockQueue, Locked, Goto, CallersTyped, store, waiting
  <2>3. t \notin Readers /\ t \notin Senders
    BY <1>4 DEF prvLockQueue, At, Readers, Senders, WillLook
  <2> QED BY <2>1, <2>2, <2>3, QuietStep
<1>5. CASE xTaskCheckForTimeOut(t)
  <2>1. /\ UNCHANGED << uxMessagesWaiting, xTasksWaitingToSend, xTasksWaitingToReceive >>
        /\ UNCHANGED << cRxLock, cTxLock >>
    BY <1>5 DEF xTaskCheckForTimeOut, store, locks, waiting
  <2>2. \A u \in Task : u # t => /\ pc'[u] = pc[u] /\ call'[u] = call[u]
                                 /\ timedOut'[u] = timedOut[u]
    BY <1>1, <1>5 DEF xTaskCheckForTimeOut, Goto, CallersTyped
  <2>3. t \notin Readers /\ t \notin Senders
    BY <1>5 DEF xTaskCheckForTimeOut, At, Readers, Senders, WillLook
  <2> QED BY <2>1, <2>2, <2>3, QuietStep
<1>6. CASE TestQueue(t)
  <2>1. /\ UNCHANGED << uxMessagesWaiting, xTasksWaitingToSend, xTasksWaitingToReceive >>
        /\ UNCHANGED << cRxLock, cTxLock >>
        /\ \A u \in Task : u # t => /\ pc'[u] = pc[u] /\ call'[u] = call[u]
                                    /\ timedOut'[u] = timedOut[u]
    BY <1>1, <1>6 DEF TestQueue, Goto, CallersTyped, store, locks, waiting
  <2>2. t \notin Readers /\ t \notin Senders
    BY <1>6 DEF TestQueue, At, Readers, Senders, WillLook
  <2> QED BY <2>1, <2>2, QuietStep
<1>7. CASE Recheck(t)
  <2>1. /\ UNCHANGED << uxMessagesWaiting, xTasksWaitingToSend, xTasksWaitingToReceive >>
        /\ UNCHANGED << cRxLock, cTxLock >>
    BY <1>7 DEF Recheck, store, locks, waiting
  <2>2. \A u \in Task : u # t => /\ pc'[u] = pc[u] /\ call'[u] = call[u]
                                 /\ timedOut'[u] = timedOut[u]
    BY <1>1, <1>7, Returns DEF Recheck, Goto, CallersTyped
  <2>3. t \notin Readers /\ t \notin Senders
    BY <1>7 DEF Recheck, At, Readers, Senders, WillLook
  <2> QED BY <2>1, <2>2, <2>3, QuietStep
<1> QED BY <1>2, <1>3, <1>4, <1>5, <1>6, <1>7

\* A task that waits on a locked queue: what came since it looked is counted.
LEMMA CoveredByLock ==
  ASSUME NEW n \in Int, NEW W \in SUBSET Task,
         NEW list \in Seq(Task), IsInjective(list), NEW lock \in 0..Cardinality(Task),
         n <= lock \/ lock = Cardinality(Task)
  PROVE  Covered(n, W, lock, list)
<1>1. /\ Cardinality(W) \in Nat /\ Cardinality(Task) \in Nat
      /\ Len(list) \in Nat /\ Len(list) <= Cardinality(Task)
  BY TaskSets, ListBound, QueueAssumption DEF QueueAssumption
<1>2. Owed(lock, list) = IF lock >= Len(list) THEN Len(list)
                         ELSE IF lock > 0 THEN lock ELSE 0
  BY <1>1, OwedIs, lock \in Int
<1> QED BY <1>1, <1>2 DEF Covered

\* A task places itself on a list.
LEMMA PlaceWakes ==
  ASSUME Inv, NEW t \in Task, PlaceOnEventList(t)
  PROVE  (ReceiversWoken => ReceiversWoken') /\ (SendersWoken => SendersWoken')
<1> DEFINE M == uxMessagesWaiting
           F == uxLength - uxMessagesWaiting
           R == xTasksWaitingToReceive
           S == xTasksWaitingToSend
<1>1. /\ pc[t] = "place" /\ ~Waiting(t)
      /\ cRxLock \in 0..Cardinality(Task) /\ cTxLock \in 0..Cardinality(Task)
  BY HoldsLocks DEF PlaceOnEventList, At, Runs, Suspending
<1>2. CallersTyped /\ TaskOK(t) /\ AboutToWait
  BY InvParts
<1>3. /\ M \in Int /\ F \in Int /\ cRxLock \in Int /\ cTxLock \in Int
      /\ S \in Seq(Task) /\ IsInjective(S) /\ R \in Seq(Task) /\ IsInjective(R)
      /\ Readers \in SUBSET Task /\ Senders \in SUBSET Task
      /\ Readers' \in SUBSET Task /\ Senders' \in SUBSET Task
  BY CoverTypes
<1>4. /\ UNCHANGED << uxMessagesWaiting, cRxLock, cTxLock, call, timedOut >>
      /\ \A u \in Task : u # t => pc'[u] = pc[u]
  BY <1>2 DEF PlaceOnEventList, Goto, CallersTyped, store, locks
<1>5. t \notin ToSet(R) /\ t \notin ToSet(S)
  BY <1>1 DEF Waiting
<1>6. t \notin Readers /\ t \notin Senders
  BY <1>1 DEF Readers, Senders, WillLook
<1>7. CASE Sends(call[t].op)
  <2>1. /\ xTasksWaitingToSend' = Placed(S, t) /\ xTasksWaitingToReceive' = R
        /\ Placed(S, t) \in Seq(Task) /\ IsInjective(Placed(S, t))
        /\ ToSet(Placed(S, t)) = ToSet(S) \cup {t}
    BY <1>3, <1>5, <1>7, PlacedList DEF PlaceOnEventList
  <2>2. \A u \in Task : u # t => (Waiting(u)' => Waiting(u))
    BY <2>1 DEF Waiting
  <2>3. Readers \subseteq Readers'
    BY <2>2, <1>3, <1>4, <1>6, StillLooks
  <2>4. ReceiversWoken => ReceiversWoken'
    <3>1. Covered(M, Readers, cTxLock, R) => Covered(M, Readers', cTxLock, R)
      BY <2>3, <1>3, CoveredByMore
    <3> QED BY <3>1, <2>1, <1>4, WokenIsCovered
  <2>5. SendersWoken'
    <3>1. F <= cRxLock \/ cRxLock = Cardinality(Task)
      BY <1>1, <1>2, <1>7 DEF AboutToWait
    <3>2. Covered(F, Senders', cRxLock, Placed(S, t))
      BY <3>1, <2>1, <1>1, <1>3, CoveredByLock
    <3> QED BY <3>2, <2>1, <1>4, WokenIsCovered
  <2> QED BY <2>4, <2>5
<1>8. CASE ~Sends(call[t].op)
  <2>1. /\ xTasksWaitingToReceive' = Placed(R, t) /\ xTasksWaitingToSend' = S
        /\ Placed(R, t) \in Seq(Task) /\ IsInjective(Placed(R, t))
        /\ ToSet(Placed(R, t)) = ToSet(R) \cup {t}
    BY <1>3, <1>5, <1>8, PlacedList DEF PlaceOnEventList
  <2>2. \A u \in Task : u # t => (Waiting(u)' => Waiting(u))
    BY <2>1 DEF Waiting
  <2>3. Senders \subseteq Senders'
    BY <2>2, <1>3, <1>4, <1>6, StillLooks
  <2>4. SendersWoken => SendersWoken'
    <3>1. Covered(F, Senders, cRxLock, S) => Covered(F, Senders', cRxLock, S)
      BY <2>3, <1>3, CoveredByMore
    <3> QED BY <3>1, <2>1, <1>4, WokenIsCovered
  <2>5. ReceiversWoken'
    <3>1. Reads(call[t].op)
      BY <1>1, <1>2, <1>8 DEF TaskOK, CallersTyped, CallRecord, Sends, Reads
    <3>2. M <= cTxLock \/ cTxLock = Cardinality(Task)
      BY <3>1, <1>1, <1>2 DEF AboutToWait
    <3>3. Covered(M, Readers', cTxLock, Placed(R, t))
      BY <3>2, <2>1, <1>1, <1>3, CoveredByLock
    <3> QED BY <3>3, <2>1, <1>4, WokenIsCovered
  <2> QED BY <2>4, <2>5
<1> QED BY <1>7, <1>8

\* prvUnlockQueue wakes the receivers that were owed an item.
LEMMA UnlockTxWakes ==
  ASSUME Inv, NEW t \in Task, UnlockTx(t)
  PROVE  (ReceiversWoken => ReceiversWoken') /\ (SendersWoken => SendersWoken')
<1> DEFINE M == uxMessagesWaiting
           F == uxLength - uxMessagesWaiting
           R == xTasksWaitingToReceive
           S == xTasksWaitingToSend
           K == ToSet(R) \ ToSet(WokenBy(cTxLock, R))
<1>1. CallersTyped /\ ListsTyped /\ ListsOK /\ \A u \in Task : TaskOK(u)
  BY InvParts
<1>2. /\ M \in Int /\ F \in Int /\ cRxLock \in Int /\ cTxLock \in Int
      /\ S \in Seq(Task) /\ IsInjective(S) /\ R \in Seq(Task) /\ IsInjective(R)
      /\ Readers \in SUBSET Task /\ Senders \in SUBSET Task
      /\ Readers' \in SUBSET Task /\ Senders' \in SUBSET Task
  BY CoverTypes
<1>3. /\ UNCHANGED << uxMessagesWaiting, cRxLock, xTasksWaitingToSend, call, timedOut >>
      /\ xTasksWaitingToReceive' = WokenBy(cTxLock, R) /\ cTxLock' = queueUNLOCKED
      /\ pc[t] = "unlock" /\ pc'[t] = "unlockRx"
      /\ \A u \in Task : u # t => pc'[u] = pc[u]
  BY <1>1 DEF UnlockTx, Goto, CallersTyped, store
<1>4. ToSet(WokenBy(cTxLock, R)) \subseteq ToSet(R) /\ ToSet(R) \subseteq Task
  <2>1. ToSet(WokenBy(cTxLock, R)) \subseteq ToSet(R)
    BY <1>2, OwedNumber
  <2>2. ToSet(R) \subseteq Task
    BY <1>2 DEF ToSet
  <2> QED BY <2>1, <2>2
<1>5. \A u \in Task : Waiting(u)' => Waiting(u)
  BY <1>3, <1>4 DEF Waiting
<1>6. Readers \subseteq Readers' /\ Senders \subseteq Senders'
  <2>1. \A u \in Task : WillLook(u) => WillLook(u)'
    BY <1>3, <1>5 DEF WillLook
  <2> QED BY <2>1, <1>3 DEF Readers, Senders
<1>7. K \subseteq Readers' /\ Readers \cap ToSet(R) = {}
  <2>1. ASSUME NEW u \in K PROVE u \in Readers'
    <3>1. u \in Task /\ u \in ToSet(R) /\ u \notin ToSet(xTasksWaitingToReceive')
      BY <1>3, <1>4
    <3>2. u \notin ToSet(xTasksWaitingToSend') /\ Reads(call[u].op)
      BY <3>1, <1>1, <1>3 DEF ListsOK
    <3>3. Waiting(u) /\ ~Waiting(u)'
      BY <3>1, <3>2 DEF Waiting
    <3> QED BY <3>1, <3>2, <3>3, <1>1, <1>3, WokenLooks
  <2>2. \A u \in Readers : u \notin ToSet(R)
    BY DEF Readers, WillLook, Waiting
  <2> QED BY <2>1, <2>2
<1> HIDE DEF K
<1>8. Covered(M, Readers, cTxLock, R)
        => Covered(M, Readers', queueUNLOCKED, WokenBy(cTxLock, R))
  BY <1>2, <1>6, <1>7, CoveredByUnlock DEF K
<1>9. Covered(F, Senders, cRxLock, S) => Covered(F, Senders', cRxLock, S)
  BY <1>2, <1>6, CoveredByMore
<1> QED BY <1>3, <1>8, <1>9, WokenIsCovered

\* It wakes the senders that were owed a place.
LEMMA UnlockRxWakes ==
  ASSUME Inv, NEW t \in Task, UnlockRx(t)
  PROVE  (ReceiversWoken => ReceiversWoken') /\ (SendersWoken => SendersWoken')
<1> DEFINE M == uxMessagesWaiting
           F == uxLength - uxMessagesWaiting
           R == xTasksWaitingToReceive
           S == xTasksWaitingToSend
           K == ToSet(S) \ ToSet(WokenBy(cRxLock, S))
<1>1. CallersTyped /\ ListsTyped /\ ListsOK /\ \A u \in Task : TaskOK(u)
  BY InvParts
<1>2. /\ M \in Int /\ F \in Int /\ cRxLock \in Int /\ cTxLock \in Int
      /\ S \in Seq(Task) /\ IsInjective(S) /\ R \in Seq(Task) /\ IsInjective(R)
      /\ Readers \in SUBSET Task /\ Senders \in SUBSET Task
      /\ Readers' \in SUBSET Task /\ Senders' \in SUBSET Task
  BY CoverTypes
<1>3. /\ UNCHANGED << uxMessagesWaiting, cTxLock, xTasksWaitingToReceive >>
      /\ xTasksWaitingToSend' = WokenBy(cRxLock, S) /\ cRxLock' = queueUNLOCKED
      /\ pc[t] = "unlockRx"
  BY DEF UnlockRx, store
<1>4. /\ \A u \in Task : u # t => /\ pc'[u] = pc[u] /\ call'[u] = call[u]
                                  /\ timedOut'[u] = timedOut[u]
      /\ ~timedOut[t] => /\ pc'[t] = "look" /\ call'[t] = call[t]
                         /\ timedOut'[t] = timedOut[t]
  <2>1. CASE timedOut[t] /\ Sends(call[t].op)
    BY <2>1, <1>1, Returns DEF UnlockRx
  <2>2. CASE ~(timedOut[t] /\ Sends(call[t].op))
    BY <2>2, <1>1 DEF UnlockRx, Goto, CallersTyped
  <2> QED BY <2>1, <2>2
<1>5. ToSet(WokenBy(cRxLock, S)) \subseteq ToSet(S) /\ ToSet(S) \subseteq Task
  <2>1. ToSet(WokenBy(cRxLock, S)) \subseteq ToSet(S)
    BY <1>2, OwedNumber
  <2>2. ToSet(S) \subseteq Task
    BY <1>2 DEF ToSet
  <2> QED BY <2>1, <2>2
<1>6. \A u \in Task : Waiting(u)' => Waiting(u)
  BY <1>3, <1>5 DEF Waiting
<1>7. Readers \subseteq Readers' /\ Senders \subseteq Senders'
  <2>1. \A u \in Task : WillLook(u) => WillLook(u)' /\ call'[u] = call[u]
    BY <1>3, <1>4, <1>6 DEF WillLook
  <2> QED BY <2>1 DEF Readers, Senders
<1>8. K \subseteq Senders' /\ Senders \cap ToSet(S) = {}
  <2>1. ASSUME NEW u \in K PROVE u \in Senders'
    <3>1. u \in Task /\ u \in ToSet(S) /\ u \notin ToSet(xTasksWaitingToSend')
      BY <1>3, <1>5
    <3>2. u \notin ToSet(xTasksWaitingToReceive') /\ Sends(call[u].op)
      BY <3>1, <1>1, <1>3 DEF ListsOK
    <3>3. Waiting(u) /\ ~Waiting(u)'
      BY <3>1, <3>2 DEF Waiting
    <3>4. ~timedOut[u] /\ TaskOK(u)
      BY <3>1, <3>3, <1>1 DEF TaskOK
    <3>5. /\ \/ pc'[u] = pc[u] \/ pc'[u] \in {"look", "unlockRx"}
          /\ call'[u] = call[u] /\ timedOut'[u] = timedOut[u]
      BY <3>1, <3>4, <1>4
    <3> QED BY <3>1, <3>2, <3>3, <3>4, <3>5, WokenLooks
  <2>2. \A u \in Senders : u \notin ToSet(S)
    BY DEF Senders, WillLook, Waiting
  <2> QED BY <2>1, <2>2
<1> HIDE DEF K
<1>9. Covered(F, Senders, cRxLock, S)
        => Covered(F, Senders', queueUNLOCKED, WokenBy(cRxLock, S))
  BY <1>2, <1>7, <1>8, CoveredByUnlock DEF K
<1>10. Covered(M, Readers, cTxLock, R) => Covered(M, Readers', cTxLock, R)
  BY <1>2, <1>7, CoveredByMore
<1> QED BY <1>3, <1>9, <1>10, WokenIsCovered

\* A reset leaves no item, and wakes a sender.
LEMMA ResetWakes ==
  ASSUME Inv, NEW t \in Task, xQueueGenericReset(t)
  PROVE  ReceiversWoken'
<1>1. Inv'
  BY ResetInv
<1>2. /\ uxMessagesWaiting' = 0 /\ cTxLock' \in Int
      /\ xTasksWaitingToReceive' = xTasksWaitingToReceive
  BY DEF xQueueGenericReset, WakeSender, queueUNLOCKED
<1>3. Covered(0, Readers', cTxLock', xTasksWaitingToReceive')
  BY <1>2, CoverTypes, CoveredNone
<1> QED BY <1>2, <1>3, WokenIsCovered

\* An interrupt adds an item.
LEMMA SendFromISRWakes ==
  ASSUME Inv, NEW x \in Item, NEW pos \in IsrCalls, Sends(pos),
         xQueueGenericSendFromISR(x, pos)
  PROVE  (ReceiversWoken => ReceiversWoken') /\ (SendersWoken => SendersWoken')
<1> DEFINE M == uxMessagesWaiting
           F == uxLength - uxMessagesWaiting
           R == xTasksWaitingToReceive
           S == xTasksWaitingToSend
<1>1. StoreOK /\ LocksTyped
  BY InvParts
<1>2. /\ M \in Int /\ F \in Int /\ M \in 0..uxLength /\ uxLength \in Nat
      /\ cRxLock \in Int /\ cTxLock \in Int /\ queueUNLOCKED \in Int
      /\ S \in Seq(Task) /\ IsInjective(S) /\ R \in Seq(Task) /\ IsInjective(R)
      /\ Readers \in SUBSET Task /\ Senders \in SUBSET Task
      /\ Readers' \in SUBSET Task /\ Senders' \in SUBSET Task
  BY CoverTypes DEF queueUNLOCKED
<1>3. \/ uxMessagesWaiting' = M + 1
      \/ IsFull /\ uxMessagesWaiting' = M
  BY <1>1, CopyTo, QueueAssumption
     DEF xQueueGenericSendFromISR, Sends, QueueAssumption
<1>4. /\ UNCHANGED << pc, call, timedOut, cRxLock, xTasksWaitingToSend >>
      /\ \/ /\ cTxLock = queueUNLOCKED /\ cTxLock' = queueUNLOCKED
            /\ xTasksWaitingToReceive' = Woken(R)
         \/ /\ cTxLock # queueUNLOCKED /\ cTxLock' = Counted(cTxLock)
            /\ xTasksWaitingToReceive' = R
  BY DEF xQueueGenericSendFromISR, callers, WakeReceiver, waiting
<1>5. /\ ToSet(Woken(R)) \subseteq ToSet(R)
      /\ \A u \in Task : Waiting(u)' => Waiting(u)
  BY <1>2, <1>4, WokenList DEF Waiting
<1>6. Readers \subseteq Readers' /\ Senders \subseteq Senders'
  BY <1>2, <1>4, <1>5, StillLooks
<1>7. uxMessagesWaiting' \in Int /\ uxMessagesWaiting' <= M + 1
  BY <1>2, <1>3
<1>8. ReceiversWoken => ReceiversWoken'
  <2>1. CASE cTxLock = queueUNLOCKED
    <3>1. R # << >> => Head(R) \in Readers' /\ Head(R) \notin Readers
      BY <2>1, <1>4, HeadLooks
    <3>2. Covered(M, Readers, queueUNLOCKED, R)
            => Covered(uxMessagesWaiting', Readers', queueUNLOCKED, Woken(R))
      BY <3>1, <1>2, <1>6, <1>7, CoveredByWoken
    <3> QED BY <2>1, <3>2, <1>4, WokenIsCovered
  <2>2. CASE cTxLock # queueUNLOCKED
    <3>1. cTxLock \in 0..Cardinality(Task) /\ Counted(cTxLock) \in Int
      <4>1. Cardinality(Task) \in Nat
        BY QueueAssumption, FS_CardinalityType DEF QueueAssumption
      <4> QED BY <2>2, <4>1, <1>1 DEF LocksTyped, Lock, queueUNLOCKED, Counted
    <3>2. Covered(M, Readers, cTxLock, R)
            => Covered(uxMessagesWaiting', Readers, Counted(cTxLock), R)
      BY <3>1, <1>2, <1>7, CoveredByCount
    <3>3. Covered(uxMessagesWaiting', Readers, Counted(cTxLock), R)
            => Covered(uxMessagesWaiting', Readers', Counted(cTxLock), R)
      BY <3>1, <1>2, <1>6, <1>7, CoveredByMore
    <3> QED BY <2>2, <3>2, <3>3, <1>4, WokenIsCovered
  <2> QED BY <2>1, <2>2
<1>9. SendersWoken => SendersWoken'
  <2>1. /\ uxLength - uxMessagesWaiting' \in Int
        /\ uxLength - uxMessagesWaiting' <= F
    BY <1>2, <1>3
  <2>2. Covered(F, Senders, cRxLock, S)
          => Covered(uxLength - uxMessagesWaiting', Senders', cRxLock, S)
    BY <2>1, <1>2, <1>6, CoveredByMore
  <2> QED BY <2>2, <1>4, WokenIsCovered
<1> QED BY <1>8, <1>9

\* An interrupt takes an item.
LEMMA ReceiveFromISRWakes ==
  ASSUME Inv, xQueueReceiveFromISR
  PROVE  (ReceiversWoken => ReceiversWoken') /\ (SendersWoken => SendersWoken')
<1> DEFINE M == uxMessagesWaiting
           F == uxLength - uxMessagesWaiting
           R == xTasksWaitingToReceive
           S == xTasksWaitingToSend
<1>1. LocksTyped
  BY InvParts
<1>2. /\ M \in Int /\ F \in Int /\ M \in 0..uxLength /\ uxLength \in Nat
      /\ cRxLock \in Int /\ cTxLock \in Int /\ queueUNLOCKED \in Int
      /\ S \in Seq(Task) /\ IsInjective(S) /\ R \in Seq(Task) /\ IsInjective(R)
      /\ Readers \in SUBSET Task /\ Senders \in SUBSET Task
      /\ Readers' \in SUBSET Task /\ Senders' \in SUBSET Task
  BY CoverTypes DEF queueUNLOCKED
<1>3. uxMessagesWaiting' = M - 1 /\ uxLength - uxMessagesWaiting' = F + 1
  BY <1>2 DEF xQueueReceiveFromISR, prvCopyDataFromQueue
<1>4. /\ UNCHANGED << pc, call, timedOut, cTxLock, xTasksWaitingToReceive >>
      /\ \/ /\ cRxLock = queueUNLOCKED /\ cRxLock' = queueUNLOCKED
            /\ xTasksWaitingToSend' = Woken(S)
         \/ /\ cRxLock # queueUNLOCKED /\ cRxLock' = Counted(cRxLock)
            /\ xTasksWaitingToSend' = S
  BY DEF xQueueReceiveFromISR, callers, WakeSender, waiting
<1>5. /\ ToSet(Woken(S)) \subseteq ToSet(S)
      /\ \A u \in Task : Waiting(u)' => Waiting(u)
  BY <1>2, <1>4, WokenList DEF Waiting
<1>6. Readers \subseteq Readers' /\ Senders \subseteq Senders'
  BY <1>2, <1>4, <1>5, StillLooks
<1>7. M - 1 \in Int /\ M - 1 <= M /\ F + 1 \in Int /\ F + 1 <= F + 1
  BY <1>2
<1>8. SendersWoken => SendersWoken'
  <2>1. CASE cRxLock = queueUNLOCKED
    <3>1. S # << >> => Head(S) \in Senders' /\ Head(S) \notin Senders
      BY <2>1, <1>4, HeadLooks
    <3>2. Covered(F, Senders, queueUNLOCKED, S)
            => Covered(F + 1, Senders', queueUNLOCKED, Woken(S))
      BY <3>1, <1>2, <1>6, <1>7, CoveredByWoken
    <3> QED BY <2>1, <3>2, <1>3, <1>4, WokenIsCovered
  <2>2. CASE cRxLock # queueUNLOCKED
    <3>1. cRxLock \in 0..Cardinality(Task) /\ Counted(cRxLock) \in Int
      <4>1. Cardinality(Task) \in Nat
        BY QueueAssumption, FS_CardinalityType DEF QueueAssumption
      <4> QED BY <2>2, <4>1, <1>1 DEF LocksTyped, Lock, queueUNLOCKED, Counted
    <3>2. Covered(F, Senders, cRxLock, S)
            => Covered(F + 1, Senders, Counted(cRxLock), S)
      BY <3>1, <1>2, <1>7, CoveredByCount
    <3>3. Covered(F + 1, Senders, Counted(cRxLock), S)
            => Covered(F + 1, Senders', Counted(cRxLock), S)
      BY <3>1, <1>2, <1>6, <1>7, CoveredByMore
    <3> QED BY <2>2, <3>2, <3>3, <1>3, <1>4, WokenIsCovered
  <2> QED BY <2>1, <2>2
<1>9. ReceiversWoken => ReceiversWoken'
  <2>1. Covered(M, Readers, cTxLock, R) => Covered(M - 1, Readers', cTxLock, R)
    BY <1>2, <1>6, <1>7, CoveredByMore
  <2> QED BY <2>1, <1>3, <1>4, WokenIsCovered
<1> QED BY <1>8, <1>9

\* A wait ends without an item: the task looks at the queue once more.
LEMMA StopWaitingWakes ==
  ASSUME Inv, NEW t \in Task, suspender = NoTask, StopWaiting(t),
         UNCHANGED << uxMessagesWaiting, cRxLock, cTxLock, pc, call, timedOut >>
  PROVE  (ReceiversWoken => ReceiversWoken') /\ (SendersWoken => SendersWoken')
<1> DEFINE M == uxMessagesWaiting
           F == uxLength - uxMessagesWaiting
           R == xTasksWaitingToReceive
           S == xTasksWaitingToSend
<1>1. /\ M \in Int /\ F \in Int
      /\ S \in Seq(Task) /\ IsInjective(S) /\ R \in Seq(Task) /\ IsInjective(R)
      /\ Readers \in SUBSET Task /\ Senders \in SUBSET Task
      /\ Readers' \in SUBSET Task /\ Senders' \in SUBSET Task
  BY CoverTypes
<1>2. cRxLock = queueUNLOCKED /\ cTxLock = queueUNLOCKED
  BY InvParts DEF LockedBySuspender
<1>3. /\ xTasksWaitingToSend' = Without(S, t)
      /\ xTasksWaitingToReceive' = Without(R, t)
      /\ Without(S, t) \in Seq(Task) /\ IsInjective(Without(S, t))
      /\ Without(R, t) \in Seq(Task) /\ IsInjective(Without(R, t))
      /\ ToSet(Without(S, t)) \subseteq ToSet(S)
      /\ ToSet(Without(R, t)) \subseteq ToSet(R)
      /\ (S = << >> => Without(S, t) = << >>) /\ (R = << >> => Without(R, t) = << >>)
  <2>1. \A L : ToSet(L) = {L[i] : i \in DOMAIN L}
    BY DEF ToSet
  <2>2. t \notin ToSet(<< >>)
    BY <2>1
  <2>3. /\ Without(S, t) \in Seq(Task) /\ IsInjective(Without(S, t))
        /\ ToSet(Without(S, t)) \subseteq ToSet(S)
        /\ t \notin ToSet(S) => Without(S, t) = S
    BY <1>1, WithoutList
  <2>4. /\ Without(R, t) \in Seq(Task) /\ IsInjective(Without(R, t))
        /\ ToSet(Without(R, t)) \subseteq ToSet(R)
        /\ t \notin ToSet(R) => Without(R, t) = R
    BY <1>1, WithoutList
  <2>5. xTasksWaitingToSend' = Without(S, t) /\ xTasksWaitingToReceive' = Without(R, t)
    BY DEF StopWaiting
  <2> QED BY <2>2, <2>3, <2>4, <2>5
<1>4. \A u \in Task : Waiting(u)' => Waiting(u)
  BY <1>3 DEF Waiting
<1>5. Readers \subseteq Readers' /\ Senders \subseteq Senders'
  BY <1>1, <1>4, StillLooks
<1>6. /\ Cardinality(Readers) <= Cardinality(Readers') /\ Cardinality(Readers) \in Nat
      /\ Cardinality(Senders) <= Cardinality(Senders') /\ Cardinality(Senders) \in Nat
      /\ Cardinality(Readers') \in Nat /\ Cardinality(Senders') \in Nat
  BY <1>1, <1>5, TaskSets, FS_Subset, Readers \in SUBSET Readers',
     Senders \in SUBSET Senders'
<1>7. Covered(M, Readers, queueUNLOCKED, R)
        => Covered(M, Readers', queueUNLOCKED, Without(R, t))
  <2>1. Covered(M, Readers, queueUNLOCKED, R) => R = << >> \/ M <= Cardinality(Readers)
    BY <1>1, CoveredUnlocked
  <2>2. Without(R, t) = << >> \/ M <= Cardinality(Readers')
          => Covered(M, Readers', queueUNLOCKED, Without(R, t))
    BY <1>1, <1>3, CoveredUnlocked
  <2> QED BY <2>1, <2>2, <1>1, <1>3, <1>6
<1>8. Covered(F, Senders, queueUNLOCKED, S)
        => Covered(F, Senders', queueUNLOCKED, Without(S, t))
  <2>1. Covered(F, Senders, queueUNLOCKED, S) => S = << >> \/ F <= Cardinality(Senders)
    BY <1>1, CoveredUnlocked
  <2>2. Without(S, t) = << >> \/ F <= Cardinality(Senders')
          => Covered(F, Senders', queueUNLOCKED, Without(S, t))
    BY <1>1, <1>3, CoveredUnlocked
  <2> QED BY <2>1, <2>2, <1>1, <1>3, <1>6
<1> QED BY <1>2, <1>3, <1>7, <1>8, WokenIsCovered

\* A step that leaves all that matters.
LEMMA StillCovered ==
  ASSUME UNCHANGED << uxMessagesWaiting, cRxLock, cTxLock, xTasksWaitingToSend,
                      xTasksWaitingToReceive, pc, call, timedOut >>
  PROVE  (ReceiversWoken => ReceiversWoken') /\ (SendersWoken => SendersWoken')
BY DEF ReceiversWoken, SendersWoken, WillLook, Waiting, Owed
-----------------------------------------------------------------------------
\* Every step keeps the readers woken, and the senders but for a reset.
LEMMA StepWakes ==
  ASSUME Inv, [Next]_vars
  PROVE  /\ ReceiversWoken => ReceiversWoken'
         /\ "reset" \notin Calls => (SendersWoken => SendersWoken')
<1>1. ASSUME NEW t \in Task, Continue(t)
      PROVE  (ReceiversWoken => ReceiversWoken') /\ (SendersWoken => SendersWoken')
  BY <1>1, ServedWakes, QuietWakes, PlaceWakes, UnlockTxWakes, UnlockRxWakes
     DEF Continue
<1>2. ASSUME NEW t \in Task, StartCall(t)
      PROVE  /\ ReceiversWoken => ReceiversWoken'
             /\ "reset" \notin Calls => (SendersWoken => SendersWoken')
  BY <1>2, QuietWakes, ResetWakes DEF StartCall
<1>3. ASSUME Interrupt
      PROVE  (ReceiversWoken => ReceiversWoken') /\ (SendersWoken => SendersWoken')
  <2>1. ASSUME xQueuePeekFromISR
        PROVE  UNCHANGED << uxMessagesWaiting, cRxLock, cTxLock, xTasksWaitingToSend,
                            xTasksWaitingToReceive, pc, call, timedOut >>
    BY <2>1 DEF xQueuePeekFromISR, prvCopyDataFromQueue, locks, waiting, callers
  <2> QED BY <1>3, <2>1, SendFromISRWakes, ReceiveFromISRWakes, StillCovered
          DEF Interrupt
<1>4. ASSUME NEW t \in Task, Expire(t) \/ xTaskAbortDelay(t)
      PROVE  (ReceiversWoken => ReceiversWoken') /\ (SendersWoken => SendersWoken')
  <2>1. /\ suspender = NoTask /\ StopWaiting(t)
        /\ UNCHANGED << uxMessagesWaiting, cRxLock, cTxLock, pc, call, timedOut >>
    BY <1>4 DEF Expire, xTaskAbortDelay, store, locks
  <2> QED BY <2>1, StopWaitingWakes
<1>5. CASE UNCHANGED vars
  BY <1>5, StillCovered DEF vars, store, locks, waiting, callers
<1> QED BY <1>1, <1>2, <1>3, <1>4, <1>5 DEF Next

\* No wake-up of a receiver is lost in xQueueGenericSend, xQueuePeek,
\* prvUnlockQueue, the interrupts' calls and the ends of block times, however
\* they interleave: while a task waits to receive, every item has a task that
\* was woken for it and has yet to look, or that the unlocking will wake.
THEOREM QueueReceiversWoken == Spec => []ReceiversWoken
<1>1. Init => ReceiversWoken
  BY DEF Init, ReceiversWoken
<1>2. Inv /\ ReceiversWoken /\ [Next]_vars => ReceiversWoken'
  BY StepWakes
<1> QED BY <1>1, <1>2, QueueInvariant, PTL DEF Spec

\* The same for the tasks that wait to send and the free places of the queue,
\* in a program that does not reset it: xQueueGenericReset wakes one sender,
\* however many places it makes free.
THEOREM QueueSendersWoken ==
  ASSUME "reset" \notin Calls
  PROVE  Spec => []SendersWoken
<1>1. Init => SendersWoken
  BY DEF Init, SendersWoken
<1>2. Inv /\ SendersWoken /\ [Next]_vars => SendersWoken'
  BY StepWakes
<1> QED BY <1>1, <1>2, QueueInvariant, PTL DEF Spec
-----------------------------------------------------------------------------
(***************************************************************************)
(* The circular buffer of a queue and its two pointers implement a bounded *)
(* sequence of items: each critical section that moves an item is a step   *)
(* of QueueFifo, and every other step leaves the contents alone.           *)
(***************************************************************************)

\* The place a pointer is at once it has gone back to pcHead.
Wrapped(i) == IF i < uxLength THEN i ELSE i - uxLength

\* The two pointers and the count agree: pcWriteTo is behind the last item.
PointersAgree == pcWriteTo = Wrapped(Following(pcReadFrom) + uxMessagesWaiting)

\* The item that is read i-th.
Read(i) == buffer[Wrapped(pcReadFrom + i)]
-----------------------------------------------------------------------------
\* What the critical sections that move items do, and the others do not.
LEMMA StoreSteps ==
  ASSUME Inv, Next
  PROVE  \/ UNCHANGED store
         \/ \E x \in Item, pos \in {"back", "front", "overwrite"} :
              /\ ~IsFull \/ pos = "overwrite"
              /\ pos = "overwrite" => uxLength = 1
              /\ prvCopyDataToQueue(x, pos)
         \/ ~IsEmpty /\ \E takes \in BOOLEAN : prvCopyDataFromQueue(takes)
         \/ /\ uxMessagesWaiting' = 0 /\ pcWriteTo' = 0
            /\ pcReadFrom' = uxLength - 1 /\ UNCHANGED << buffer, pvBuffer >>
<1> DEFINE Copies ==
             \E x \in Item, pos \in {"back", "front", "overwrite"} :
               /\ ~IsFull \/ pos = "overwrite"
               /\ pos = "overwrite" => uxLength = 1
               /\ prvCopyDataToQueue(x, pos)
           Reading == ~IsEmpty /\ \E takes \in BOOLEAN : prvCopyDataFromQueue(takes)
           Reset == /\ uxMessagesWaiting' = 0 /\ pcWriteTo' = 0
                    /\ pcReadFrom' = uxLength - 1
                    /\ UNCHANGED << buffer, pvBuffer >>
<1>1. ASSUME NEW t \in Task, Served(t) PROVE Copies \/ Reading
  <2>1. TaskOK(t) /\ call[t] \in CallRecord
    BY InvParts DEF CallersTyped
  <2>2. CASE Sends(call[t].op)
    <3>1. /\ call[t].item \in Item
          /\ call[t].op \in {"back", "front", "overwrite"}
          /\ call[t].op = "overwrite" => uxLength = 1
      BY <2>1, <2>2, QueueAssumption
         DEF TaskOK, CallRecord, Sends, QueueAssumption
    <3>2. /\ ~IsFull \/ call[t].op = "overwrite"
          /\ prvCopyDataToQueue(call[t].item, call[t].op)
      BY <1>1, <2>2 DEF Served, Sends
    <3> QED BY <3>1, <3>2
  <2>3. CASE ~Sends(call[t].op)
    BY <1>1, <2>3 DEF Served
  <2> QED BY <2>2, <2>3
<1>2. ASSUME NEW x \in Item, NEW pos \in IsrCalls, Sends(pos),
             xQueueGenericSendFromISR(x, pos)
      PROVE  Copies
  <2>1. pos \in {"back", "front", "overwrite"} /\ (pos = "overwrite" => uxLength = 1)
    BY <1>2, QueueAssumption DEF Sends, QueueAssumption
  <2>2. (~IsFull \/ pos = "overwrite") /\ prvCopyDataToQueue(x, pos)
    BY <1>2 DEF xQueueGenericSendFromISR
  <2> QED BY <2>1, <2>2
<1>3. xQueueReceiveFromISR \/ xQueuePeekFromISR => Reading
  BY DEF xQueueReceiveFromISR, xQueuePeekFromISR
<1>4. ASSUME NEW t \in Task, xQueueGenericReset(t) PROVE Reset
  BY <1>4 DEF xQueueGenericReset
<1>5. ASSUME NEW t \in Task, Continue(t) PROVE UNCHANGED store \/ Served(t)
  BY <1>5 DEF Continue, NotServed, prvLockQueue, xTaskCheckForTimeOut,
              TestQueue, PlaceOnEventList, UnlockTx, UnlockRx, Recheck
<1>6. ASSUME NEW t \in Task, StartCall(t)
      PROVE  UNCHANGED store \/ xQueueGenericReset(t)
  BY <1>6 DEF StartCall, Call
<1>7. ASSUME NEW t \in Task, Expire(t) \/ xTaskAbortDelay(t)
      PROVE  UNCHANGED store
  BY <1>7 DEF Expire, xTaskAbortDelay
<1>8. Interrupt => Copies \/ Reading
  BY <1>2, <1>3 DEF Interrupt
<1> HIDE DEF Copies, Reading, Reset
<1>9. UNCHANGED store \/ Copies \/ Reading \/ Reset
  BY <1>1, <1>4, <1>5, <1>6, <1>7, <1>8 DEF Next
<1> QED BY <1>9 DEF Copies, Reading, Reset

\* The place behind pcTail.
LEMMA Modulus ==
  \A L \in Nat \ {0}, i \in Int : i - L \in 0..(L - 1) => i - L = i % L
BY SMTT(30)

\* The pointers are places of the buffer, and the items are in the places
\* behind pcReadFrom.
BufferKnown ==
  /\ uxMessagesWaiting \in 0..uxLength
  /\ pcWriteTo \in Position /\ pcReadFrom \in Position
  /\ buffer \in [Position -> Item \cup {NoItem}]
  /\ \A i \in 1..uxLength : Wrapped(pcReadFrom + i) \in Position
  /\ contents \in Seq(Item \cup {NoItem})
  /\ Len(contents) = uxMessagesWaiting
  /\ \A i \in 1..uxMessagesWaiting : contents[i] = Read(i)

\* A typed store has places that exist.
LEMMA BufferPlaces == StoreOK => BufferKnown
<1> SUFFICES ASSUME StoreOK PROVE BufferKnown
  OBVIOUS
<1>1. uxLength \in Nat \ {0} /\ Position = 0..(uxLength - 1)
  BY QueueAssumption DEF QueueAssumption, Position
<1>2. /\ uxMessagesWaiting \in 0..uxLength
      /\ pcWriteTo \in Position /\ pcReadFrom \in Position
      /\ buffer \in [Position -> Item \cup {NoItem}]
  BY DEF StoreOK
<1>3. ASSUME NEW i \in 1..uxLength
      PROVE  /\ Wrapped(pcReadFrom + i) \in Position
             /\ Wrapped(pcReadFrom + i) = (pcReadFrom + i) % uxLength
  <2>1. CASE pcReadFrom + i < uxLength
    BY <1>1, <1>2, <2>1, SMTT(30) DEF Wrapped
  <2>2. CASE pcReadFrom + i >= uxLength
    <3>1. PICK k \in Int : k = pcReadFrom + i
      BY <1>1, <1>2
    <3>2. k - uxLength \in 0..(uxLength - 1) /\ Wrapped(k) = k - uxLength
      BY <1>1, <1>2, <2>2, <3>1 DEF Wrapped
    <3>3. Wrapped(k) \in Position
      BY <1>1, <3>2
    <3>4. Wrapped(k) = k % uxLength
      BY <1>1, <3>2, Modulus
    <3> QED BY <3>1, <3>3, <3>4
  <2> QED BY <1>1, <1>2, <2>1, <2>2
<1>4. \A i \in 1..uxMessagesWaiting : buffer[(pcReadFrom + i) % uxLength] = Read(i)
  <2> SUFFICES ASSUME NEW i \in 1..uxMessagesWaiting
               PROVE  buffer[(pcReadFrom + i) % uxLength] = Read(i)
    OBVIOUS
  <2>1. i \in 1..uxLength
    BY <1>1, <1>2
  <2> QED BY <2>1, <1>3, Zenon DEF Read
<1>5. \A i \in 1..uxMessagesWaiting : Read(i) \in Item \cup {NoItem}
  BY <1>1, <1>2, <1>3 DEF Read
<1>6. /\ contents \in [1..uxMessagesWaiting -> Item \cup {NoItem}]
      /\ \A i \in 1..uxMessagesWaiting : contents[i] = Read(i)
  BY <1>4, <1>5, Zenon DEF contents
<1>7. contents \in Seq(Item \cup {NoItem}) /\ Len(contents) = uxMessagesWaiting
  BY <1>1, <1>2, <1>6
<1> QED BY <1>1, <1>2, <1>3, <1>6, <1>7 DEF BufferKnown

\* The same of the next state.
LEMMA NextPlaces == StoreOK' => BufferKnown'
BY BufferPlaces, PTL

\* Two queues with the same items are the same.
LEMMA SameItems ==
  ASSUME NEW s \in Seq(Item \cup {NoItem}), NEW r \in Seq(Item \cup {NoItem}),
         Len(s) = Len(r), \A i \in 1..Len(s) : s[i] = r[i]
  PROVE  s = r
BY SeqEqual

\* An item put at the back.
LEMMA BackStep ==
  ASSUME StoreOK, StoreOK', PointersAgree, NEW x \in Item, ~IsFull,
         prvCopyDataToQueue(x, "back")
  PROVE  PointersAgree' /\ Fifo!Send(x)
<1>1. uxLength \in Nat \ {0} /\ Position = 0..(uxLength - 1)
  BY QueueAssumption DEF QueueAssumption, Position
<1>2. BufferKnown /\ BufferKnown'
  BY BufferPlaces, NextPlaces
<1>3. /\ buffer' = [buffer EXCEPT ![pcWriteTo] = x]
      /\ pcWriteTo' = Following(pcWriteTo) /\ pcReadFrom' = pcReadFrom
      /\ uxMessagesWaiting' = uxMessagesWaiting + 1 /\ pvBuffer' = pvBuffer
  BY DEF prvCopyDataToQueue, CountWith
<1>4. PICK n \in 0..(uxLength - 1) : n = uxMessagesWaiting
  BY <1>1, <1>2 DEF BufferKnown, IsFull
<1>5. /\ pcWriteTo = Wrapped(pcReadFrom + (n + 1))
      /\ \A i \in 1..n : Wrapped(pcReadFrom + i) # pcWriteTo
  BY <1>1, <1>2, <1>4 DEF BufferKnown, PointersAgree, Wrapped, Following
<1>6. PointersAgree'
  BY <1>1, <1>2, <1>3, <1>4 DEF BufferKnown, PointersAgree, Wrapped, Following
<1>7. /\ Read(n + 1)' = x
      /\ \A i \in 1..n : Read(i)' = Read(i)
  <2>1. n + 1 \in 1..uxLength /\ \A i \in 1..n : i \in 1..uxLength
    BY <1>1, <1>4
  <2>2. \A i \in Int : Read(i) = buffer[Wrapped(pcReadFrom + i)]
    BY DEF Read
  <2>3. \A i \in Int : Read(i)' = buffer'[Wrapped(pcReadFrom + i)]
    BY <1>3 DEF Read, Wrapped
  <2>4. /\ \A i \in 1..uxLength : Wrapped(pcReadFrom + i) \in Position
        /\ buffer \in [Position -> Item \cup {NoItem}] /\ pcWriteTo \in Position
    BY <1>2 DEF BufferKnown
  <2>5. ASSUME NEW i \in 1..n PROVE Read(i)' = Read(i)
    BY <1>3, <1>5, <2>1, <2>2, <2>3, <2>4
  <2>6. Read(n + 1)' = x
    BY <1>3, <1>5, <2>1, <2>3, <2>4
  <2> QED BY <2>5, <2>6
<1>8. contents' = Append(contents, x)
  <2>1. /\ Append(contents, x) \in Seq(Item \cup {NoItem})
        /\ Len(Append(contents, x)) = n + 1
        /\ \A i \in 1..n : Append(contents, x)[i] = contents[i]
        /\ Append(contents, x)[n + 1] = x
    BY <1>2, <1>4, AppendProperties DEF BufferKnown
  <2>2. /\ contents' \in Seq(Item \cup {NoItem})
        /\ Len(contents') = n + 1
        /\ \A i \in 1..(n + 1) : contents'[i] = Read(i)'
    BY <1>2, <1>3, <1>4 DEF BufferKnown
  <2>3. \A i \in 1..n : contents[i] = Read(i)
    BY <1>2, <1>4 DEF BufferKnown
  <2>4. \A i \in 1..(n + 1) : contents'[i] = Append(contents, x)[i]
    <3>1. ASSUME NEW i \in 1..n PROVE contents'[i] = Append(contents, x)[i]
      BY <1>7, <2>1, <2>2, <2>3
    <3>2. contents'[n + 1] = Append(contents, x)[n + 1]
      BY <1>7, <2>1, <2>2
    <3>3. \A i \in 1..(n + 1) : i \in 1..n \/ i = n + 1
      BY <1>4
    <3> QED BY <3>1, <3>2, <3>3
  <2> QED BY <2>1, <2>2, <2>4, SameItems
<1>9. Len(contents') <= uxLength
  BY <1>1, <1>2, <1>3, <1>4 DEF BufferKnown
<1> QED BY <1>3, <1>6, <1>8, <1>9 DEF Fifo!Send, Fifo!Put

\* An item put in front of the others.
LEMMA FrontStep ==
  ASSUME StoreOK, StoreOK', PointersAgree, NEW x \in Item, ~IsFull,
         CopyToFront(x), uxMessagesWaiting' = uxMessagesWaiting + 1,
         UNCHANGED pvBuffer
  PROVE  PointersAgree' /\ Fifo!Send(x)
<1>1. uxLength \in Nat \ {0} /\ Position = 0..(uxLength - 1)
  BY QueueAssumption DEF QueueAssumption, Position
<1>2. BufferKnown /\ BufferKnown'
  BY BufferPlaces, NextPlaces
<1>3. /\ buffer' = [buffer EXCEPT ![pcReadFrom] = x]
      /\ pcWriteTo' = pcWriteTo /\ pcReadFrom' = Preceding(pcReadFrom)
  BY DEF CopyToFront
<1>4. PICK n \in 0..(uxLength - 1) : n = uxMessagesWaiting
  BY <1>1, <1>2 DEF BufferKnown, IsFull
<1>5. PointersAgree'
  BY <1>1, <1>2, <1>3, <1>4
     DEF BufferKnown, PointersAgree, Wrapped, Following, Preceding
<1>6. /\ Wrapped(pcReadFrom' + 1) = pcReadFrom
      /\ \A i \in 1..n : /\ Wrapped(pcReadFrom' + (i + 1)) = Wrapped(pcReadFrom + i)
                         /\ Wrapped(pcReadFrom + i) # pcReadFrom
                         /\ Wrapped(pcReadFrom + i) \in Position
  BY <1>1, <1>2, <1>3, <1>4 DEF BufferKnown, Wrapped, Preceding
<1>7. Read(1)' = x /\ \A i \in 1..n : Read(i + 1)' = Read(i)
  <2>1. \A i \in Int : Read(i) = buffer[Wrapped(pcReadFrom + i)]
    BY DEF Read
  <2>2. \A i \in Int : Read(i)' = buffer'[Wrapped(pcReadFrom' + i)]
    BY DEF Read, Wrapped
  <2>3. buffer \in [Position -> Item \cup {NoItem}] /\ pcReadFrom \in Position
    BY <1>2 DEF BufferKnown
  <2>4. Read(1)' = x
    BY <1>3, <1>6, <2>2, <2>3
  <2>5. ASSUME NEW i \in 1..n PROVE Read(i + 1)' = Read(i)
    <3>1. i \in Int /\ i + 1 \in Int
      OBVIOUS
    <3> QED BY <1>3, <1>6, <2>1, <2>2, <2>3, <3>1
  <2> QED BY <2>4, <2>5
<1>8. contents' = << x >> \o contents
  <2>1. << x >> \in Seq(Item \cup {NoItem}) /\ Len(<< x >>) = 1 /\ << x >>[1] = x
    OBVIOUS
  <2>2. /\ contents \in Seq(Item \cup {NoItem}) /\ Len(contents) = n
        /\ \A i \in 1..n : contents[i] = Read(i)
    BY <1>2, <1>4 DEF BufferKnown
  <2>3. /\ << x >> \o contents \in Seq(Item \cup {NoItem})
        /\ Len(<< x >> \o contents) = n + 1
        /\ \A i \in 1..(n + 1) : (<< x >> \o contents)[i] =
                                   IF i <= 1 THEN << x >>[i] ELSE contents[i - 1]
    BY <1>4, <2>1, <2>2, ConcatProperties
  <2>4. /\ contents' \in Seq(Item \cup {NoItem}) /\ Len(contents') = n + 1
        /\ \A i \in 1..(n + 1) : contents'[i] = Read(i)'
    BY <1>2, <1>3, <1>4 DEF BufferKnown
  <2>5. contents'[1] = (<< x >> \o contents)[1]
    BY <1>4, <1>7, <2>1, <2>3, <2>4
  <2>6. ASSUME NEW i \in 1..n PROVE contents'[i + 1] = (<< x >> \o contents)[i + 1]
    <3>1. i + 1 \in 1..(n + 1) /\ ~(i + 1 <= 1) /\ (i + 1) - 1 = i
      BY <1>4
    <3>2. contents'[i + 1] = contents[i]
      BY <1>7, <2>2, <2>4, <3>1
    <3> QED BY <2>3, <3>1, <3>2
  <2>7. \A j \in 1..(n + 1) : j = 1 \/ \E i \in 1..n : j = i + 1
    <3> TAKE j \in 1..(n + 1)
    <3>1. j = 1 \/ (j - 1 \in 1..n /\ j = (j - 1) + 1)
      BY <1>4
    <3> QED BY <3>1
  <2>8. \A j \in 1..(n + 1) : contents'[j] = (<< x >> \o contents)[j]
    BY <2>5, <2>6, <2>7
  <2> QED BY <2>3, <2>4, <2>8, SameItems
<1>9. Len(contents') <= uxLength
  BY <1>1, <1>2, <1>4 DEF BufferKnown
<1> QED BY <1>5, <1>8, <1>9 DEF Fifo!Send, Fifo!Put

\* An item in the place of the only one.
LEMMA OverwriteStep ==
  ASSUME StoreOK, StoreOK', PointersAgree, NEW x \in Item, uxLength = 1,
         CopyToFront(x), ~IsEmpty, UNCHANGED << uxMessagesWaiting, pvBuffer >>
  PROVE  PointersAgree' /\ Fifo!Overwrite(x)
<1>1. Position = 0..0
  BY QueueAssumption DEF QueueAssumption, Position
<1>2. BufferKnown /\ BufferKnown'
  BY BufferPlaces, NextPlaces
<1>3. /\ buffer' = [buffer EXCEPT ![0] = x] /\ uxMessagesWaiting' = 1
      /\ pcWriteTo' = 0 /\ pcReadFrom' = 0 /\ pcReadFrom = 0
      /\ buffer \in [{0} -> Item \cup {NoItem}]
  BY <1>1, <1>2 DEF BufferKnown, IsEmpty, CopyToFront
<1>4. PointersAgree'
  BY <1>3 DEF PointersAgree, Wrapped, Following
<1>5. Read(1)' = x
  BY <1>3 DEF Read, Wrapped
<1>6. contents' = << x >>
  <2>1. /\ << x >> \in Seq(Item \cup {NoItem}) /\ Len(<< x >>) = 1
        /\ << x >>[1] = x
    OBVIOUS
  <2>2. /\ contents' \in Seq(Item \cup {NoItem}) /\ Len(contents') = 1
        /\ contents'[1] = Read(1)'
    BY <1>2, <1>3 DEF BufferKnown
  <2>3. \A i \in 1..Len(contents') : contents'[i] = << x >>[i]
    BY <1>5, <2>1, <2>2
  <2> QED BY <2>1, <2>2, <2>3, SameItems
<1> QED BY <1>4, <1>6 DEF Fifo!Overwrite, Fifo!Put

\* The item in front is copied out, and taken or left.
LEMMA ReadStep ==
  ASSUME StoreOK, StoreOK', PointersAgree, ~IsEmpty, NEW takes \in BOOLEAN,
         prvCopyDataFromQueue(takes)
  PROVE  PointersAgree' /\ (Fifo!Peek \/ Fifo!Receive)
<1>1. uxLength \in Nat \ {0} /\ Position = 0..(uxLength - 1)
  BY QueueAssumption DEF QueueAssumption, Position
<1>2. BufferKnown /\ BufferKnown'
  BY BufferPlaces, NextPlaces
<1>3. PICK n \in 1..uxLength : n = uxMessagesWaiting
  BY <1>1, <1>2 DEF BufferKnown, IsEmpty
<1>4. /\ contents \in Seq(Item \cup {NoItem}) /\ Len(contents) = n
      /\ \A i \in 1..n : contents[i] = Read(i)
      /\ contents # << >> /\ Head(contents) = contents[1]
  BY <1>2, <1>3 DEF BufferKnown
<1>5. pvBuffer' = Head(contents)
  <2>1. pvBuffer' = Read(1)
    BY <1>1, <1>2 DEF prvCopyDataFromQueue, Read, Wrapped, Following, BufferKnown
  <2> QED BY <1>3, <1>4, <2>1
<1>6. CASE ~takes
  <2>1. UNCHANGED << buffer, uxMessagesWaiting, pcWriteTo, pcReadFrom >>
    BY <1>6 DEF prvCopyDataFromQueue
  <2>2. PointersAgree' /\ contents' = contents
    BY <2>1 DEF PointersAgree, Following, Wrapped, contents
  <2> QED BY <1>4, <1>5, <2>2 DEF Fifo!Peek
<1>7. CASE takes
  <2>1. /\ uxMessagesWaiting' = n - 1 /\ buffer' = buffer
        /\ pcWriteTo' = pcWriteTo /\ pcReadFrom' = Following(pcReadFrom)
    BY <1>3, <1>7 DEF prvCopyDataFromQueue
  <2>2. PointersAgree'
    BY <1>1, <1>2, <1>3, <2>1 DEF BufferKnown, PointersAgree, Wrapped, Following
  <2>3. \A i \in 1..(n - 1) :
          Wrapped(Following(pcReadFrom) + i) = Wrapped(pcReadFrom + (i + 1))
    BY <1>1, <1>2, <1>3 DEF BufferKnown, Wrapped, Following
  <2>4. \A i \in 1..(n - 1) : Read(i)' = Read(i + 1)
    <3>1. \A i \in Int : Read(i) = buffer[Wrapped(pcReadFrom + i)]
      BY DEF Read
    <3>2. \A i \in Int : Read(i)' = buffer[Wrapped(Following(pcReadFrom) + i)]
      BY <2>1 DEF Read, Wrapped
    <3> QED BY <2>3, <3>1, <3>2
  <2>5. contents' = Tail(contents)
    <3>1. /\ Tail(contents) \in Seq(Item \cup {NoItem})
          /\ Len(Tail(contents)) = n - 1
          /\ \A i \in 1..(n - 1) : Tail(contents)[i] = contents[i + 1]
      BY <1>4, HeadTailProperties
    <3>2. /\ contents' \in Seq(Item \cup {NoItem}) /\ Len(contents') = n - 1
          /\ \A i \in 1..(n - 1) : contents'[i] = Read(i)'
      BY <1>2, <2>1 DEF BufferKnown
    <3>3. \A i \in 1..(n - 1) : contents'[i] = Tail(contents)[i]
      <4> TAKE i \in 1..(n - 1)
      <4>1. i + 1 \in 1..n
        BY <1>3
      <4> QED BY <1>4, <2>4, <3>1, <3>2, <4>1
    <3> QED BY <3>1, <3>2, <3>3, SameItems
  <2> QED BY <1>4, <1>5, <2>2, <2>5 DEF Fifo!Receive
<1> QED BY <1>6, <1>7

\* A reset.
LEMMA ResetStep ==
  ASSUME StoreOK', uxMessagesWaiting' = 0, pcWriteTo' = 0,
         pcReadFrom' = uxLength - 1, UNCHANGED pvBuffer
  PROVE  PointersAgree' /\ Fifo!Reset
<1>1. uxLength \in Nat \ {0}
  BY QueueAssumption DEF QueueAssumption
<1>2. PointersAgree'
  BY <1>1 DEF PointersAgree, Wrapped, Following
<1>3. contents' \in Seq(Item \cup {NoItem}) /\ Len(contents') = 0
  BY NextPlaces DEF BufferKnown
<1>4. contents' = << >>
  BY <1>3
<1> QED BY <1>1, <1>2, <1>4 DEF Fifo!Reset, Fifo!Put
-----------------------------------------------------------------------------
\* Every step keeps the pointers in agreement, and is one of QueueFifo.
LEMMA FifoStep ==
  ASSUME Inv, PointersAgree, Inv', [Next]_vars
  PROVE  PointersAgree' /\ [Fifo!Next]_<< contents, pvBuffer >>
<1>1. StoreOK /\ StoreOK'
  BY TypeParts DEF Inv, StoreOK, TypeOK
<1>2. CASE UNCHANGED store
  <2>1. contents' = contents /\ pvBuffer' = pvBuffer
    BY <1>2 DEF store, contents
  <2>2. PointersAgree'
    BY <1>2 DEF store, PointersAgree, Wrapped, Following
  <2> QED BY <2>1, <2>2
<1>3. ASSUME NEW x \in Item, NEW pos \in {"back", "front", "overwrite"},
             ~IsFull \/ pos = "overwrite", pos = "overwrite" => uxLength = 1,
             prvCopyDataToQueue(x, pos)
      PROVE  PointersAgree' /\ Fifo!Next
  <2>1. CASE pos = "back"
    <3>1. ~IsFull /\ prvCopyDataToQueue(x, "back")
      BY <1>3, <2>1
    <3> QED BY <1>1, <3>1, BackStep DEF Fifo!Next
  <2>2. CASE pos # "back" /\ ~(pos = "overwrite" /\ ~IsEmpty)
    <3>1. /\ CopyToFront(x) /\ uxMessagesWaiting' = uxMessagesWaiting + 1
          /\ UNCHANGED pvBuffer
      BY <1>3, <2>2 DEF prvCopyDataToQueue, CountWith
    <3>2. ~IsFull
      BY <1>3, <2>2, QueueAssumption DEF IsFull, IsEmpty, QueueAssumption
    <3> QED BY <1>1, <3>1, <3>2, FrontStep DEF Fifo!Next
  <2>3. CASE pos = "overwrite" /\ ~IsEmpty
    <3>1. /\ CopyToFront(x) /\ uxMessagesWaiting' = uxMessagesWaiting
          /\ UNCHANGED pvBuffer /\ uxLength = 1 /\ ~IsEmpty
      BY <1>3, <2>3 DEF prvCopyDataToQueue, CountWith
    <3> QED BY <1>1, <3>1, OverwriteStep DEF Fifo!Next
  <2> QED BY <2>1, <2>2, <2>3
<1>4. ASSUME NEW takes \in BOOLEAN, ~IsEmpty, prvCopyDataFromQueue(takes)
      PROVE  PointersAgree' /\ Fifo!Next
  BY <1>1, <1>4, ReadStep DEF Fifo!Next
<1>5. CASE /\ uxMessagesWaiting' = 0 /\ pcWriteTo' = 0
           /\ pcReadFrom' = uxLength - 1 /\ UNCHANGED << buffer, pvBuffer >>
  BY <1>1, <1>5, ResetStep DEF Fifo!Next
<1>6. UNCHANGED vars => UNCHANGED store
  BY DEF vars
<1> QED BY <1>2, <1>3, <1>4, <1>5, <1>6, StoreSteps

\* The queue with its two pointers implements QueueFifo, whatever its length,
\* its callers and the interrupts: what tasks and interrupts copy out of the
\* circular buffer is what a sequence of items would give them.
THEOREM QueueImplementsFifo == Spec => ImplementsFifo
<1>1. Init => PointersAgree /\ Fifo!Init
  <2> SUFFICES ASSUME Init PROVE PointersAgree /\ Fifo!Init
    OBVIOUS
  <2>1. uxLength \in Nat \ {0}
    BY QueueAssumption DEF QueueAssumption
  <2>2. PointersAgree
    BY <2>1 DEF Init, PointersAgree, Wrapped, Following
  <2>3. contents \in Seq(Item \cup {NoItem}) /\ Len(contents) = 0
    BY InitInv, InvParts, BufferPlaces DEF Init, BufferKnown
  <2>4. contents = << >>
    BY <2>3
  <2> QED BY <2>2, <2>4 DEF Init, Fifo!Init
<1>2. Inv /\ Inv' /\ PointersAgree /\ [Next]_vars
        => PointersAgree' /\ [Fifo!Next]_<< contents, pvBuffer >>
  BY FifoStep
<1> QED BY <1>1, <1>2, QueueInvariant, PTL DEF Spec, ImplementsFifo, Fifo!Spec
=============================================================================
