------------------------------ MODULE QueueSet ------------------------------
(***************************************************************************)
(* A queue set of queue.c: some queues and semaphores, its members, and a  *)
(* queue of their handles, to which each send to a member adds one.        *)
(*                                                                         *)
(* Tasks send to the members, select from the set and receive from the     *)
(* member selected; interrupts do the same.  A member is locked while a    *)
(* task starts to wait for room in it, the set while a task starts to wait *)
(* for a handle; what interrupts send meanwhile is counted in a lock, and  *)
(* prvUnlockQueue announces it later.  Items are counted, not kept: Queue  *)
(* has their order.                                                        *)
(***************************************************************************)
EXTENDS Integers, SequencesExt

CONSTANTS
  Task, NoTask,
  Member, NoMember,        \* the queues and semaphores that may be members
  uxLength,                \* of each of them
  uxEventQueueLength,      \* of the set
  uxNumberOfTasks,         \* the tasks there are, at which a lock stops
  Overwritten,             \* members to which interrupts send with queueOVERWRITE
  RemovalsRace             \* interrupts send to a member that is being removed

VARIABLES
  inSet,                   \* pxQueueSetContainer is the set
  uxMessagesWaiting,       \* the items of each member
  handles,                 \* the set's items
  cTxLock, cRxLock,        \* of each member
  setTxLock,               \* the set's cTxLock
  xTasksWaitingToSend,     \* of each member
  xTasksWaitingToReceive,  \* of the set
  suspender,               \* the task that has suspended the scheduler
  pc, member,              \* where a task is, and the member it uses
  selected                 \* what xQueueSelectFromSet gave a task

members == << inSet, uxMessagesWaiting, cTxLock, cRxLock, xTasksWaitingToSend >>
set == << handles, setTxLock, xTasksWaitingToReceive >>
callers == << pc, member, selected >>
vars == << members, set, callers, suspender >>

queueUNLOCKED == -1
queueLOCKED_UNMODIFIED == 0

Init ==
  /\ inSet = [q \in Member |-> TRUE]
  /\ uxMessagesWaiting = [q \in Member |-> 0]
  /\ handles = << >>
  /\ cTxLock = [q \in Member |-> queueUNLOCKED]
  /\ cRxLock = [q \in Member |-> queueUNLOCKED]
  /\ setTxLock = queueUNLOCKED
  /\ xTasksWaitingToSend = [q \in Member |-> << >>]
  /\ xTasksWaitingToReceive = << >>
  /\ suspender = NoTask
  /\ pc = [t \in Task |-> "app"]
  /\ member = [t \in Task |-> NoMember]
  /\ selected = [t \in Task |-> NoMember]
-----------------------------------------------------------------------------
IsFull(q) == uxMessagesWaiting[q] = uxLength[q]

Waiting(t) ==
  \/ t \in ToSet(xTasksWaitingToReceive)
  \/ \E q \in Member : t \in ToSet(xTasksWaitingToSend[q])

Runs(t) == ~Waiting(t) /\ suspender \in {NoTask, t}
At(t, where) == pc[t] = where /\ Runs(t)
Goto(t, where) == pc' = [pc EXCEPT ![t] = where]
Return(t) == Goto(t, "app") /\ member' = [member EXCEPT ![t] = NoMember]

\* A list without the first n of its tasks, those that are woken.
AllBut(n, list) == SubSeq(list, n + 1, Len(list))

\* uxListRemove, if t is in the list.
Without(list, t) ==
  IF t \in ToSet(list)
  THEN RemoveAt(list, CHOOSE i \in 1..Len(list) : list[i] = t) ELSE list

\* prvIncrementQueueTxLock and prvIncrementQueueRxLock, n times.
Counted(lock, n) ==
  IF lock + n <= uxNumberOfTasks THEN lock + n
  ELSE IF lock > uxNumberOfTasks THEN lock ELSE uxNumberOfTasks

\* Fault: a handle that arrives at the locked set wakes nobody later.
F_SetNotCounted(q, n) ==
  LET room == uxEventQueueLength - Len(handles)
      sent == IF n < room THEN n ELSE room
  IN /\ handles' = handles \o [i \in 1..sent |-> q]
     /\ IF setTxLock = queueUNLOCKED
        THEN xTasksWaitingToReceive' = AllBut(sent, xTasksWaitingToReceive)
        ELSE UNCHANGED xTasksWaitingToReceive
     /\ UNCHANGED setTxLock

\* prvNotifyQueueSetContainer(q), n times: handles of q go to the set as long
\* as there is room, and each wakes a task, now or at the unlock of the set.
prvNotifyQueueSetContainer(q, n) ==
  LET room == uxEventQueueLength - Len(handles)
      sent == IF n < room THEN n ELSE room
  IN /\ handles' = handles \o [i \in 1..sent |-> q]
     /\ IF setTxLock = queueUNLOCKED
        THEN /\ xTasksWaitingToReceive' = AllBut(sent, xTasksWaitingToReceive)
             /\ UNCHANGED setTxLock
        ELSE /\ setTxLock' = Counted(setTxLock, sent)
             /\ UNCHANGED xTasksWaitingToReceive

Announce(q, n) ==
  IF inSet[q] THEN prvNotifyQueueSetContainer(q, n) ELSE UNCHANGED set
-----------------------------------------------------------------------------
\* Sending to a member: xQueueGenericSend as in Queue, but that the set is told.

\* The application sends nothing to a member that it takes out of the set.
MaySend(q) == RemovalsRace \/ \A t \in Task : ~(pc[t] = "remove" /\ member[t] = q)

Send(t, q) ==
  /\ At(t, "app") /\ selected[t] = NoMember
  /\ MaySend(q)
  /\ Goto(t, "send")
  /\ member' = [member EXCEPT ![t] = q]
  /\ UNCHANGED << members, set, selected, suspender >>

Sent(t) ==
  LET q == member[t]
  IN /\ At(t, "send") /\ ~IsFull(q)
     /\ uxMessagesWaiting' = [uxMessagesWaiting EXCEPT ![q] = @ + 1]
     /\ Announce(q, 1)
     /\ Return(t)
     /\ UNCHANGED << inSet, cTxLock, cRxLock, xTasksWaitingToSend, selected,
                     suspender >>

\* Without a block time it returns.
NotSent(t) ==
  /\ At(t, "send") /\ IsFull(member[t])
  /\ \/ Return(t)
     \/ Goto(t, "lock") /\ UNCHANGED member
  /\ UNCHANGED << members, set, selected, suspender >>

Locked(lock) == IF lock = queueUNLOCKED THEN queueLOCKED_UNMODIFIED ELSE lock

\* vTaskSuspendAll and prvLockQueue of the member
LockMember(t) ==
  LET q == member[t]
  IN /\ At(t, "lock")
     /\ suspender' = t
     /\ cTxLock' = [cTxLock EXCEPT ![q] = Locked(@)]
     /\ cRxLock' = [cRxLock EXCEPT ![q] = Locked(@)]
     /\ Goto(t, "test")
     /\ UNCHANGED << inSet, uxMessagesWaiting, xTasksWaitingToSend, set, member,
                     selected >>

\* prvIsQueueFull, and vTaskPlaceOnEventList at the end: members have no
\* priorities here.
TestMember(t) ==
  /\ At(t, "test")
  /\ Goto(t, IF IsFull(member[t]) THEN "place" ELSE "unlock")
  /\ UNCHANGED << members, set, member, selected, suspender >>

PlaceOnMember(t) ==
  /\ At(t, "place")
  /\ xTasksWaitingToSend' =
       [xTasksWaitingToSend EXCEPT ![member[t]] = Append(@, t)]
  /\ Goto(t, "unlock")
  /\ UNCHANGED << inSet, uxMessagesWaiting, cTxLock, cRxLock, set, member,
                  selected, suspender >>

\* What the first half of prvUnlockQueue announces.
Owed(q) == IF cTxLock[q] > 0 THEN cTxLock[q] ELSE 0

UnlockTx(t) ==
  LET q == member[t]
  IN /\ pc[t] = "unlock" /\ suspender = t
     /\ Announce(q, Owed(q))
     /\ cTxLock' = [cTxLock EXCEPT ![q] = queueUNLOCKED]
     /\ Goto(t, "unlockRx")
     /\ UNCHANGED << inSet, uxMessagesWaiting, cRxLock, xTasksWaitingToSend,
                     member, selected, suspender >>

\* The second half wakes senders; then the task tries again.
UnlockRx(t) ==
  LET q == member[t]
      lock == cRxLock[q]
      list == xTasksWaitingToSend[q]
  IN /\ pc[t] = "unlockRx" /\ suspender = t
     /\ xTasksWaitingToSend' = [xTasksWaitingToSend EXCEPT ![q] =
          IF lock >= Len(list) THEN << >>
          ELSE IF lock > 0 THEN AllBut(lock, list) ELSE list]
     /\ cRxLock' = [cRxLock EXCEPT ![q] = queueUNLOCKED]
     /\ suspender' = NoTask
     /\ Goto(t, "send")
     /\ UNCHANGED << inSet, uxMessagesWaiting, cTxLock, set, member, selected >>

\* A block time ends; the task looks once more, and need not wait again.
Expire(t) ==
  /\ suspender = NoTask /\ Waiting(t)
  /\ xTasksWaitingToSend' = [q \in Member |-> Without(xTasksWaitingToSend[q], t)]
  /\ xTasksWaitingToReceive' = Without(xTasksWaitingToReceive, t)
  /\ UNCHANGED << inSet, uxMessagesWaiting, cTxLock, cRxLock, handles, setTxLock,
                  callers, suspender >>
-----------------------------------------------------------------------------
\* xQueueSelectFromSet is xQueueReceive from the set.

Select(t) ==
  /\ At(t, "app") /\ selected[t] = NoMember
  /\ Goto(t, "select")
  /\ UNCHANGED << members, set, member, selected, suspender >>

Selected(t) ==
  /\ At(t, "select") /\ handles # << >>
  /\ selected' = [selected EXCEPT ![t] = Head(handles)]
  /\ handles' = Tail(handles)
  /\ Goto(t, "app")
  /\ UNCHANGED << members, setTxLock, xTasksWaitingToReceive, member, suspender >>

NotSelected(t) ==
  /\ At(t, "select") /\ handles = << >>
  /\ Goto(t, "app") \/ Goto(t, "lockSet")
  /\ UNCHANGED << members, set, member, selected, suspender >>

LockSet(t) ==
  /\ At(t, "lockSet")
  /\ suspender' = t
  /\ setTxLock' = Locked(setTxLock)
  /\ Goto(t, "testSet")
  /\ UNCHANGED << members, handles, xTasksWaitingToReceive, member, selected >>

TestSet(t) ==
  /\ At(t, "testSet")
  /\ Goto(t, IF handles = << >> THEN "placeSet" ELSE "unlockSet")
  /\ UNCHANGED << members, set, member, selected, suspender >>

PlaceOnSet(t) ==
  /\ At(t, "placeSet")
  /\ xTasksWaitingToReceive' = Append(xTasksWaitingToReceive, t)
  /\ Goto(t, "unlockSet")
  /\ UNCHANGED << members, handles, setTxLock, member, selected, suspender >>

\* prvUnlockQueue of the set, to which nobody waits to send.
UnlockSet(t) ==
  /\ pc[t] = "unlockSet" /\ suspender = t
  /\ xTasksWaitingToReceive' =
       IF setTxLock >= Len(xTasksWaitingToReceive) THEN << >>
       ELSE IF setTxLock > 0 THEN AllBut(setTxLock, xTasksWaitingToReceive)
       ELSE xTasksWaitingToReceive
  /\ setTxLock' = queueUNLOCKED
  /\ suspender' = NoTask
  /\ Goto(t, "select")
  /\ UNCHANGED << members, handles, member, selected >>

\* xQueueReceive without a block time from the member selected, or from a queue
\* that is in no set; it wakes a sender.
Receive(t, q) ==
  /\ At(t, "app")
  /\ \/ selected[t] = q
     \/ selected[t] = NoMember /\ ~inSet[q]
  /\ IF uxMessagesWaiting[q] > 0
     THEN /\ uxMessagesWaiting' = [uxMessagesWaiting EXCEPT ![q] = @ - 1]
          /\ xTasksWaitingToSend' = [xTasksWaitingToSend EXCEPT ![q] = AllBut(1, @)]
     ELSE UNCHANGED << uxMessagesWaiting, xTasksWaitingToSend >>
  /\ selected' = [selected EXCEPT ![t] = NoMember]
  /\ UNCHANGED << inSet, cTxLock, cRxLock, set, pc, member, suspender >>
-----------------------------------------------------------------------------
\* Interrupts.

\* How often a send is announced that finds q unlocked.
Announcements(q) == IF IsFull(q) THEN 0 ELSE 1

\* xQueueGenericSendFromISR
xQueueGenericSendFromISR(q) ==
  /\ ~IsFull(q) \/ q \in Overwritten
  /\ MaySend(q)
  /\ uxMessagesWaiting' = [uxMessagesWaiting EXCEPT ![q] =
                             IF IsFull(q) THEN @ ELSE @ + 1]
  /\ IF cTxLock[q] = queueUNLOCKED
     THEN Announce(q, Announcements(q)) /\ UNCHANGED cTxLock
     ELSE /\ cTxLock' = [cTxLock EXCEPT ![q] = Counted(@, 1)]
          /\ UNCHANGED set
  /\ UNCHANGED << inSet, cRxLock, xTasksWaitingToSend, callers, suspender >>

\* xQueueSelectFromSetFromISR, and xQueueReceiveFromISR from the member.
SelectFromISR ==
  LET q == Head(handles)
  IN /\ handles # << >>
     /\ handles' = Tail(handles)
     /\ IF uxMessagesWaiting[q] = 0
        THEN UNCHANGED << uxMessagesWaiting, cRxLock, xTasksWaitingToSend >>
        ELSE /\ uxMessagesWaiting' = [uxMessagesWaiting EXCEPT ![q] = @ - 1]
             /\ IF cRxLock[q] = queueUNLOCKED
                THEN /\ xTasksWaitingToSend' =
                          [xTasksWaitingToSend EXCEPT ![q] = AllBut(1, @)]
                     /\ UNCHANGED cRxLock
                ELSE /\ cRxLock' = [cRxLock EXCEPT ![q] = Counted(@, 1)]
                     /\ UNCHANGED xTasksWaitingToSend
     /\ UNCHANGED << inSet, cTxLock, setTxLock, xTasksWaitingToReceive, callers,
                     suspender >>
-----------------------------------------------------------------------------
\* Membership.

MayBeAdded(q) == ~inSet[q] /\ uxMessagesWaiting[q] = 0

xQueueAddToSet(t, q) ==
  /\ At(t, "app") /\ selected[t] = NoMember
  /\ MayBeAdded(q)
  /\ inSet' = [inSet EXCEPT ![q] = TRUE]
  /\ UNCHANGED << uxMessagesWaiting, cTxLock, cRxLock, xTasksWaitingToSend, set,
                  callers, suspender >>

\* xQueueRemoveFromSet looks at the queue, and then enters its critical section.
RemoveCheck(t, q) ==
  /\ At(t, "app") /\ selected[t] = NoMember
  /\ inSet[q] /\ uxMessagesWaiting[q] = 0
  /\ \A u \in Task : member[u] # q /\ selected[u] # q
  /\ Goto(t, "remove")
  /\ member' = [member EXCEPT ![t] = q]
  /\ UNCHANGED << members, set, selected, suspender >>

xQueueRemoveFromSet(t) ==
  /\ At(t, "remove")
  /\ inSet' = [inSet EXCEPT ![member[t]] = FALSE]
  /\ Return(t)
  /\ UNCHANGED << uxMessagesWaiting, cTxLock, cRxLock, xTasksWaitingToSend, set,
                  selected, suspender >>
-----------------------------------------------------------------------------
Continue(t) ==
  \/ Sent(t) \/ NotSent(t) \/ LockMember(t) \/ TestMember(t) \/ PlaceOnMember(t)
  \/ UnlockTx(t) \/ UnlockRx(t)
  \/ Selected(t) \/ NotSelected(t) \/ LockSet(t) \/ TestSet(t) \/ PlaceOnSet(t)
  \/ UnlockSet(t) \/ (\E q \in Member : Receive(t, q)) \/ xQueueRemoveFromSet(t)

CallOf(t) ==
  \/ Select(t)
  \/ \E q \in Member :
       \/ q \notin Overwritten /\ Send(t, q)
       \/ xQueueAddToSet(t, q) \/ RemoveCheck(t, q)

Next ==
  \/ \E t \in Task : Continue(t) \/ CallOf(t) \/ Expire(t)
  \/ \E q \in Member : xQueueGenericSendFromISR(q)
  \/ SelectFromISR

Spec == Init /\ [][Next]_vars
-----------------------------------------------------------------------------
TypeOK ==
  /\ inSet \in [Member -> BOOLEAN]
  /\ \A q \in Member : uxMessagesWaiting[q] \in 0..uxLength[q]
  /\ handles \in Seq(Member) /\ Len(handles) <= uxEventQueueLength
  /\ cTxLock \in [Member -> queueUNLOCKED..uxNumberOfTasks]
  /\ cRxLock \in [Member -> queueUNLOCKED..uxNumberOfTasks]
  /\ setTxLock \in queueUNLOCKED..uxNumberOfTasks
  /\ suspender \in Task \cup {NoTask}

\* The handles of q in the set, or in the hands of a task.
Announced(q) ==
  Cardinality({i \in DOMAIN handles : handles[i] = q})
    + Cardinality({t \in Task : selected[t] = q})

\* Each item of a member is announced once: its handle is in the set, in the
\* hands of a task that will receive it, or owed by the lock of the member,
\* however sends and receptions of tasks and interrupts, waits for room and
\* changes of membership interleave.  A queue out of the set has no handle.
EachItemAnnounced ==
  \A q \in Member :
    IF inSet[q] THEN Announced(q) + Owed(q) = uxMessagesWaiting[q]
    ELSE Announced(q) = 0

\* A task that has yet to look whether there is a handle.
Looking(t) == ~Waiting(t) /\ pc[t] \in {"select", "unlockSet"}

\* While a task waits that the unlock of the set will not wake, each handle in
\* the set has a task that was woken for it and has yet to look, or one that
\* will be woken.
SelectorsWoken ==
  LET owed == IF setTxLock > 0 THEN setTxLock ELSE 0
  IN  \/ Len(xTasksWaitingToReceive) <= owed
      \/ Len(handles) <= Cardinality({t \in Task : Looking(t)}) + owed
=============================================================================
