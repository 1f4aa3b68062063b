------------------------------- MODULE Queue -------------------------------
(***************************************************************************)
(* A queue of queue.c and the tasks and interrupts that use it.            *)
(*                                                                         *)
(* A blocking call tries in a critical section, and only then suspends the *)
(* scheduler and locks the queue to wait.  Interrupts may send and receive *)
(* all the while; on a locked queue they count what they did in cTxLock    *)
(* and cRxLock instead of waking a task, and prvUnlockQueue wakes the      *)
(* tasks later.  One action is one critical section.  vTaskSuspendAll goes *)
(* with prvLockQueue and xTaskResumeAll with the second half of            *)
(* prvUnlockQueue: an interrupt between the two does the same before or    *)
(* after both.  Any ready task may run next, whatever its priority, so     *)
(* every preemption is a behaviour.                                        *)
(***************************************************************************)
EXTENDS Integers, SequencesExt

CONSTANTS
  Task, NoTask,
  Item, NoItem,
  uxLength,            \* the items the queue has room for
  uxPriority,          \* of each task
  Calls,               \* the calls tasks make: copy positions, receive, ...
  Waits,               \* their block times: "none", "some" or "forever"
  IsrCalls,            \* the calls interrupts make
  Aborts               \* xTaskAbortDelay may be called

ASSUME QueueAssumption ==
  /\ IsFiniteSet(Task)
  /\ NoTask \notin Task /\ NoItem \notin Item
  /\ uxLength \in Nat \ {0}
  /\ uxPriority \in [Task -> Nat]
  /\ Waits \subseteq {"none", "some", "forever"}
  /\ Calls \cup IsrCalls \subseteq
       {"back", "front", "overwrite", "receive", "peek", "reset"}
  /\ "overwrite" \in Calls \cup IsrCalls => uxLength = 1
  /\ Aborts \in BOOLEAN

VARIABLES
  buffer, uxMessagesWaiting, pcWriteTo, pcReadFrom,
  cRxLock, cTxLock,
  xTasksWaitingToSend, xTasksWaitingToReceive,
  pvBuffer,        \* the item last copied to a caller
  suspender,       \* the task that has suspended the scheduler
  pc,              \* where a task is: "first" is its first try
  call,            \* what a task called, with which item and block time
  timedOut,        \* what xTaskCheckForTimeOut told a task
  ucDelayAborted,
  cause            \* history: what has ended the block time of this call

store == << buffer, uxMessagesWaiting, pcWriteTo, pcReadFrom, pvBuffer >>
locks == << cRxLock, cTxLock >>
waiting == << xTasksWaitingToSend, xTasksWaitingToReceive >>
callers == << pc, call, timedOut, ucDelayAborted, cause >>
vars == << store, locks, waiting, callers, suspender >>

queueUNLOCKED == -1
queueLOCKED_UNMODIFIED == 0

Position == 0..(uxLength - 1)
NoCall == [op |-> "none", item |-> NoItem, wait |-> "none"]
Sends(op) == op \in {"back", "front", "overwrite"}
Reads(op) == op \in {"receive", "peek"}

IsEmpty == uxMessagesWaiting = 0
IsFull == uxMessagesWaiting = uxLength

Init ==
  /\ buffer = [i \in Position |-> NoItem]
  /\ uxMessagesWaiting = 0 /\ pcWriteTo = 0 /\ pcReadFrom = uxLength - 1
  /\ cRxLock = queueUNLOCKED /\ cTxLock = queueUNLOCKED
  /\ xTasksWaitingToSend = << >> /\ xTasksWaitingToReceive = << >>
  /\ pvBuffer = NoItem
  /\ suspender = NoTask
  /\ pc = [t \in Task |-> "app"]
  /\ call = [t \in Task |-> NoCall]
  /\ timedOut = [t \in Task |-> FALSE]
  /\ ucDelayAborted = [t \in Task |-> FALSE]
  /\ cause = [t \in Task |-> {}]
-----------------------------------------------------------------------------
\* The circular buffer.

\* The place behind i: at pcTail the pointer goes back to pcHead.
Following(i) == IF i + 1 >= uxLength THEN 0 ELSE i + 1

\* The place before i.
Preceding(i) == IF i - 1 < 0 THEN uxLength - 1 ELSE i - 1

\* Fault: the place is written after the pointer has moved.
F_MovesFirst(x) ==
  /\ buffer' = [buffer EXCEPT ![Preceding(pcReadFrom)] = x]
  /\ pcReadFrom' = Preceding(pcReadFrom)
  /\ UNCHANGED pcWriteTo

\* An item in front of the others.
CopyToFront(x) ==
  /\ buffer' = [buffer EXCEPT ![pcReadFrom] = x]
  /\ pcReadFrom' = Preceding(pcReadFrom)
  /\ UNCHANGED pcWriteTo

\* Fault: the item that is overwritten still counts.
F_OverwriteCounts(xCopyPosition) == uxMessagesWaiting + 1

CountWith(xCopyPosition) ==
  IF xCopyPosition = "overwrite" /\ ~IsEmpty THEN uxMessagesWaiting
  ELSE uxMessagesWaiting + 1

prvCopyDataToQueue(x, xCopyPosition) ==
  /\ IF xCopyPosition = "back"
     THEN /\ buffer' = [buffer EXCEPT ![pcWriteTo] = x]
          /\ pcWriteTo' = Following(pcWriteTo)
          /\ UNCHANGED pcReadFrom
     ELSE CopyToFront(x)
  /\ uxMessagesWaiting' = CountWith(xCopyPosition)
  /\ UNCHANGED pvBuffer

\* prvCopyDataFromQueue; a peek restores the read position and the count.
prvCopyDataFromQueue(takes) ==
  /\ pvBuffer' = buffer[Following(pcReadFrom)]
  /\ IF takes
     THEN /\ pcReadFrom' = Following(pcReadFrom)
          /\ uxMessagesWaiting' = uxMessagesWaiting - 1
     ELSE UNCHANGED << pcReadFrom, uxMessagesWaiting >>
  /\ UNCHANGED << buffer, pcWriteTo >>
-----------------------------------------------------------------------------
\* Waking and waiting.

\* xTaskRemoveFromEventList, if the list is not empty.
Woken(list) == IF list = << >> THEN list ELSE Tail(list)

WakeReceiver ==
  /\ xTasksWaitingToReceive' = Woken(xTasksWaitingToReceive)
  /\ UNCHANGED xTasksWaitingToSend

WakeSender ==
  /\ xTasksWaitingToSend' = Woken(xTasksWaitingToSend)
  /\ UNCHANGED xTasksWaitingToReceive

\* A peek leaves the item to the next reader, and wakes it.
WakeNextReader == WakeReceiver

\* Fault: one task is woken however many interrupts there were.
F_WokenOnce(lock, list) == IF lock > 0 THEN Woken(list) ELSE list

\* The loops of prvUnlockQueue wake one task for each interrupt counted.
WokenBy(lock, list) ==
  IF lock >= Len(list) THEN << >>
  ELSE IF lock > 0 THEN SubSeq(list, lock + 1, Len(list)) ELSE list

\* vTaskPlaceOnEventList: in the order of priorities, last among equals.
Placed(list, t) ==
  LET lower == {i \in 1..Len(list) : uxPriority[list[i]] < uxPriority[t]}
  IN  InsertAt(list, IF lower = {} THEN Len(list) + 1 ELSE Min(lower), t)

Waiting(t) ==
  t \in ToSet(xTasksWaitingToSend) \/ t \in ToSet(xTasksWaitingToReceive)

\* Fault: the lock is not taken.
F_StaysUnlocked(lock) == lock

\* A lock once prvLockQueue has taken it.
Locked(lock) == IF lock = queueUNLOCKED THEN queueLOCKED_UNMODIFIED ELSE lock

\* Fault: the interrupt is not counted.
F_NeverCounts(lock) == lock

\* What an interrupt on a locked queue counts, at most one for each task.
Counted(lock) == IF lock < Cardinality(Task) THEN lock + 1 ELSE lock
-----------------------------------------------------------------------------
\* The calls of tasks.

\* Task t can take its next step: it is not blocked, nor held up by a
\* suspended scheduler.
Runs(t) == ~Waiting(t) /\ suspender \in {NoTask, t}

At(t, where) == pc[t] = where /\ Runs(t)

Goto(t, where) == pc' = [pc EXCEPT ![t] = where]

Return(t) ==
  /\ Goto(t, "app")
  /\ call' = [call EXCEPT ![t] = NoCall]
  /\ timedOut' = [timedOut EXCEPT ![t] = FALSE]
  /\ cause' = [cause EXCEPT ![t] = {}]

Call(t, op, x, wait) ==
  /\ At(t, "app")
  /\ Sends(op) = (x # NoItem)
  /\ Goto(t, "first")
  /\ call' = [call EXCEPT ![t] = [op |-> op, item |-> x, wait |-> wait]]
  /\ UNCHANGED << store, locks, waiting, timedOut, ucDelayAborted, cause,
                  suspender >>

\* The first critical section of the loop: the call can be served at once.
Served(t) ==
  LET op == call[t].op
  IN /\ At(t, "first") \/ At(t, "look")
     /\ \/ /\ Sends(op) /\ (~IsFull \/ op = "overwrite")
           /\ prvCopyDataToQueue(call[t].item, op)
           /\ WakeReceiver
        \/ /\ op = "receive" /\ ~IsEmpty
           /\ prvCopyDataFromQueue(TRUE)
           /\ WakeSender
        \/ /\ op = "peek" /\ ~IsEmpty
           /\ prvCopyDataFromQueue(FALSE)
           /\ WakeNextReader
     /\ Return(t)
     /\ UNCHANGED << locks, ucDelayAborted, suspender >>

\* It cannot: return, or go on to wait.
NotServed(t) ==
  /\ At(t, "first") \/ At(t, "look")
  /\ \/ call[t].op \in {"back", "front"} /\ IsFull
     \/ Reads(call[t].op) /\ IsEmpty
  /\ IF call[t].wait = "none" THEN Return(t)
     ELSE Goto(t, "lock") /\ UNCHANGED << call, timedOut, cause >>
  /\ UNCHANGED << store, locks, waiting, ucDelayAborted, suspender >>

\* vTaskSuspendAll and prvLockQueue
prvLockQueue(t) ==
  /\ At(t, "lock")
  /\ suspender' = t
  /\ cRxLock' = Locked(cRxLock) /\ cTxLock' = Locked(cTxLock)
  /\ Goto(t, "check")
  /\ UNCHANGED << store, waiting, call, timedOut, ucDelayAborted, cause >>

\* A time-out leaves no block time, an abort leaves it as it is.
xTaskCheckForTimeOut(t) ==
  /\ At(t, "check")
  /\ LET hasElapsed == call[t].wait = "some" /\ "time" \in cause[t]
         isTimedOut == ucDelayAborted[t] \/ hasElapsed
     IN /\ timedOut' = [timedOut EXCEPT ![t] = isTimedOut]
        /\ Goto(t, IF isTimedOut THEN "unlock" ELSE "test")
        /\ call' = IF hasElapsed /\ ~ucDelayAborted[t]
                   THEN [call EXCEPT ![t].wait = "none"] ELSE call
  /\ ucDelayAborted' = [ucDelayAborted EXCEPT ![t] = FALSE]
  /\ UNCHANGED << store, locks, waiting, cause, suspender >>

\* Fault: the queue is not looked at again before the task waits.
F_AlwaysWaits(t) == TRUE

\* prvIsQueueFull or prvIsQueueEmpty: there is still a reason to wait.
StillBlocks(t) == IF Sends(call[t].op) THEN IsFull ELSE IsEmpty

TestQueue(t) ==
  /\ At(t, "test")
  /\ Goto(t, IF StillBlocks(t) THEN "place" ELSE "unlock")
  /\ UNCHANGED << store, locks, waiting, call, timedOut, ucDelayAborted, cause,
                  suspender >>

\* vTaskPlaceOnEventList; the task runs on until the scheduler is resumed.
PlaceOnEventList(t) ==
  /\ At(t, "place")
  /\ IF Sends(call[t].op)
     THEN /\ xTasksWaitingToSend' = Placed(xTasksWaitingToSend, t)
          /\ UNCHANGED xTasksWaitingToReceive
     ELSE /\ xTasksWaitingToReceive' = Placed(xTasksWaitingToReceive, t)
          /\ UNCHANGED xTasksWaitingToSend
  /\ ucDelayAborted' = [ucDelayAborted EXCEPT ![t] = FALSE]
  /\ Goto(t, "unlock")
  /\ UNCHANGED << store, locks, call, timedOut, cause, suspender >>

\* The first critical section of prvUnlockQueue wakes receivers.
UnlockTx(t) ==
  /\ pc[t] = "unlock" /\ suspender = t
  /\ xTasksWaitingToReceive' = WokenBy(cTxLock, xTasksWaitingToReceive)
  /\ cTxLock' = queueUNLOCKED
  /\ Goto(t, "unlockRx")
  /\ UNCHANGED << store, cRxLock, xTasksWaitingToSend, call, timedOut,
                  ucDelayAborted, cause, suspender >>

\* The second wakes senders; then the scheduler is resumed.  A sender that
\* timed out gives up, a receiver looks once more, the others try again.
UnlockRx(t) ==
  /\ pc[t] = "unlockRx" /\ suspender = t
  /\ xTasksWaitingToSend' = WokenBy(cRxLock, xTasksWaitingToSend)
  /\ cRxLock' = queueUNLOCKED
  /\ suspender' = NoTask
  /\ IF timedOut[t] /\ Sends(call[t].op) THEN Return(t)
     ELSE /\ Goto(t, IF timedOut[t] THEN "recheck" ELSE "look")
          /\ UNCHANGED << call, timedOut, cause >>
  /\ UNCHANGED << store, cTxLock, xTasksWaitingToReceive, ucDelayAborted >>

Recheck(t) ==
  /\ At(t, "recheck")
  /\ IF IsEmpty THEN Return(t)
     ELSE /\ Goto(t, "look")
          /\ timedOut' = [timedOut EXCEPT ![t] = FALSE]
          /\ UNCHANGED << call, cause >>
  /\ UNCHANGED << store, locks, waiting, ucDelayAborted, suspender >>

\* xQueueGenericReset of a queue in use wakes one sender.
xQueueGenericReset(t) ==
  /\ At(t, "app")
  /\ uxMessagesWaiting' = 0
  /\ pcWriteTo' = 0
  /\ pcReadFrom' = uxLength - 1
  /\ cRxLock' = queueUNLOCKED /\ cTxLock' = queueUNLOCKED
  /\ WakeSender
  /\ UNCHANGED << buffer, pvBuffer, callers, suspender >>
-----------------------------------------------------------------------------
\* Interrupts.

\* xQueueGenericSendFromISR
xQueueGenericSendFromISR(x, xCopyPosition) ==
  /\ ~IsFull \/ xCopyPosition = "overwrite"
  /\ prvCopyDataToQueue(x, xCopyPosition)
  /\ IF cTxLock = queueUNLOCKED
     THEN WakeReceiver /\ UNCHANGED cTxLock
     ELSE cTxLock' = Counted(cTxLock) /\ UNCHANGED waiting
  /\ UNCHANGED << cRxLock, callers, suspender >>

xQueueReceiveFromISR ==
  /\ ~IsEmpty
  /\ prvCopyDataFromQueue(TRUE)
  /\ IF cRxLock = queueUNLOCKED
     THEN WakeSender /\ UNCHANGED cRxLock
     ELSE cRxLock' = Counted(cRxLock) /\ UNCHANGED waiting
  /\ UNCHANGED << cTxLock, callers, suspender >>

xQueuePeekFromISR ==
  /\ ~IsEmpty
  /\ prvCopyDataFromQueue(FALSE)
  /\ UNCHANGED << locks, waiting, callers, suspender >>

\* uxListRemove, if t is in the list.
Without(list, t) ==
  IF t \in ToSet(list)
  THEN RemoveAt(list, CHOOSE i \in 1..Len(list) : list[i] = t) ELSE list

\* t leaves the list of the tasks that wait.
StopWaiting(t) ==
  /\ xTasksWaitingToSend' = Without(xTasksWaitingToSend, t)
  /\ xTasksWaitingToReceive' = Without(xTasksWaitingToReceive, t)

\* Ticks: the block time of a call ends, and its wait with it.  The tick count
\* stands still while the scheduler is suspended.
Expire(t) ==
  /\ suspender = NoTask
  /\ pc[t] \notin {"app", "first"} /\ call[t].wait = "some"
  /\ "time" \notin cause[t]
  /\ cause' = [cause EXCEPT ![t] = @ \cup {"time"}]
  /\ StopWaiting(t)
  /\ UNCHANGED << store, locks, pc, call, timedOut, ucDelayAborted, suspender >>

\* Another task calls xTaskAbortDelay(t).
xTaskAbortDelay(t) ==
  /\ suspender = NoTask /\ Waiting(t)
  /\ cause' = [cause EXCEPT ![t] = @ \cup {"abort"}]
  /\ ucDelayAborted' = [ucDelayAborted EXCEPT ![t] = TRUE]
  /\ StopWaiting(t)
  /\ UNCHANGED << store, locks, pc, call, timedOut, suspender >>
-----------------------------------------------------------------------------
\* A task goes on with the call it is in.
Continue(t) ==
  \/ Served(t) \/ NotServed(t) \/ prvLockQueue(t) \/ xTaskCheckForTimeOut(t)
  \/ TestQueue(t) \/ PlaceOnEventList(t) \/ UnlockTx(t) \/ UnlockRx(t)
  \/ Recheck(t)

StartCall(t) ==
  \/ \E op \in Calls \ {"reset"}, x \in Item \cup {NoItem}, wait \in Waits :
       Call(t, op, x, wait)
  \/ "reset" \in Calls /\ xQueueGenericReset(t)

Interrupt ==
  \/ \E x \in Item, xCopyPosition \in IsrCalls :
       Sends(xCopyPosition) /\ xQueueGenericSendFromISR(x, xCopyPosition)
  \/ "receive" \in IsrCalls /\ xQueueReceiveFromISR
  \/ "peek" \in IsrCalls /\ xQueuePeekFromISR

Next ==
  \/ \E t \in Task : Continue(t) \/ StartCall(t) \/ Expire(t)
  \/ Interrupt
  \/ Aborts /\ \E t \in Task : xTaskAbortDelay(t)

Spec == Init /\ [][Next]_vars
-----------------------------------------------------------------------------
Lock == queueUNLOCKED..Cardinality(Task)
Places == {"app", "first", "look", "lock", "check", "test", "place", "unlock",
           "unlockRx", "recheck"}

TypeOK ==
  /\ buffer \in [Position -> Item \cup {NoItem}]
  /\ uxMessagesWaiting \in 0..uxLength
  /\ pcWriteTo \in Position /\ pcReadFrom \in Position
  /\ cRxLock \in Lock /\ cTxLock \in Lock
  /\ xTasksWaitingToSend \in Seq(Task)
  /\ xTasksWaitingToReceive \in Seq(Task)
  /\ pvBuffer \in Item \cup {NoItem}
  /\ suspender \in Task \cup {NoTask}
  /\ pc \in [Task -> Places]
  /\ call \in [Task -> [op : {"none", "back", "front", "overwrite", "receive",
                              "peek"},
                        item : Item \cup {NoItem},
                        wait : {"none", "some", "forever"}]]
  /\ timedOut \in [Task -> BOOLEAN]
  /\ ucDelayAborted \in [Task -> BOOLEAN]
  /\ cause \in [Task -> SUBSET {"time", "abort"}]

\* The queue is locked only inside the suspension of one task, both locks
\* together until prvUnlockQueue, so that a lock never outlives its task's
\* wait and a reset never meets one.
LockedBySuspender ==
  /\ suspender = NoTask => cRxLock = queueUNLOCKED /\ cTxLock = queueUNLOCKED
  /\ suspender # NoTask =>
       /\ cRxLock # queueUNLOCKED
       /\ (cTxLock = queueUNLOCKED) = (pc[suspender] = "unlockRx")

\* t has yet to look at the queue before it waits or gives up.
WillLook(t) ==
  /\ ~Waiting(t)
  /\ \/ pc[t] \in {"first", "look"}
     \/ pc[t] \in {"unlock", "unlockRx"} /\ ~timedOut[t]

\* The tasks that prvUnlockQueue will wake.
Owed(lock, list) == Len(list) - Len(WokenBy(lock, list))

\* No wake-up is lost: while a receiver waits, every item in the queue has a
\* reader that was woken for it or will be when the queue is unlocked, however
\* sends, interrupts, time-outs, peeks and thefts interleave.
ReceiversWoken ==
  xTasksWaitingToReceive = << >> \/
    uxMessagesWaiting
      <= Cardinality({t \in Task : Reads(call[t].op) /\ WillLook(t)})
         + Owed(cTxLock, xTasksWaitingToReceive)
    \/ Owed(cTxLock, xTasksWaitingToReceive) = Len(xTasksWaitingToReceive)

\* The same for senders and the free places of the queue.
SendersWoken ==
  xTasksWaitingToSend = << >> \/
    uxLength - uxMessagesWaiting
      <= Cardinality({t \in Task : Sends(call[t].op) /\ WillLook(t)})
         + Owed(cRxLock, xTasksWaitingToSend)
    \/ Owed(cRxLock, xTasksWaitingToSend) = Len(xTasksWaitingToSend)

\* A call with a block time gives up only because its own time is over or its
\* own wait was aborted: xTaskCheckForTimeOut ends no other call.
EndsForItsOwnCause == \A t \in Task : timedOut[t] => cause[t] # {}

\* The items behind pcReadFrom, in the order in which they will be read.
contents ==
  [i \in 1..uxMessagesWaiting |-> buffer[(pcReadFrom + i) % uxLength]]

Fifo == INSTANCE QueueFifo WITH contents <- contents, pvBuffer <- pvBuffer

\* The circular buffer with its two pointers is a bounded queue: what tasks
\* and interrupts copy out is what a sequence of items would give them.
ImplementsFifo == Fifo!Spec
-----------------------------------------------------------------------------
\* The tasks have one priority and share the processor (TimeSlicing of the
\* scheduler): one that is not blocked goes on with its call, although it
\* stands still while another suspends the scheduler.
FairSpec == Spec /\ \A t \in Task : SF_vars(Continue(t))

\* A waiting receiver is served in the end, or the queue runs empty.
ReceiverServed ==
  \A t \in Task :
    t \in ToSet(xTasksWaitingToReceive) /\ ~IsEmpty
      ~> t \notin ToSet(xTasksWaitingToReceive) \/ IsEmpty

\* A waiting sender is served in the end, or the queue fills up.
SenderServed ==
  \A t \in Task :
    t \in ToSet(xTasksWaitingToSend) /\ ~IsFull
      ~> t \notin ToSet(xTasksWaitingToSend) \/ IsFull
=============================================================================
