----------------------------- MODULE Semaphore -----------------------------
(* A counting or binary semaphore of queue.c: a queue whose items have no    *)
(* size, taken by xQueueSemaphoreTake and given by tasks, which never wait   *)
(* to give, and by xQueueGiveFromISR.  (The mutex, the third kind, is module *)
(* Mutex.)  As in Queue, one action is one critical section, the scheduler   *)
(* is suspended and resumed with the first and the last of them, and any     *)
(* ready task may run next.  No task waits to give, so the receivers' lock   *)
(* wakes no one and is left out.                                             *)
EXTENDS Integers, SequencesExt

CONSTANTS
  Task, NoTask,
  uxMaxCount, uxInitialCount,
  uxPriority,                \* of each task
  uxNumberOfTasks,           \* the tasks there are, at which a lock stops
  Waits                      \* block times of takes: "none", "some", "forever"

VARIABLES
  uxSemaphoreCount,
  cTxLock,
  xTasksWaitingToReceive,
  suspender,                 \* the task that has suspended the scheduler
  pc,                        \* where a task is in its call
  wait,                      \* the block time of its call
  elapsed, ucDelayAborted,   \* its block time is over; its delay was aborted
  timedOut                   \* what xTaskCheckForTimeOut told it

calls == << pc, wait, elapsed, ucDelayAborted, timedOut >>
vars == << uxSemaphoreCount, cTxLock, xTasksWaitingToReceive, suspender, calls >>

queueUNLOCKED == -1
queueLOCKED_UNMODIFIED == 0

\* xQueueCreateCountingSemaphore
Init ==
  /\ uxSemaphoreCount = uxInitialCount
  /\ cTxLock = queueUNLOCKED
  /\ xTasksWaitingToReceive = << >>
  /\ suspender = NoTask
  /\ pc = [t \in Task |-> "app"]
  /\ wait = [t \in Task |-> "none"]
  /\ elapsed = [t \in Task |-> FALSE]
  /\ ucDelayAborted = [t \in Task |-> FALSE]
  /\ timedOut = [t \in Task |-> FALSE]

Waiting(t) == t \in ToSet(xTasksWaitingToReceive)

\* Task t is neither blocked nor held up by a suspended scheduler.
At(t, place) == pc[t] = place /\ ~Waiting(t) /\ suspender \in {NoTask, t}

Goto(t, place) == pc' = [pc EXCEPT ![t] = place]

Return(t) ==
  /\ Goto(t, "app")
  /\ wait' = [wait EXCEPT ![t] = "none"]
  /\ elapsed' = [elapsed EXCEPT ![t] = FALSE]
  /\ timedOut' = [timedOut EXCEPT ![t] = FALSE]
  /\ UNCHANGED ucDelayAborted

\* xTaskRemoveFromEventList, n times at most.
Woken(list, n) == SubSeq(list, n + 1, Len(list))

\* vTaskPlaceOnEventList: in the order of priorities, last among equals.
Placed(list, t) ==
  LET lower == {i \in 1..Len(list) : uxPriority[list[i]] < uxPriority[t]}
  IN  InsertAt(list, IF lower = {} THEN Len(list) + 1 ELSE Min(lower), t)

\* uxListRemove, if t is in the list.
Without(list, t) ==
  IF t \in ToSet(list)
  THEN RemoveAt(list, CHOOSE i \in 1..Len(list) : list[i] = t) ELSE list
-----------------------------------------------------------------------------
(* Taking.                                                                  *)

Call(t, w) ==
  /\ At(t, "app")
  /\ Goto(t, "first")
  /\ wait' = [wait EXCEPT ![t] = w]
  /\ UNCHANGED << uxSemaphoreCount, cTxLock, xTasksWaitingToReceive, suspender,
                  elapsed, ucDelayAborted, timedOut >>

\* The critical section in which a task tries, for the first time or again.
Tries(t) == At(t, "first") \/ At(t, "take")

Takes(t) ==
  /\ Tries(t) /\ uxSemaphoreCount > 0
  /\ uxSemaphoreCount' = uxSemaphoreCount - 1
  /\ Return(t)
  /\ UNCHANGED << cTxLock, xTasksWaitingToReceive, suspender >>

FindsNone(t) ==
  /\ Tries(t) /\ uxSemaphoreCount = 0
  /\ IF wait[t] = "none" THEN Return(t)
     ELSE Goto(t, "lock") /\ UNCHANGED << wait, elapsed, ucDelayAborted, timedOut >>
  /\ UNCHANGED << uxSemaphoreCount, cTxLock, xTasksWaitingToReceive, suspender >>

prvLockQueue(t) ==
  /\ At(t, "lock")
  /\ suspender' = t
  /\ cTxLock' = IF cTxLock = queueUNLOCKED THEN queueLOCKED_UNMODIFIED ELSE cTxLock
  /\ Goto(t, "check")
  /\ UNCHANGED << uxSemaphoreCount, xTasksWaitingToReceive, wait, elapsed,
                  ucDelayAborted, timedOut >>

\* A time-out leaves no block time, an abort leaves it as it is.
xTaskCheckForTimeOut(t) ==
  /\ At(t, "check")
  /\ LET over == ucDelayAborted[t] \/ elapsed[t]
     IN /\ timedOut' = [timedOut EXCEPT ![t] = over]
        /\ Goto(t, IF over THEN "unlock" ELSE "test")
        /\ wait' = IF over /\ ~ucDelayAborted[t] THEN [wait EXCEPT ![t] = "none"] ELSE wait
  /\ ucDelayAborted' = [ucDelayAborted EXCEPT ![t] = FALSE]
  /\ UNCHANGED << uxSemaphoreCount, cTxLock, xTasksWaitingToReceive, suspender, elapsed >>

\* Fault: the task waits without another look at the count.
F_WaitsAnyway(t) ==
  /\ At(t, "test")
  /\ Goto(t, "place")
  /\ UNCHANGED << uxSemaphoreCount, cTxLock, xTasksWaitingToReceive, suspender,
                  wait, elapsed, ucDelayAborted, timedOut >>

\* prvIsQueueEmpty: an interrupt may have given since the first look.
LooksAgain(t) ==
  /\ At(t, "test")
  /\ Goto(t, IF uxSemaphoreCount = 0 THEN "place" ELSE "unlock")
  /\ UNCHANGED << uxSemaphoreCount, cTxLock, xTasksWaitingToReceive, suspender,
                  wait, elapsed, ucDelayAborted, timedOut >>

\* The task runs on until the scheduler is resumed.
vTaskPlaceOnEventList(t) ==
  /\ At(t, "place")
  /\ xTasksWaitingToReceive' = Placed(xTasksWaitingToReceive, t)
  /\ ucDelayAborted' = [ucDelayAborted EXCEPT ![t] = FALSE]
  /\ Goto(t, "unlock")
  /\ UNCHANGED << uxSemaphoreCount, cTxLock, suspender, wait, elapsed, timedOut >>

\* prvUnlockQueue wakes a task for each give that was counted; the scheduler
\* is resumed.
prvUnlockQueue(t) ==
  /\ pc[t] = "unlock" /\ suspender = t
  /\ xTasksWaitingToReceive' = Woken(xTasksWaitingToReceive, cTxLock)
  /\ cTxLock' = queueUNLOCKED
  /\ suspender' = NoTask
  /\ Goto(t, IF timedOut[t] THEN "recheck" ELSE "take")
  /\ UNCHANGED << uxSemaphoreCount, wait, elapsed, ucDelayAborted, timedOut >>

\* A call that timed out tries again if the semaphore is available after all.
Recheck(t) ==
  /\ At(t, "recheck")
  /\ IF uxSemaphoreCount = 0 THEN Return(t)
     ELSE /\ Goto(t, "take")
          /\ timedOut' = [timedOut EXCEPT ![t] = FALSE]
          /\ UNCHANGED << wait, elapsed, ucDelayAborted >>
  /\ UNCHANGED << uxSemaphoreCount, cTxLock, xTasksWaitingToReceive, suspender >>
-----------------------------------------------------------------------------
(* Giving, and the end of waits.                                            *)

\* xSemaphoreGive: xQueueGenericSend without a block time.
xQueueGenericSend(t) ==
  /\ At(t, "app") /\ uxSemaphoreCount < uxMaxCount
  /\ uxSemaphoreCount' = uxSemaphoreCount + 1
  /\ xTasksWaitingToReceive' = Woken(xTasksWaitingToReceive, 1)
  /\ UNCHANGED << cTxLock, suspender, calls >>

\* prvIncrementQueueTxLock
Counted(lock) == IF lock < uxNumberOfTasks THEN lock + 1 ELSE lock

xQueueGiveFromISR ==
  /\ uxSemaphoreCount < uxMaxCount
  /\ uxSemaphoreCount' = uxSemaphoreCount + 1
  /\ IF cTxLock = queueUNLOCKED
     THEN /\ xTasksWaitingToReceive' = Woken(xTasksWaitingToReceive, 1)
          /\ UNCHANGED cTxLock
     ELSE cTxLock' = Counted(cTxLock) /\ UNCHANGED xTasksWaitingToReceive
  /\ UNCHANGED << suspender, calls >>

\* An interrupt takes without waiting; xSemaphoreTakeFromISR is
\* xQueueReceiveFromISR.
xQueueReceiveFromISR ==
  /\ uxSemaphoreCount > 0
  /\ uxSemaphoreCount' = uxSemaphoreCount - 1
  /\ UNCHANGED << cTxLock, xTasksWaitingToReceive, suspender, calls >>

\* Ticks: the block time of a call is over, and its wait with it.
Expire(t) ==
  /\ suspender = NoTask
  /\ pc[t] \notin {"app", "first"} /\ wait[t] = "some" /\ ~elapsed[t]
  /\ elapsed' = [elapsed EXCEPT ![t] = TRUE]
  /\ xTasksWaitingToReceive' = Without(xTasksWaitingToReceive, t)
  /\ UNCHANGED << uxSemaphoreCount, cTxLock, suspender, pc, wait, ucDelayAborted, timedOut >>

\* Another task aborts the wait of t.
xTaskAbortDelay(t) ==
  /\ suspender = NoTask /\ Waiting(t)
  /\ ucDelayAborted' = [ucDelayAborted EXCEPT ![t] = TRUE]
  /\ xTasksWaitingToReceive' = Without(xTasksWaitingToReceive, t)
  /\ UNCHANGED << uxSemaphoreCount, cTxLock, suspender, pc, wait, elapsed, timedOut >>

Next ==
  \/ xQueueGiveFromISR \/ xQueueReceiveFromISR
  \/ \E t \in Task :
       \/ Takes(t) \/ FindsNone(t) \/ prvLockQueue(t) \/ xTaskCheckForTimeOut(t)
       \/ LooksAgain(t) \/ vTaskPlaceOnEventList(t) \/ prvUnlockQueue(t) \/ Recheck(t)
       \/ xQueueGenericSend(t) \/ Expire(t) \/ xTaskAbortDelay(t)
       \/ \E w \in Waits : Call(t, w)

Spec == Init /\ [][Next]_vars
-----------------------------------------------------------------------------
\* t has yet to try to take before it waits or gives up.
WillTry(t) ==
  /\ ~Waiting(t)
  /\ \/ pc[t] \in {"first", "take"}
     \/ pc[t] = "unlock" /\ ~timedOut[t]

\* The waiting tasks that prvUnlockQueue will wake.
Owed == IF cTxLock > Len(xTasksWaitingToReceive) THEN Len(xTasksWaitingToReceive)
        ELSE IF cTxLock > 0 THEN cTxLock ELSE 0

\* No give is lost: while a task waits, every count of the semaphore has a task
\* that was woken for it and has yet to try, or that will be woken when the
\* queue is unlocked; and the queue is locked only by the suspending task.
TakersWoken ==
  /\ \/ Owed = Len(xTasksWaitingToReceive)
     \/ uxSemaphoreCount <= Cardinality({t \in Task : WillTry(t)}) + Owed
  /\ (cTxLock # queueUNLOCKED) = (suspender # NoTask)
=============================================================================
