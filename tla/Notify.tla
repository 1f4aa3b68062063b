------------------------------- MODULE Notify -------------------------------
(***************************************************************************)
(* Direct-to-task notifications of tasks.c: the tasks and interrupts that  *)
(* notify, the tasks that wait, and the other ways in which a waiting task *)
(* may be moved: the tick, xTaskAbortDelay, vTaskSuspend and vTaskResume.  *)
(*                                                                         *)
(* A wait suspends the scheduler, tests in one critical section, blocks,   *)
(* resumes the scheduler and takes the notification in another critical    *)
(* section; each of these is an action, and interrupts notify in between.  *)
(* Any ready task may be the next to run.                                  *)
(***************************************************************************)
EXTENDS Integers, FiniteSets

CONSTANTS
  Task, NoTask,
  Index,             \* configTASK_NOTIFICATION_ARRAY_ENTRIES slots
  MaxValue,          \* bound: the values of notifications, a power of two less one
  WaitCalls,         \* waits that tasks make: records [op, index, clear, ticks]
  Actions            \* of eIncrement, eSetBits, ... (eNotifyAction)

VARIABLES
  xStateList,        \* the list of each task's state item
  xPendingReadyList, \* the tasks whose event item is in it
  suspender,         \* the task that has suspended the scheduler
  ulNotifiedValue, ucNotifyState,
  pc, call,          \* where a task is in its call, and what it called
  target,            \* the task whose delay a task aborts
  parked             \* history: suspended by vTaskSuspend and not resumed

lists == << xStateList, xPendingReadyList, parked >>
slots == << ulNotifiedValue, ucNotifyState >>
calls == << pc, call, target >>
vars == << lists, slots, calls, suspender >>

NoCall == [op |-> "none", index |-> 0, clear |-> 0, ticks |-> "none"]

Init ==
  /\ xStateList = [t \in Task |-> "ready"]
  /\ xPendingReadyList = {}
  /\ suspender = NoTask
  /\ ulNotifiedValue = [t \in Task |-> [i \in Index |-> 0]]
  /\ ucNotifyState = [t \in Task |-> [i \in Index |-> "notWaiting"]]
  /\ pc = [t \in Task |-> "app"]
  /\ call = [t \in Task |-> NoCall]
  /\ target = [t \in Task |-> NoTask]
  /\ parked = [t \in Task |-> FALSE]
-----------------------------------------------------------------------------
Runs(t) == xStateList[t] = "ready" /\ suspender \in {NoTask, t}
At(t, where) == pc[t] = where /\ Runs(t)
Goto(t, where) == pc' = [pc EXCEPT ![t] = where]

\* A task outside any call, or one that has suspended the scheduler itself.
MayCall(t) == At(t, "app") \/ At(t, "held")

\* The bits of a value, and of two.
BitOf(value, i) == (value \div 2^i) % 2
Or(value, mask) ==
  CHOOSE all \in 0..MaxValue : \A i \in 0..MaxValue :
    BitOf(all, i) = 1 <=> (BitOf(value, i) = 1 \/ BitOf(mask, i) = 1)
Without(value, mask) ==
  CHOOSE rest \in 0..MaxValue : \A i \in 0..MaxValue :
    BitOf(rest, i) = 1 <=> (BitOf(value, i) = 1 /\ BitOf(mask, i) = 0)

\* t goes to the ready list from the list it is in.
MakeReady(t) ==
  /\ xStateList' = [xStateList EXCEPT ![t] = "ready"]
  /\ parked' = [parked EXCEPT ![t] = FALSE]

Value(t) == ulNotifiedValue[t][call[t].index]
State(t) == ucNotifyState[t][call[t].index]
SetValue(t, n) == ulNotifiedValue' = [ulNotifiedValue EXCEPT ![t][call[t].index] = n]
SetState(t, s) == ucNotifyState' = [ucNotifyState EXCEPT ![t][call[t].index] = s]
-----------------------------------------------------------------------------
\* ulTaskGenericNotifyTake and xTaskGenericNotifyWait.

Call(t, c) ==
  /\ At(t, "app")
  /\ suspender' = t                              \* vTaskSuspendAll
  /\ Goto(t, "test")
  /\ call' = [call EXCEPT ![t] = c]
  /\ UNCHANGED << lists, slots, target >>

Blocks(t) == Goto(t, IF call[t].ticks = "none" THEN "resume" ELSE "block")

\* Take waits for a count, Wait for a notification.
TestTake(t) ==
  /\ At(t, "test") /\ call[t].op = "take"
  /\ IF Value(t) = 0 THEN SetState(t, "waiting") /\ Blocks(t)
     ELSE Goto(t, "resume") /\ UNCHANGED ucNotifyState
  /\ UNCHANGED << ulNotifiedValue, lists, call, target, suspender >>

TestWait(t, ulBitsToClearOnEntry) ==
  /\ At(t, "test") /\ call[t].op = "wait"
  /\ IF State(t) # "received"
     THEN /\ SetValue(t, Without(Value(t), ulBitsToClearOnEntry))
          /\ SetState(t, "waiting") /\ Blocks(t)
     ELSE Goto(t, "resume") /\ UNCHANGED slots
  /\ UNCHANGED << lists, call, target, suspender >>

\* prvAddCurrentTaskToDelayedList
Block(t) ==
  /\ At(t, "block")
  /\ xStateList' = [xStateList EXCEPT ![t] =
                      IF call[t].ticks = "forever" THEN "suspended" ELSE "delayed"]
  /\ Goto(t, "resume")
  /\ UNCHANGED << xPendingReadyList, parked, slots, call, target, suspender >>

IsPending(u) == u \in xPendingReadyList

\* Tasks pended meanwhile become ready, the caller among them.
xTaskResumeAll(t) ==
  /\ suspender = t /\ pc[t] \in {"resume", "held"}
  /\ xStateList' = [u \in Task |-> IF IsPending(u) THEN "ready" ELSE xStateList[u]]
  /\ parked' = [u \in Task |-> parked[u] /\ ~IsPending(u)]
  /\ xPendingReadyList' = {}
  /\ suspender' = NoTask
  /\ Goto(t, IF pc[t] = "held" THEN "app" ELSE "collect")
  /\ UNCHANGED << slots, call, target >>

Return(t) ==
  /\ Goto(t, "app")
  /\ call' = [call EXCEPT ![t] = NoCall]
  /\ SetState(t, "notWaiting")

\* The second critical section: a count is taken off, or all of it.
CollectTake(t) ==
  /\ At(t, "collect") /\ call[t].op = "take"
  /\ SetValue(t, IF Value(t) = 0 \/ call[t].clear # 0 THEN 0 ELSE Value(t) - 1)
  /\ Return(t)
  /\ UNCHANGED << lists, target, suspender >>

\* ... or bits, if a notification was received.
CollectWait(t) ==
  /\ At(t, "collect") /\ call[t].op = "wait"
  /\ SetValue(t, IF State(t) = "received" THEN Without(Value(t), call[t].clear)
                 ELSE Value(t))
  /\ Return(t)
  /\ UNCHANGED << lists, target, suspender >>
-----------------------------------------------------------------------------
\* Notifying.

NewValue(t, i, eAction, v) ==
  LET old == ulNotifiedValue[t][i]
  IN CASE eAction = "eIncrement" -> old + 1
       [] eAction = "eSetBits" -> Or(old, v)
       [] eAction = "eSetValueWithOverwrite" -> v
       [] eAction = "eSetValueWithoutOverwrite" ->
            IF ucNotifyState[t][i] # "received" THEN v ELSE old
       [] eAction = "eNoAction" -> old

Notified(t, i, eAction, v) ==
  /\ LET value == NewValue(t, i, eAction, v)
     IN /\ value <= MaxValue
        /\ ulNotifiedValue' = [ulNotifiedValue EXCEPT ![t][i] = value]
  /\ ucNotifyState' = [ucNotifyState EXCEPT ![t][i] = "received"]

xTaskGenericNotify(u, t, i, eAction, v) ==
  /\ MayCall(u)
  /\ Notified(t, i, eAction, v)
  /\ IF ucNotifyState[t][i] = "waiting" THEN MakeReady(t)
     ELSE UNCHANGED << xStateList, parked >>
  /\ UNCHANGED << xPendingReadyList, calls, suspender >>

\* Fault: the task is moved at once, although the scheduler is suspended and
\* may be about to block it.
F_ReadyAtOnce(t) == MakeReady(t) /\ UNCHANGED xPendingReadyList

\* An interrupt leaves the lists alone while the scheduler is suspended.
ReadyFromISR(t) ==
  IF suspender = NoTask THEN MakeReady(t) /\ UNCHANGED xPendingReadyList
  ELSE /\ xPendingReadyList' = xPendingReadyList \cup {t}
       /\ UNCHANGED << xStateList, parked >>

xTaskGenericNotifyFromISR(t, i, eAction, v) ==
  /\ Notified(t, i, eAction, v)
  /\ IF ucNotifyState[t][i] = "waiting" THEN ReadyFromISR(t) ELSE UNCHANGED lists
  /\ UNCHANGED << calls, suspender >>

\* The same for a count, in less code.
vTaskGenericNotifyGiveFromISR(t, i) == xTaskGenericNotifyFromISR(t, i, "eIncrement", 0)

xTaskGenericNotifyStateClear(u, t, i) ==
  /\ MayCall(u) /\ ucNotifyState[t][i] = "received"
  /\ ucNotifyState' = [ucNotifyState EXCEPT ![t][i] = "notWaiting"]
  /\ UNCHANGED << ulNotifiedValue, lists, calls, suspender >>

ulTaskGenericNotifyValueClear(u, t, i, ulBitsToClear) ==
  /\ MayCall(u)
  /\ ulNotifiedValue' = [ulNotifiedValue EXCEPT ![t][i] = Without(@, ulBitsToClear)]
  /\ UNCHANGED << ucNotifyState, lists, calls, suspender >>
-----------------------------------------------------------------------------
\* What else moves a waiting task.

WaitsAtAll(t) == \E i \in Index : ucNotifyState[t][i] = "waiting"

\* The block time ends.
Expire(t) ==
  /\ suspender = NoTask /\ xStateList[t] = "delayed"
  /\ MakeReady(t)
  /\ UNCHANGED << xPendingReadyList, slots, calls, suspender >>

\* eTaskGetState = eBlocked
IsBlocked(t) ==
  /\ t \notin xPendingReadyList
  /\ \/ xStateList[t] = "delayed"
     \/ xStateList[t] = "suspended" /\ WaitsAtAll(t)

\* xTaskAbortDelay tests the state in one critical section ...
AbortCheck(u, t) ==
  /\ MayCall(u) /\ IsBlocked(t)
  /\ suspender' = u
  /\ Goto(u, "abort")
  /\ target' = [target EXCEPT ![u] = t]
  /\ UNCHANGED << lists, slots, call >>

\* ... and takes both items off their lists in another.
AbortRemove(u) ==
  /\ At(u, "abort")
  /\ MakeReady(target[u])
  /\ xPendingReadyList' = xPendingReadyList \ {target[u]}
  /\ Goto(u, "held")
  /\ target' = [target EXCEPT ![u] = NoTask]
  /\ UNCHANGED << slots, call, suspender >>

\* A suspended task waits for nothing any more.
vTaskSuspend(u, t) ==
  /\ MayCall(u) /\ (t = u => pc[u] = "app")
  /\ xStateList' = [xStateList EXCEPT ![t] = "suspended"]
  /\ xPendingReadyList' = xPendingReadyList \ {t}
  /\ ucNotifyState' = [ucNotifyState EXCEPT ![t] =
       [i \in Index |-> IF @[i] = "waiting" THEN "notWaiting" ELSE @[i]]]
  /\ parked' = [parked EXCEPT ![t] = TRUE]
  /\ UNCHANGED << ulNotifiedValue, calls, suspender >>

\* The list is also that of the tasks blocked without an end.
prvTaskIsTaskSuspended(t) ==
  /\ xStateList[t] = "suspended" /\ t \notin xPendingReadyList
  /\ ~WaitsAtAll(t)

vTaskResume(u, t) ==
  /\ MayCall(u) /\ prvTaskIsTaskSuspended(t)
  /\ MakeReady(t)
  /\ UNCHANGED << xPendingReadyList, slots, calls, suspender >>

xTaskResumeFromISR(t) ==
  /\ prvTaskIsTaskSuspended(t)
  /\ ReadyFromISR(t)
  /\ UNCHANGED << slots, calls, suspender >>

\* The application suspends the scheduler.
vTaskSuspendAll(t) ==
  /\ At(t, "app")
  /\ suspender' = t
  /\ Goto(t, "held")
  /\ UNCHANGED << lists, slots, call, target >>
-----------------------------------------------------------------------------
Continue(t) ==
  \/ TestTake(t) \/ Block(t) \/ CollectTake(t) \/ CollectWait(t)
  \/ \E mask \in {0, MaxValue} : TestWait(t, mask)
  \/ xTaskResumeAll(t) \/ AbortRemove(t)

Notifies(u) ==
  \E t \in Task, i \in Index :
    \/ \E a \in Actions, v \in 0..MaxValue : xTaskGenericNotify(u, t, i, a, v)
    \/ xTaskGenericNotifyStateClear(u, t, i)
    \/ ulTaskGenericNotifyValueClear(u, t, i, MaxValue)

Interrupt ==
  \E t \in Task :
    \/ \E i \in Index, a \in Actions \ {"eIncrement"}, v \in 0..MaxValue :
         xTaskGenericNotifyFromISR(t, i, a, v)
    \/ \E i \in Index : vTaskGenericNotifyGiveFromISR(t, i)
    \/ xTaskResumeFromISR(t) \/ Expire(t)

Next ==
  \/ \E t \in Task :
       \/ Continue(t) \/ Notifies(t) \/ vTaskSuspendAll(t)
       \/ \E c \in WaitCalls : Call(t, c)
       \/ \E v \in Task : AbortCheck(t, v) \/ vTaskSuspend(t, v) \/ vTaskResume(t, v)
  \/ Interrupt

Spec == Init /\ [][Next]_vars
-----------------------------------------------------------------------------
TypeOK ==
  /\ xStateList \in [Task -> {"ready", "delayed", "suspended"}]
  /\ xPendingReadyList \subseteq Task
  /\ suspender \in Task \cup {NoTask}
  /\ ulNotifiedValue \in [Task -> [Index -> 0..MaxValue]]
  /\ ucNotifyState \in [Task -> [Index -> {"notWaiting", "waiting", "received"}]]
  /\ pc \in [Task -> {"app", "test", "block", "resume", "collect", "held", "abort"}]
  /\ parked \in [Task -> BOOLEAN]

\* t is blocked in a wait, and not merely suspended in it.
BlockedInWait(t) == pc[t] = "collect" /\ xStateList[t] # "ready" /\ ~parked[t]

\* No notification is lost: a task that is blocked in a wait has not been
\* notified since it looked, unless xTaskResumeAll is about to wake it.  The
\* interrupt may come between its test and its block, or while the notified
\* task is aborted, suspended or resumed by another that holds the scheduler.
NotifiedIsWoken ==
  \A t \in Task : BlockedInWait(t) =>
    \/ State(t) = "waiting"
    \/ t \in xPendingReadyList /\ suspender # NoTask

\* vTaskResume tells tasks that were suspended from those that wait without an
\* end in the same list: it wakes all of the first and none of the second.
ResumesOnlySuspended ==
  \A t \in Task : xStateList[t] = "suspended" /\ t \notin xPendingReadyList =>
    (prvTaskIsTaskSuspended(t) <=> parked[t])
=============================================================================
