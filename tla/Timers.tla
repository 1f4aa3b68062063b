------------------------------- MODULE Timers -------------------------------
(***************************************************************************)
(* Software timers (timers.c).                                             *)
(*                                                                         *)
(* Tasks and interrupts send commands to the timer service task through a  *)
(* queue, with the tick of the request.  That task alone holds the active  *)
(* timers, in the order of their expiry times: those of this turn of the   *)
(* tick count in the current list, those of the next turn in the overflow  *)
(* list.  It sleeps until the first is due, and ticks pass at any step of  *)
(* its loop, so that it samples the time late and handles commands late.   *)
(***************************************************************************)
EXTENDS Integers, SequencesExt

CONSTANTS
  Timer, NoTimer,
  Periods,                     \* the periods timers are created with or given
  TickMod,                     \* TickType_t counts modulo TickMod
  configTIMER_QUEUE_LENGTH,
  MaxLag                       \* bound: ticks that the service task is kept waiting

tmrMAX_TIME_BEFORE_OVERFLOW == TickMod - 1
Tick == 0..(TickMod - 1)
VARIABLES
  xTickCount,
  xTimerQueue,
  pxCurrentTimerList, pxOverflowTimerList,   \* items: a timer and its expiry time
  xLastTime,
  xTimerPeriodInTicks, autoReload, active,   \* of each timer
  pc,                          \* of prvTimerTask
  xMessage,                    \* the command it handles
  xTimeNow,                    \* the tick by which the head of the list has expired
  wakeTime,                    \* the tick it sleeps to
  deleted,                     \* timers that the application no longer uses
  due,                         \* history: ticks until the next expiry is due
  lag                          \* history: ticks since prvTimerTask could run

timers == << xTimerPeriodInTicks, autoReload, active, due, pxCurrentTimerList,
             pxOverflowTimerList >>
service == << pc, xTimeNow, xMessage, xLastTime, wakeTime >>
vars == << xTickCount, xTimerQueue, timers, service, deleted, lag >>

Forever == TickMod
NoMessage == [id |-> "none", value |-> 0, timer |-> NoTimer]

Init ==
  /\ xTickCount = 0 /\ xLastTime = 0
  /\ xTimerQueue = << >>
  /\ pxCurrentTimerList = << >> /\ pxOverflowTimerList = << >>
  /\ xTimerPeriodInTicks \in [Timer -> Periods]
  /\ autoReload \in [Timer -> BOOLEAN]
  /\ active = [t \in Timer |-> FALSE]
  /\ due = [t \in Timer |-> 0]
  /\ pc = "loop" /\ wakeTime = Forever /\ xTimeNow = 0
  /\ xMessage = NoMessage
  /\ deleted = {} /\ lag = 0
-----------------------------------------------------------------------------
(* The lists: what the steps of the service task do to them is computed on  *)
(* a record of them and of the timers in them.                              *)

Mod(n) == n % TickMod

State ==
  [current |-> pxCurrentTimerList, overflow |-> pxOverflowTimerList,
   active |-> active, due |-> due, period |-> xTimerPeriodInTicks]

Becomes(s) ==
  /\ pxCurrentTimerList' = s.current /\ pxOverflowTimerList' = s.overflow
  /\ active' = s.active /\ due' = s.due /\ xTimerPeriodInTicks' = s.period

\* vListInsert: behind the items of the same value.
vListInsert(list, item) ==
  LET later == {i \in 1..Len(list) : list[i].xItemValue > item.xItemValue}
  IN InsertAt(list, IF later = {} THEN Len(list) + 1 ELSE Min(later), item)

\* uxListRemove
Without(list, t) ==
  LET places == {i \in 1..Len(list) : list[i].timer = t}
  IN IF places = {} THEN list ELSE RemoveAt(list, Min(places))

\* From the list the timer is in.
Unlisted(s, t) ==
  [s EXCEPT !.current = Without(@, t), !.overflow = Without(@, t)]

\* A callback: the next expiry is due a period after the one that it is for.
Called(s, t) == [s EXCEPT !.due[t] = @ + s.period[t]]

\* prvInsertTimerInActiveList: the expiry time was passed between the command
\* and now, and the timer is not inserted.
AlreadyPassed(t, s, next, now, command) ==
  IF next <= now THEN Mod(now - command) >= s.period[t]
  ELSE now < command /\ next >= command

\* prvInsertTimerInActiveList, where the timer is inserted.
Inserted(t, s, next, now) ==
  LET item == [timer |-> t, xItemValue |-> next]
  IN IF next <= now THEN [s EXCEPT !.overflow = vListInsert(@, item)]
     ELSE [s EXCEPT !.current = vListInsert(@, item)]

\* prvReloadTimer: a call for every further period that has passed.
prvReloadTimer(t, s, expired, now) ==
  LET At(k) == Mod(expired + k * s.period[t])
      Passes(k) == AlreadyPassed(t, s, At(k + 1), now, At(k))
      n == CHOOSE n \in 0..TickMod : ~Passes(n) /\ \A k \in 0..(n - 1) : Passes(k)
  IN Inserted(t, [s EXCEPT !.due[t] = @ + n * s.period[t]], At(n + 1), now)

\* What follows an expiry: the timer is loaded again or rests, and is called.
Expires(t, s, expired, now) ==
  Called(IF autoReload[t] THEN prvReloadTimer(t, s, expired, now)
         ELSE [s EXCEPT !.active[t] = FALSE], t)

prvProcessExpiredTimer(s, now) ==
  LET i == Head(s.current)
  IN Expires(i.timer, [s EXCEPT !.current = Tail(@)], i.xItemValue, now)

\* prvSwitchTimerLists: the count has wrapped, all in the current list expire.
prvSwitchTimerLists(s) ==
  LET after[n \in 0..Len(s.current)] ==
        IF n = 0 THEN s ELSE prvProcessExpiredTimer(after[n - 1], tmrMAX_TIME_BEFORE_OVERFLOW)
      e == after[Len(s.current)]
  IN [e EXCEPT !.current = e.overflow, !.overflow = e.current]

\* prvSampleTimeNow finds that the count has wrapped.
ListsSwitch == xTickCount < xLastTime

Sampled(s) == IF ListsSwitch THEN prvSwitchTimerLists(s) ELSE s
-----------------------------------------------------------------------------
(* The service task.                                                        *)

\* prvGetNextExpireTime, and the tick the service task may sleep to, that of
\* the wrap if all its timers are of the next turn.
NextExpireTime ==
  IF pxCurrentTimerList # << >> THEN Head(pxCurrentTimerList).xItemValue
  ELSE IF pxOverflowTimerList # << >> THEN 0 ELSE Forever

\* prvProcessTimerOrBlockTask: with the scheduler suspended no tick passes, and
\* nobody else changes the lists.
prvProcessTimerOrBlockTask ==
  /\ pc = "loop"
  /\ xLastTime' = xTickCount /\ lag' = 0
  /\ Becomes(Sampled(State))
  /\ IF ListsSwitch THEN pc' = "receive" /\ UNCHANGED << xTimeNow, wakeTime >>
     ELSE IF pxCurrentTimerList # << >> /\ NextExpireTime <= xTickCount
     THEN pc' = "expired" /\ xTimeNow' = xTickCount /\ UNCHANGED wakeTime
     ELSE /\ UNCHANGED xTimeNow
          /\ IF xTimerQueue = << >>      \* vQueueWaitForMessageRestricted
             THEN pc' = "blocked" /\ wakeTime' = NextExpireTime
             ELSE pc' = "receive" /\ UNCHANGED wakeTime
  /\ UNCHANGED << xTickCount, xTimerQueue, autoReload, xMessage, deleted >>

ProcessExpired ==
  /\ pc = "expired"
  /\ Becomes(prvProcessExpiredTimer(State, xTimeNow))
  /\ pc' = "receive" /\ xTimeNow' = 0
  /\ UNCHANGED << xTickCount, xTimerQueue, autoReload, xMessage, xLastTime,
                  wakeTime, deleted, lag >>

\* prvProcessReceivedCommands: a message is received, a pended function called,
\* the timer of a command taken out of its list.
Receive ==
  /\ pc = "receive" /\ xTimerQueue # << >>
  /\ LET m == Head(xTimerQueue)
     IN IF m.id = "function" THEN UNCHANGED << pc, xMessage, timers >>
        ELSE /\ Becomes(Unlisted(State, m.timer))
             /\ xMessage' = m /\ pc' = "command"
             /\ UNCHANGED autoReload
  /\ xTimerQueue' = Tail(xTimerQueue)
  /\ UNCHANGED << xTickCount, xTimeNow, xLastTime, wakeTime, deleted, lag >>

NoneReceived ==
  /\ pc = "receive" /\ xTimerQueue = << >>
  /\ pc' = "loop"
  /\ UNCHANGED << xTickCount, xTimerQueue, timers, xTimeNow, xMessage, xLastTime,
                  wakeTime, deleted, lag >>

\* Fault: the period runs from the time the command is handled.
F_RunsFromNow == xTickCount

\* A start counts from the tick of its request.
CommandTime == xMessage.value

\* tmrCOMMAND_START, tmrCOMMAND_RESET
Start(t, s) ==
  LET begun == [s EXCEPT !.active[t] = TRUE,
                         !.due[t] = s.period[t] - Mod(xTickCount - xMessage.value)]
      next == Mod(CommandTime + s.period[t])
  IN IF AlreadyPassed(t, begun, next, xTickCount, CommandTime)
     THEN Expires(t, begun, next, xTickCount)
     ELSE Inserted(t, begun, next, xTickCount)

\* tmrCOMMAND_CHANGE_PERIOD
ChangePeriod(t, s) ==
  LET p == xMessage.value
      begun == [s EXCEPT !.active[t] = TRUE, !.period[t] = p, !.due[t] = p]
      next == Mod(xTickCount + p)
  IN IF AlreadyPassed(t, begun, next, xTickCount, xTickCount) THEN begun
     ELSE Inserted(t, begun, next, xTickCount)

\* prvProcessReceivedCommands: the time is sampled after the command was
\* received, so that it is not before the time of the command.
ProcessCommand ==
  /\ pc = "command"
  /\ xLastTime' = xTickCount
  /\ LET t == xMessage.timer
         s == Sampled(State)
     IN Becomes(CASE xMessage.id = "start" -> Start(t, s)
                  [] xMessage.id = "changePeriod" -> ChangePeriod(t, s)
                  [] OTHER -> [s EXCEPT !.active[t] = FALSE])
  /\ pc' = "receive" /\ xMessage' = NoMessage
  /\ UNCHANGED << xTickCount, xTimerQueue, autoReload, xTimeNow, wakeTime, deleted,
                  lag >>
-----------------------------------------------------------------------------
(* Tasks and interrupts.                                                    *)

\* A message that finds room in the queue wakes the service task.
Send(id, value, t) ==
  /\ Len(xTimerQueue) < configTIMER_QUEUE_LENGTH
  /\ xTimerQueue' = Append(xTimerQueue, [id |-> id, value |-> value, timer |-> t])
  /\ IF pc = "blocked" THEN pc' = "receive" /\ wakeTime' = Forever
     ELSE UNCHANGED << pc, wakeTime >>
  /\ UNCHANGED << xTickCount, timers, xTimeNow, xMessage, xLastTime, lag >>

xTimerStart(t) == t \notin deleted /\ Send("start", xTickCount, t) /\ UNCHANGED deleted
xTimerStop(t) == t \notin deleted /\ Send("stop", 0, t) /\ UNCHANGED deleted
xTimerChangePeriod(t, p) ==
  t \notin deleted /\ Send("changePeriod", p, t) /\ UNCHANGED deleted
xTimerDelete(t) ==
  t \notin deleted /\ Send("delete", 0, t) /\ deleted' = deleted \cup {t}
xTimerPendFunctionCall == Send("function", 0, NoTimer) /\ UNCHANGED deleted

\* xTimerCreate, in the memory of a timer that was deleted.
xTimerCreate(t, p, reload) ==
  /\ t \in deleted
  /\ xMessage.timer # t /\ \A i \in 1..Len(xTimerQueue) : xTimerQueue[i].timer # t
  /\ deleted' = deleted \ {t}
  /\ xTimerPeriodInTicks' = [xTimerPeriodInTicks EXCEPT ![t] = p]
  /\ autoReload' = [autoReload EXCEPT ![t] = reload]
  /\ active' = [active EXCEPT ![t] = FALSE]
  /\ due' = [due EXCEPT ![t] = 0]
  /\ UNCHANGED << xTickCount, xTimerQueue, pxCurrentTimerList, pxOverflowTimerList,
                  service, lag >>

vTimerSetReloadMode(t, reload) ==
  /\ t \notin deleted
  /\ autoReload' = [autoReload EXCEPT ![t] = reload]
  /\ UNCHANGED << xTickCount, xTimerQueue, xTimerPeriodInTicks, active, due,
                  pxCurrentTimerList, pxOverflowTimerList, service, deleted, lag >>

xTaskIncrementTick ==
  /\ pc # "blocked" => lag < MaxLag
  /\ xTickCount' = Mod(xTickCount + 1)
  /\ due' = [t \in Timer |-> IF active[t] THEN due[t] - 1 ELSE 0]
  /\ IF pc = "blocked"
     THEN /\ IF wakeTime \in {xTickCount, xTickCount'}
             THEN pc' = "receive" /\ wakeTime' = Forever
             ELSE UNCHANGED << pc, wakeTime >>
          /\ UNCHANGED lag
     ELSE lag' = lag + 1 /\ UNCHANGED << pc, wakeTime >>
  /\ UNCHANGED << xTimerQueue, xTimerPeriodInTicks, autoReload, active,
                  pxCurrentTimerList, pxOverflowTimerList, xTimeNow, xMessage,
                  xLastTime, deleted >>

Service ==
  \/ prvProcessTimerOrBlockTask \/ ProcessExpired
  \/ Receive \/ NoneReceived \/ ProcessCommand

Application ==
  \/ \E t \in Timer :
       \/ xTimerStart(t) \/ xTimerStop(t) \/ xTimerDelete(t)
       \/ \E p \in Periods : xTimerChangePeriod(t, p)
       \/ \E p \in Periods, reload \in BOOLEAN : xTimerCreate(t, p, reload)
       \/ \E reload \in BOOLEAN : vTimerSetReloadMode(t, reload)
  \/ xTimerPendFunctionCall

Next == Service \/ Application \/ xTaskIncrementTick

Spec == Init /\ [][Next]_vars
-----------------------------------------------------------------------------
Items == ToSet(pxCurrentTimerList) \cup ToSet(pxOverflowTimerList)

Sorted(list) ==
  \A i, j \in 1..Len(list) :
    i < j => /\ list[i].timer # list[j].timer
             /\ list[i].xItemValue <= list[j].xItemValue

TypeOK ==
  /\ xTickCount \in Tick /\ xLastTime \in Tick /\ xTimeNow \in Tick
  /\ wakeTime \in Tick \cup {Forever}
  /\ pc \in {"loop", "blocked", "expired", "receive", "command"}
  /\ deleted \subseteq Timer /\ lag \in 0..MaxLag
  /\ xTimerPeriodInTicks \in [Timer -> Periods]
  /\ autoReload \in [Timer -> BOOLEAN] /\ active \in [Timer -> BOOLEAN]
  /\ due \in [Timer -> Int]
  /\ Items \subseteq [timer : Timer, xItemValue : Tick]
  /\ Len(xTimerQueue) <= configTIMER_QUEUE_LENGTH

\* A timer is active exactly if it is in one of the lists, which are sorted, or
\* a command for it is being handled, and it is there at the time it is due:
\* no wrap between a request, its handling and an expiry puts it elsewhere.
ListsAgree ==
  /\ Sorted(pxCurrentTimerList) /\ Sorted(pxOverflowTimerList)
  /\ \A t \in Timer :
       {i.xItemValue : i \in {j \in Items : j.timer = t}}
         = IF active[t] /\ xMessage.timer # t THEN {Mod(xTickCount + due[t])} ELSE {}

\* A timer is called no more often than its periods have passed since it was
\* started, and never before a period has: each call has its expiry.
NeverCalledEarly == \A t \in Timer : due[t] <= xTimerPeriodInTicks[t]

\* The service task does not sleep over an expiry: when it sleeps, every expiry
\* so far has had its call, whatever wrapped while commands waited.
AllExpiriesCalled == pc = "blocked" => \A t \in Timer : active[t] => due[t] > 0
=============================================================================
