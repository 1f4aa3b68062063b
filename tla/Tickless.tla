------------------------------ MODULE Tickless ------------------------------
(* The tickless idle task (configUSE_TICKLESS_IDLE): it suspends the         *)
(* scheduler, stops the tick and sleeps until the next task is to be woken,  *)
(* and then steps the tick count by what it slept.  An interrupt may come    *)
(* before every step.  Tasks of one priority above the idle task wait with   *)
(* and without a time; which events they wait for is left out: an interrupt  *)
(* may ready any of them.  What the port does (portSUPPRESS_TICKS_AND_SLEEP) *)
(* is as its callees in the kernel require.                                  *)
EXTENDS Integers, FiniteSets, FiniteSetsExt

CONSTANTS
  Task,
  TickMod,                          \* the tick count wraps at this value
  Delays,
  MaxPended,                        \* ticks while the scheduler is suspended
  configEXPECTED_IDLE_TIME_BEFORE_SLEEP

portMAX_DELAY == TickMod - 1
Mod(n) == n % TickMod

VARIABLES
  xTickCount, xNextTaskUnblockTime, xPendedTicks, xYieldPending,
  ready,                            \* the tasks in a ready list
  pended,                           \* the tasks in xPendingReadyList
  delayedUntil,                     \* the state list and the wake time of a blocked task
  idleRuns,                         \* pxCurrentTCB is the idle task
  idlePc, xExpectedIdleTime, slept,
  remaining                         \* ticks until the delay of a task has passed

clock == << xTickCount, xNextTaskUnblockTime, xPendedTicks, remaining >>
lists == << ready, pended, delayedUntil >>
idle == << idlePc, xExpectedIdleTime, slept >>
vars == << clock, xYieldPending, lists, idleRuns, idle >>

None == [in |-> "none", at |-> 0]
In(list) == {t \in Task : delayedUntil[t].in = list}

Init ==
  /\ xTickCount = 0 /\ xNextTaskUnblockTime = portMAX_DELAY /\ xPendedTicks = 0
  /\ remaining = [t \in Task |-> 0]
  /\ xYieldPending = FALSE
  /\ ready = Task /\ pended = {} /\ delayedUntil = [t \in Task |-> None]
  /\ idleRuns = FALSE
  /\ idlePc = "loop" /\ xExpectedIdleTime = 0 /\ slept = 0

\* The idle task suspends the scheduler from its second look until it resumes.
Suspended == idlePc \in {"again", "suppress", "asleep", "unlimited", "awake"}

\* prvResetNextTaskUnblockTime: the wake time at the head of the current list.
NextUnblock(until) ==
  LET times == {until[t].at : t \in {t \in Task : until[t].in = "current"}}
  IN IF times = {} THEN portMAX_DELAY ELSE Min(times)

Readied(until, woken) == [t \in Task |-> IF t \in woken THEN None ELSE until[t]]

\* The lists switch when the count wraps.
Switched(until) ==
  [t \in Task |-> IF until[t].in = "overflow" THEN [until[t] EXCEPT !.in = "current"]
                  ELSE until[t]]

\* xTaskIncrementTick on the count, the delayed lists and the next time.
Ticked(k) ==
  LET count == Mod(k.count + 1)
      until == IF count = 0 THEN Switched(k.until) ELSE k.until
      next == IF count = 0 THEN NextUnblock(until) ELSE k.next
      due == IF count >= next
             THEN {t \in Task : until[t].in = "current" /\ until[t].at <= count} ELSE {}
      left == Readied(until, due)
  IN [count |-> count, until |-> left,
      next |-> IF count >= next THEN NextUnblock(left) ELSE next]

Kernel == [count |-> xTickCount, until |-> delayedUntil, next |-> xNextTaskUnblockTime]

Blocked(until) == {t \in Task : until[t] # None}

\* What Ticked or a resume made of the kernel; the tasks it readied preempt the
\* idle task.
Becomes(k) ==
  /\ xTickCount' = k.count /\ xNextTaskUnblockTime' = k.next /\ delayedUntil' = k.until
  /\ ready' = ready \cup (Blocked(delayedUntil) \ Blocked(k.until))

\* Time passes for every task that delays.
TimePasses ==
  remaining' = [t \in Task |-> IF delayedUntil[t].in \in {"current", "overflow"}
                               THEN remaining[t] - 1 ELSE remaining[t]]

\* vTaskSwitchContext, which is put off while the scheduler is suspended.
vTaskSwitchContext ==
  /\ xYieldPending /\ ~Suspended
  /\ idleRuns' = (ready = {}) /\ xYieldPending' = FALSE
  /\ UNCHANGED << clock, lists, idle >>

\* The tick interrupt, which switches at once where a switch is due.
xTaskIncrementTick ==
  /\ idlePc \notin {"asleep", "unlimited"}
  /\ TimePasses
  /\ IF Suspended
     THEN /\ xPendedTicks < MaxPended
          /\ xPendedTicks' = xPendedTicks + 1
          /\ UNCHANGED << xTickCount, xNextTaskUnblockTime, lists, idleRuns, xYieldPending >>
     ELSE /\ Becomes(Ticked(Kernel))
          /\ idleRuns' = (idleRuns /\ ready' = {}) /\ xYieldPending' = FALSE
          /\ UNCHANGED << pended, xPendedTicks >>
  /\ UNCHANGED idle

\* An interrupt readies a task; it may leave the switch to the next tick.
xTaskRemoveFromEventList(t) ==
  /\ t \in Blocked(delayedUntil) \ pended
  /\ idlePc \notin {"asleep", "unlimited"}
  /\ xYieldPending' = (xYieldPending \/ idleRuns)
  /\ IF Suspended
     THEN /\ pended' = pended \cup {t}
          /\ UNCHANGED << ready, delayedUntil, xNextTaskUnblockTime >>
     ELSE /\ ready' = ready \cup {t}
          /\ delayedUntil' = Readied(delayedUntil, {t})
          /\ xNextTaskUnblockTime' = NextUnblock(delayedUntil')
          /\ UNCHANGED pended
  /\ UNCHANGED << xTickCount, xPendedTicks, remaining, idleRuns, idle >>

\* prvAddCurrentTaskToDelayedList, and the switch to the next task.
Blocks(t, where, at) ==
  /\ ~idleRuns /\ t \in ready
  /\ ready' = ready \ {t}
  /\ delayedUntil' = [delayedUntil EXCEPT ![t] = [in |-> where, at |-> at]]
  /\ idleRuns' = (ready' = {}) /\ xYieldPending' = FALSE
  /\ UNCHANGED << xTickCount, xPendedTicks, pended, idle >>

vTaskDelay(t, ticks) ==
  LET at == Mod(xTickCount + ticks)
      where == IF at < xTickCount THEN "overflow" ELSE "current"
  IN /\ Blocks(t, where, at)
     /\ xNextTaskUnblockTime' = IF where = "current" /\ at < xNextTaskUnblockTime
                                THEN at ELSE xNextTaskUnblockTime
     /\ remaining' = [remaining EXCEPT ![t] = ticks]

WaitsForever(t) ==
  Blocks(t, "suspended", 0) /\ UNCHANGED << xNextTaskUnblockTime, remaining >>
-----------------------------------------------------------------------------
(* The idle task.                                                           *)

Idles(at) == idleRuns /\ idlePc = at

Goes(to) ==
  idlePc' = to /\ UNCHANGED << clock, xYieldPending, lists, idleRuns >>

prvGetExpectedIdleTime ==
  IF ready # {} THEN 0 ELSE Mod(xNextTaskUnblockTime - xTickCount)

Suffices(time) == time >= configEXPECTED_IDLE_TIME_BEFORE_SLEEP

\* The first look is taken without a lock.
prvIdleTask ==
  /\ Idles("loop")
  /\ Suffices(prvGetExpectedIdleTime)
  /\ Goes("again") /\ UNCHANGED << xExpectedIdleTime, slept >>

LooksAgain ==
  /\ Idles("again")
  /\ xExpectedIdleTime' = prvGetExpectedIdleTime
  /\ Goes(IF Suffices(xExpectedIdleTime') THEN "suppress" ELSE "awake")
  /\ UNCHANGED slept

\* The port calls this with interrupts disabled and the tick stopped.
eTaskConfirmSleepModeStatus ==
  IF pended # {} \/ xYieldPending \/ xPendedTicks # 0 THEN "eAbortSleep"
  ELSE IF In("suspended") = Task THEN "eNoTasksWaitingTimeout" ELSE "eStandardSleep"

Suppress ==
  /\ Idles("suppress")
  /\ Goes(CASE eTaskConfirmSleepModeStatus = "eAbortSleep" -> "awake"
            [] eTaskConfirmSleepModeStatus = "eStandardSleep" -> "asleep"
            [] OTHER -> "unlimited")
  /\ UNCHANGED << xExpectedIdleTime, slept >>

\* A tick that the timer of the port counts and no interrupt.
Sleeps ==
  /\ Idles("asleep") /\ slept < xExpectedIdleTime
  /\ slept' = slept + 1
  /\ TimePasses
  /\ UNCHANGED << xTickCount, xNextTaskUnblockTime, xPendedTicks, xYieldPending,
                  lists, idleRuns, idlePc, xExpectedIdleTime >>

\* Fault: the count is stepped past the wake time.
F_StepsOver(ticks) ==
  xTickCount' = Mod(xTickCount + ticks) /\ UNCHANGED xPendedTicks

\* The tick that is to wake a task is left to xTaskResumeAll.
vTaskStepTick(ticks) ==
  IF xTickCount + ticks = xNextTaskUnblockTime
  THEN xTickCount' = xTickCount + ticks - 1 /\ xPendedTicks' = xPendedTicks + 1
  ELSE xTickCount' = xTickCount + ticks /\ UNCHANGED xPendedTicks

\* The sleep is over, or another interrupt ended it.
Wakes ==
  /\ Idles("asleep")
  /\ IF slept = 0 THEN UNCHANGED << xTickCount, xPendedTicks >> ELSE vTaskStepTick(slept)
  /\ idlePc' = "awake" /\ slept' = 0
  /\ UNCHANGED << xNextTaskUnblockTime, remaining, xYieldPending, lists, idleRuns,
                  xExpectedIdleTime >>

\* Only an interrupt ends a sleep without a limit.
WokenByInterrupt ==
  /\ Idles("unlimited")
  /\ Goes("awake") /\ UNCHANGED << xExpectedIdleTime, slept >>

\* Tasks that interrupts readied first, then the ticks.
xTaskResumeAll ==
  LET moved == [Kernel EXCEPT !.until = Readied(delayedUntil, pended)]
      reset == [moved EXCEPT !.next = IF pended = {} THEN @ ELSE NextUnblock(moved.until)]
      after[n \in 0 .. MaxPended + 1] == IF n = 0 THEN reset ELSE Ticked(after[n - 1])
  IN /\ Idles("awake")
     /\ Becomes(after[xPendedTicks])
     /\ pended' = {} /\ xPendedTicks' = 0
     /\ idleRuns' = (ready' = {}) /\ xYieldPending' = FALSE
     /\ idlePc' = "loop" /\ xExpectedIdleTime' = 0
     /\ UNCHANGED << remaining, slept >>

Next ==
  \/ vTaskSwitchContext \/ xTaskIncrementTick
  \/ \E t \in Task :
       \/ xTaskRemoveFromEventList(t) \/ WaitsForever(t)
       \/ \E d \in Delays : vTaskDelay(t, d)
  \/ prvIdleTask \/ LooksAgain \/ Suppress \/ Sleeps \/ Wakes \/ WokenByInterrupt
  \/ xTaskResumeAll

Spec == Init /\ [][Next]_vars
-----------------------------------------------------------------------------
\* Nobody oversleeps, although the ticks stop: whatever an interrupt did in
\* between, a task whose delay has passed is awake as soon as the scheduler is
\* not suspended, and no delay is cut short by the step of the count; the
\* processor sleeps only with nobody to run, and without a limit only if nobody
\* delays.  The assertions of prvIdleTask and vTaskStepTick hold.
NoneOversleeps ==
  /\ ~Suspended => \A t \in In("current") \cup In("overflow") :
       /\ remaining[t] > 0
       /\ Mod(delayedUntil[t].at - xTickCount) = Mod(remaining[t])
  /\ idlePc \in {"asleep", "unlimited"} => ready = {} /\ pended = {}
  /\ idlePc = "unlimited" => In("current") \cup In("overflow") = {}
  /\ idlePc = "asleep" => \A t \in In("current") \cup In("overflow") : remaining[t] >= 0
  /\ Suspended => xNextTaskUnblockTime >= xTickCount + slept
=============================================================================
