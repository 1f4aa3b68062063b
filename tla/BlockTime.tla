------------------------------ MODULE BlockTime ------------------------------
(***************************************************************************)
(* Block times of tasks.c over a tick count that wraps.                    *)
(*                                                                         *)
(* A task makes blocking calls, in which it asks xTaskCheckForTimeOut      *)
(* again and again whether its block time is over, and periodic delays     *)
(* with xTaskDelayUntil.  Beside the values the code computes with stand   *)
(* the times that it means: left is what really remains of the block time  *)
(* and lag the time since the last periodic wake-up was due.               *)
(***************************************************************************)
EXTENDS Integers

CONSTANTS
  TickMod,             \* TickType_t counts modulo TickMod
  OverflowMod,         \* bound: xNumOfOverflows, which is only compared
  MaxUnchecked,        \* bound: ticks between two checks of a call
  Increments           \* periods that xTaskDelayUntil is called with

Tick == 0..(TickMod - 1)
portMAX_DELAY == TickMod - 1

ASSUME BlockTimeAssumption ==
  /\ TickMod \in Nat /\ TickMod >= 3
  /\ OverflowMod \in Nat /\ OverflowMod >= 3
  /\ MaxUnchecked \in 1..TickMod
  /\ Increments \subseteq Tick \ {0}

VARIABLES
  xTickCount, xNumOfOverflows,
  xOverflowCount, xTimeOnEntering,     \* the task's TimeOut_t
  xTicksToWait,
  xPreviousWakeTime,
  pc,            \* "app", in a blocking "call", or "delayed"
  verdict,       \* what the last check of the call said
  left,          \* history: ticks of the block time that are left
  unchecked,     \* history: ticks since the TimeOut_t was set
  lag            \* history: ticks since xPreviousWakeTime

clock == << xTickCount, xNumOfOverflows >>
timeOut == << xOverflowCount, xTimeOnEntering, xTicksToWait, verdict, left,
              unchecked >>
period == << xPreviousWakeTime, lag >>
vars == << clock, timeOut, period, pc >>

Init ==
  /\ xTickCount \in Tick /\ xNumOfOverflows = 0
  /\ xOverflowCount = 0 /\ xTimeOnEntering = 0 /\ xTicksToWait = 0
  /\ xPreviousWakeTime = xTickCount
  /\ pc = "app" /\ verdict = "none"
  /\ left = 0 /\ unchecked = 0 /\ lag = 0
-----------------------------------------------------------------------------
Mod(n) == n % TickMod

\* A delayed task becomes ready in the tick of its wake time.
xTaskIncrementTick ==
  /\ IF pc = "call" THEN unchecked < MaxUnchecked ELSE lag < TickMod - 1
  /\ xTickCount' = Mod(xTickCount + 1)
  /\ xNumOfOverflows' = IF xTickCount' = 0 THEN (xNumOfOverflows + 1) % OverflowMod
                        ELSE xNumOfOverflows
  /\ lag' = IF lag < TickMod - 1 THEN lag + 1 ELSE lag
  /\ unchecked' = IF pc = "call" THEN unchecked + 1 ELSE unchecked
  /\ left' = IF pc = "call" /\ xTicksToWait # portMAX_DELAY THEN left - 1 ELSE left
  /\ pc' = IF pc = "delayed" /\ xTickCount' = xPreviousWakeTime THEN "app" ELSE pc
  /\ UNCHANGED << xOverflowCount, xTimeOnEntering, xTicksToWait, verdict,
                  xPreviousWakeTime >>

\* vTaskInternalSetTimeOutState
SetTimeOutState ==
  /\ xOverflowCount' = xNumOfOverflows
  /\ xTimeOnEntering' = xTickCount
  /\ unchecked' = 0

\* A blocking call begins: vTaskSetTimeOutState.
Call(xBlockTime) ==
  /\ pc = "app"
  /\ SetTimeOutState
  /\ xTicksToWait' = xBlockTime
  /\ left' = xBlockTime
  /\ pc' = "call" /\ verdict' = "none"
  /\ UNCHANGED << clock, period >>

\* Fault: the count alone decides.
F_IgnoresOverflows == FALSE

\* The count has passed, after a wrap, the time on entering.
WentAllTheWay ==
  /\ xNumOfOverflows # xOverflowCount
  /\ xTickCount >= xTimeOnEntering

xTaskCheckForTimeOut ==
  /\ pc = "call" /\ verdict # "over"
  /\ LET xElapsedTime == Mod(xTickCount - xTimeOnEntering)
     IN IF xTicksToWait = portMAX_DELAY
        THEN /\ verdict' = "running"
             /\ UNCHANGED << xTicksToWait, xOverflowCount, xTimeOnEntering >>
             /\ unchecked' = 0
        ELSE IF ~WentAllTheWay /\ xElapsedTime < xTicksToWait
        THEN /\ verdict' = "running"
             /\ xTicksToWait' = xTicksToWait - xElapsedTime
             /\ SetTimeOutState
        ELSE /\ verdict' = "over"
             /\ xTicksToWait' = 0
             /\ UNCHANGED << xOverflowCount, xTimeOnEntering, unchecked >>
  /\ UNCHANGED << clock, left, period, pc >>

\* The call is served, or its time is over.  After a turn of the count in
\* calls an application begins its periods anew, for it cannot tell the turns.
Return ==
  /\ pc = "call"
  /\ pc' = "app" /\ verdict' = "none"
  /\ xTicksToWait' = 0 /\ left' = 0 /\ unchecked' = 0
  /\ IF lag < TickMod - 1 THEN UNCHANGED period
     ELSE xPreviousWakeTime' = xTickCount /\ lag' = 0
  /\ UNCHANGED << clock, xOverflowCount, xTimeOnEntering >>

\* xShouldDelay: the count may have wrapped since the last wake-up, the wake
\* time may be behind a wrap, and both may.
ShouldDelay(xTimeToWake) ==
  IF xTickCount < xPreviousWakeTime
  THEN xTimeToWake < xPreviousWakeTime /\ xTimeToWake > xTickCount
  ELSE xTimeToWake < xPreviousWakeTime \/ xTimeToWake > xTickCount

xTaskDelayUntil(xTimeIncrement) ==
  LET xTimeToWake == Mod(xPreviousWakeTime + xTimeIncrement)
  IN /\ pc = "app"
     /\ xPreviousWakeTime' = xTimeToWake
     /\ lag' = lag - xTimeIncrement
     /\ pc' = IF ShouldDelay(xTimeToWake) THEN "delayed" ELSE "app"
     /\ UNCHANGED << clock, timeOut >>

Next ==
  \/ xTaskIncrementTick
  \/ \E xBlockTime \in Tick \ {0} : Call(xBlockTime)
  \/ xTaskCheckForTimeOut \/ Return
  \/ \E xTimeIncrement \in Increments : xTaskDelayUntil(xTimeIncrement)

Spec == Init /\ [][Next]_vars
-----------------------------------------------------------------------------
TypeOK ==
  /\ xTickCount \in Tick /\ xNumOfOverflows \in 0..(OverflowMod - 1)
  /\ xOverflowCount \in 0..(OverflowMod - 1) /\ xTimeOnEntering \in Tick
  /\ xTicksToWait \in Tick /\ xPreviousWakeTime \in Tick
  /\ pc \in {"app", "call", "delayed"} /\ verdict \in {"none", "running", "over"}
  /\ left \in Int /\ unchecked \in 0..MaxUnchecked /\ lag \in Int

\* A call times out exactly when its block time has passed, over any number of
\* checks and wraps: never early, never late, and what is left of it is exact,
\* as long as the task checks once in a turn of the count.
TimeOutExact ==
  pc = "call" =>
    /\ verdict = "over" => left <= 0
    /\ xTicksToWait # portMAX_DELAY => left = xTicksToWait - unchecked \/ verdict = "over"
    /\ verdict = "running" /\ unchecked = 0 /\ xTicksToWait # portMAX_DELAY => left > 0

\* A periodic task is delayed exactly when its next wake-up is still to come,
\* and then until that tick: its wake-ups drift by no tick, also when it is
\* late and over wraps of the count and of its wake times.
PeriodKept ==
  /\ pc = "delayed" => lag < 0 /\ xPreviousWakeTime = Mod(xTickCount - lag)
  /\ pc = "app" => lag >= 0
=============================================================================
