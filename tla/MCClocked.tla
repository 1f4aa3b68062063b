----------------------------- MODULE MCClocked -----------------------------
(* What a clock drives, on small instances: the block times of tasks and    *)
(* the software timers, which compute with a tick count that wraps, and the *)
(* two caches of a core; the tickless idle task; the life of the objects of *)
(* the kernel, once with more tasks and once with more objects; and the     *)
(* reports of the tasks.                                                    *)
(* They share nothing else: a behaviour is one of one of these modules, and *)
(* leaves the variables of the others at rest.  xTickCount, pc and lag are  *)
(* BlockTime's, Timers' or Tickless', as part says.                         *)
EXTENDS BlockTime, FiniteSets, TLC

CONSTANTS
  Timer, NoTimer, Periods, configTIMER_QUEUE_LENGTH, MaxLag,
  Words, NUM_LINES,
  Tags, Value,
  Delays, MaxPended, configEXPECTED_IDLE_TIME_BEFORE_SLEEP,
  NoTask, Worker, Queues, Timers, EventGroups, Priorities, configQUEUE_REGISTRY_SIZE,
  configMAX_TASK_NAME_LEN, BufferLengths, RowLengths

VARIABLES
  part,
  xTimerQueue, pxCurrentTimerList, pxOverflowTimerList, xLastTime,
  xTimerPeriodInTicks, autoReload, active, xMessage, xTimeNow, wakeTime,
  deleted, due,
  imemaddr, iValid, iTag, iData, iState, iLine, iload,
  access, valid, dirty, tag, data, lru, state, nWay, dmemload, written, recent,
  xNextTaskUnblockTime, xPendedTicks, xYieldPending, ready, pended, delayedUntil,
  idleRuns, idlePc, xExpectedIdleTime, slept, remaining,
  heap, statically, uxPriority, listed, xTasksWaitingTermination,
  uxDeletedTasksWaitingCleanUp, uxCurrentNumberOfTasks, pxCurrentTCB,
  xSchedulerRunning, objects, timerQueueCreated, xQueueRegistry, ownPc,
  xStateList, xEventList, waiting, frozen, infoCall, uxArraySize, allocated,
  visited, uxTask, report, uxBufferLength, uxConsumedBufferLength, seen

\* vTaskDelay does not block for zero ticks, and FreeRTOS.h refuses a shorter time
\* before sleep.
ASSUME ClockedAssumption ==
  /\ Words \in Nat \ {0} /\ NUM_LINES \in Nat \ {0}
  /\ Tags \subseteq Nat
  /\ Delays \subseteq 1..(TickMod - 1) /\ MaxPended \in Nat
  /\ configEXPECTED_IDLE_TIME_BEFORE_SLEEP \in Nat
  /\ configEXPECTED_IDLE_TIME_BEFORE_SLEEP >= 2

\* The count does not go round while the service task is kept waiting: a period and
\* the lag (bound) are less than a turn.
ASSUME TimersAssumption ==
  /\ NoTimer \notin Timer /\ Periods \subseteq Nat \ {0} /\ MaxLag \in Nat
  /\ \A p \in Periods : p + MaxLag < TickMod

\* The handles are different, and there is a highest priority.
ASSUME HandlesApart ==
  /\ Worker \cap {NoTask, "main", "IDLE", "Tmr Svc"} = {}
  /\ NoTask \notin {"main", "IDLE", "Tmr Svc"}
  /\ (Queues \cup Timers \cup EventGroups) \cap
        (Worker \cup {NoTask, "IDLE", "Tmr Svc", "TmrQ", "none"}) = {}
  /\ Queues \cap Timers = {} /\ Queues \cap EventGroups = {} /\ Timers \cap EventGroups = {}
  /\ Priorities \subseteq Nat /\ \E p \in Priorities : \A q \in Priorities : q <= p
  /\ configQUEUE_REGISTRY_SIZE \in Nat

\* A name has at least its end (FreeRTOS.h:364-366); snprintf returns a negative number when it fails.
ASSUME ReportsAssumption ==
  /\ IsFiniteSet(Worker) /\ "caller" \notin Worker /\ NoTask \notin Worker \cup {"caller"}
  /\ configMAX_TASK_NAME_LEN \in Nat \ {0}
  /\ BufferLengths \subseteq Nat /\ RowLengths \subseteq Int

Memory == [t \in Tags |-> << t % 2, 1 >>]

T == INSTANCE Timers
I == INSTANCE ICache
D == INSTANCE DCache
K == INSTANCE Tickless WITH Task <- Worker

O == INSTANCE Objects
       WITH Main <- "main", IdleTask <- "IDLE", TimerTask <- "Tmr Svc",
            TmrQ <- "TmrQ", NoQueue <- "none", xTimerQueue <- timerQueueCreated,
            EarlyDeletes <- FALSE

\* The handles of the part (bound): two tasks and one queue, or one task with two
\* queues, a timer and an event group.
Uses == IF part = "Tasks" THEN Worker \cup {CHOOSE q \in Queues : TRUE}
        ELSE {CHOOSE w \in Worker : TRUE} \cup O!Object

\* The caller of the reports, and two tasks of one name.
NameOf == [t \in Worker |-> "worker"] @@ [t \in {"caller"} |-> "caller"]
R == INSTANCE TaskInfo
       WITH Caller <- "caller", Name <- {"caller", "worker"}, named <- NameOf

ofBlockTime == << timeOut, xNumOfOverflows, xPreviousWakeTime >>
ofTimers == << xTimerQueue, pxCurrentTimerList, pxOverflowTimerList, xLastTime,
               xTimerPeriodInTicks, autoReload, active, xMessage, xTimeNow,
               wakeTime, deleted, due >>
ofICache == << imemaddr, iValid, iTag, iData, iState, iLine, iload >>
ofDCache == << access, valid, dirty, tag, data, lru, state, nWay, dmemload,
               written, recent >>
ofObjects == << heap, statically, uxPriority, listed, xTasksWaitingTermination,
                uxDeletedTasksWaitingCleanUp, uxCurrentNumberOfTasks, pxCurrentTCB,
                xSchedulerRunning, objects, timerQueueCreated, xQueueRegistry, ownPc >>
ofTickless == << xNextTaskUnblockTime, xPendedTicks, xYieldPending, ready, pended,
                 delayedUntil, idleRuns, idlePc, xExpectedIdleTime, slept, remaining >>
ofTaskInfo == << xStateList, xEventList, waiting, frozen, infoCall, uxArraySize,
                 allocated, visited, uxTask, report, uxBufferLength,
                 uxConsumedBufferLength, seen >>
shared == << xTickCount, pc, lag >>

BlockTimeAtRest ==
  /\ xNumOfOverflows = 0 /\ xOverflowCount = 0 /\ xTimeOnEntering = 0
  /\ xTicksToWait = 0 /\ xPreviousWakeTime = 0 /\ verdict = "none" /\ left = 0
  /\ unchecked = 0

TimersAtRest ==
  /\ xTimerQueue = 0 /\ pxCurrentTimerList = 0 /\ pxOverflowTimerList = 0
  /\ xLastTime = 0 /\ xTimerPeriodInTicks = 0 /\ autoReload = 0 /\ active = 0
  /\ xMessage = 0 /\ xTimeNow = 0 /\ wakeTime = 0 /\ deleted = 0 /\ due = 0

ObjectsAtRest ==
  /\ heap = {} /\ statically = 0 /\ uxPriority = 0 /\ listed = {}
  /\ xTasksWaitingTermination = << >> /\ uxDeletedTasksWaitingCleanUp = 0
  /\ uxCurrentNumberOfTasks = 0 /\ pxCurrentTCB = NoTask /\ xSchedulerRunning = FALSE
  /\ objects = {} /\ timerQueueCreated = FALSE /\ xQueueRegistry = 0 /\ ownPc = 0

TicklessAtRest ==
  /\ xNextTaskUnblockTime = 0 /\ xPendedTicks = 0 /\ xYieldPending = FALSE
  /\ ready = {} /\ pended = {} /\ delayedUntil = 0 /\ idleRuns = FALSE
  /\ idlePc = "loop" /\ xExpectedIdleTime = 0 /\ slept = 0 /\ remaining = 0

TaskInfoAtRest ==
  /\ xStateList = 0 /\ xEventList = 0 /\ waiting = {} /\ frozen = FALSE
  /\ infoCall = 0 /\ uxArraySize = 0 /\ allocated = 0 /\ visited = {} /\ uxTask = 0
  /\ report = 0 /\ uxBufferLength = 0 /\ uxConsumedBufferLength = 0 /\ seen = 0

SharedAtRest == xTickCount = 0 /\ pc = "app" /\ lag = 0

ClockedInit ==
  /\ I!Init /\ D!Init
  /\ \/ /\ TaskInfoAtRest /\ ObjectsAtRest
        /\ \/ part = "BlockTime" /\ Init /\ TimersAtRest /\ TicklessAtRest
           \/ part = "Timers" /\ T!Init /\ BlockTimeAtRest /\ TicklessAtRest
           \/ /\ part = "Tickless" /\ K!Init /\ pc = "app" /\ lag = 0
              /\ BlockTimeAtRest /\ TimersAtRest
     \/ /\ BlockTimeAtRest /\ TimersAtRest /\ TicklessAtRest /\ SharedAtRest
        /\ \/ part \in {"ICache", "DCache"} /\ ObjectsAtRest /\ TaskInfoAtRest
           \/ part \in {"Tasks", "Objects"} /\ O!Init /\ TaskInfoAtRest
           \/ part = "TaskInfo" /\ R!Init /\ ObjectsAtRest

ClockedNext ==
  /\ UNCHANGED part
  /\ \/ /\ part = "BlockTime" /\ Next
        /\ UNCHANGED << ofTimers, ofICache, ofDCache, ofTickless, ofObjects, ofTaskInfo >>
     \/ /\ part = "Timers" /\ T!Next
        /\ UNCHANGED << ofBlockTime, ofICache, ofDCache, ofTickless, ofObjects, ofTaskInfo >>
     \/ /\ part = "Tickless" /\ K!Next /\ UNCHANGED << pc, lag >>
        /\ UNCHANGED << ofBlockTime, ofTimers, ofICache, ofDCache, ofObjects, ofTaskInfo >>
     \/ /\ UNCHANGED << ofBlockTime, ofTimers, shared, ofTickless >>
        /\ \/ /\ part = "ICache" /\ I!Next
              /\ UNCHANGED << ofDCache, ofObjects, ofTaskInfo >>
           \/ /\ part = "DCache" /\ D!Next
              /\ UNCHANGED << ofICache, ofObjects, ofTaskInfo >>
           \/ /\ part \in {"Tasks", "Objects"} /\ O!Next
              /\ objects' \subseteq Uses
              /\ part = "Objects" => \A t \in Worker : uxPriority'[t] <= 1
              /\ \A a \in DOMAIN ownPc : ownPc'[a].of \in Uses \cup {NoTask}
              /\ UNCHANGED << ofICache, ofDCache, ofTaskInfo >>
           \/ /\ part = "TaskInfo" /\ R!Next
              /\ UNCHANGED << ofICache, ofDCache, ofObjects >>

ClockedSpec ==
  ClockedInit
    /\ [][ClockedNext]_<< part, vars, ofTimers, ofICache, ofDCache, ofTickless, ofObjects,
                          ofTaskInfo >>
-----------------------------------------------------------------------------
(* The properties are stated in the modules of the parts.                   *)

\* A blocking call times out exactly when its block time has passed, and
\* periodic wake-ups are delayed to exactly their ticks.
BlockTimesExact == part = "BlockTime" => TimeOutExact /\ PeriodKept

\* Every active timer is in the right list at the time it is due, and is called
\* once for every expiry: not before it, and none is slept over.
ExpiriesCalled ==
  part = "Timers" => T!ListsAgree /\ T!NeverCalledEarly /\ T!AllExpiriesCalled

\* The instruction cache gives the words of the memory.  The data cache gives
\* what was written last, or the words of the memory, and replaces the block
\* that was not hit last.
CachesRight == I!HitIsMemory /\ D!LinesSound /\ D!RecentKept

\* A processor that stops its ticks while it idles wakes in time.
NoneOversleeps == part = "Tickless" => K!NoneOversleeps

\* What is created is accounted for until it is freed, and freed once; the
\* counts and the registry follow, and the current task exists.
ObjectsSound == part \in {"Tasks", "Objects"} => O!ObjectsSound

\* What the kernel reports of its tasks is exact, and fits where it is put.
ReportsTrue == part = "TaskInfo" => R!ReportsTrue

Alike == Permutations(Timer)

\* What snprintf returns: nothing is written, or a short or a long row.
Rows == {-1, 1, 2, 9}
=============================================================================
