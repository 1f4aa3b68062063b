------------------------------ MODULE TaskInfo ------------------------------
(* What the kernel reports of its tasks: uxTaskGetSystemState and the two    *)
(* functions that print it, eTaskGetState and xTaskGetHandle.  One task      *)
(* calls them; between their steps interrupts wake the other tasks, and      *)
(* while the scheduler is not suspended the other tasks run, block, suspend, *)
(* resume, create and delete each other, and the tick ends their delays.     *)
(* The order of a list and the ready list that a task is in do not matter.   *)
EXTENDS Integers, FiniteSets, SequencesExt

CONSTANTS
  Caller, Worker, NoTask,
  Name, named,              \* the names, and the name of each task
  configMAX_TASK_NAME_LEN,
  BufferLengths,            \* uxBufferLength
  RowLengths                \* what snprintf returns for the rest of a row

Task == Worker \cup {Caller}

VARIABLES
  xStateList,               \* the list of a task's state item, or "none"
  xEventList,               \* that of its event item: "none", "object" or "pending"
  waiting,                  \* the tasks in the state taskWAITING_NOTIFICATION
  frozen,                   \* Caller has suspended the scheduler
  infoCall,                 \* where Caller is; the list or row; the task; its state
  uxArraySize, allocated,   \* the count that was read first, and the array's length
  visited,                  \* the tasks of the list that it is past
  uxTask, report,
  uxBufferLength, uxConsumedBufferLength,
  seen                      \* the states that a task was in during the report

lists == << xStateList, xEventList, waiting >>
array == << uxArraySize, allocated, visited, uxTask, report >>
buffer == << uxBufferLength, uxConsumedBufferLength >>
vars == << lists, frozen, infoCall, array, buffer, seen >>

AtRest == [at |-> "app", index |-> 0, task |-> NoTask, state |-> "none"]

Init ==
  /\ xStateList = [t \in Task |-> IF t = Caller THEN "ready" ELSE "none"]
  /\ xEventList = [t \in Task |-> "none"] /\ waiting = {}
  /\ frozen = FALSE /\ infoCall = AtRest
  /\ uxArraySize = 0 /\ allocated = 0 /\ visited = {}
  /\ uxTask = 0 /\ report = [t \in Task |-> "none"]
  /\ uxBufferLength = 0 /\ uxConsumedBufferLength = 0
  /\ seen = [t \in Task |-> {}]

\* The count agrees with the lists (module Objects).
uxCurrentNumberOfTasks == Cardinality({t \in Task : xStateList[t] # "none"})

Members(list) == {t \in Task : xStateList[t] = list}

At(step) == infoCall.at = step
Goto(step) == infoCall' = [infoCall EXCEPT !.at = step]
-----------------------------------------------------------------------------
(* The other tasks.                                                         *)

Moves(t, list, event) ==
  /\ xStateList' = [xStateList EXCEPT ![t] = list]
  /\ xEventList' = [xEventList EXCEPT ![t] = event]

Runs(t) == ~frozen /\ xStateList[t] = "ready"

\* A task delays itself, or waits for an object or a notification; without an
\* end it is in the list of the suspended tasks.
prvAddCurrentTaskToDelayedList(t) ==
  /\ Runs(t)
  /\ \E list \in {"delayed", "overflow", "suspended"}, for \in {"time", "object", "notification"} :
       /\ list = "suspended" => for # "time"
       /\ Moves(t, list, IF for = "object" THEN "object" ELSE "none")
       /\ waiting' = IF for = "notification" THEN waiting \cup {t} ELSE waiting \ {t}

vTaskSuspend(t) ==
  /\ ~frozen /\ xStateList[t] \notin {"none", "terminated"}
  /\ Moves(t, "suspended", "none") /\ waiting' = waiting \ {t}

\* The tick, or a task that aborts the delay.  Until the task runs it counts
\* as waiting for its notification.
Unblocked(t) ==
  /\ ~frozen /\ xStateList[t] \in {"delayed", "overflow"}
  /\ Moves(t, "ready", "none") /\ UNCHANGED waiting

taskSWITCH_DELAYED_LISTS ==
  /\ ~frozen /\ Members("delayed") = {}
  /\ xStateList' = [t \in Task |-> IF xStateList[t] = "overflow" THEN "delayed"
                                   ELSE xStateList[t]]
  /\ UNCHANGED << xEventList, waiting >>

xTaskCreate(t) ==
  /\ ~frozen /\ xStateList[t] = "none"
  /\ Moves(t, "ready", "none") /\ UNCHANGED waiting

\* Nobody deletes the task that Caller asks for.
vTaskDelete(t) ==
  /\ ~frozen /\ xStateList[t] # "none" /\ infoCall.task # t
  /\ \/ xStateList[t] = "ready" /\ Moves(t, "terminated", "none")
     \/ Moves(t, "none", "none")      \* by another task, or at last by the idle task
  /\ waiting' = waiting \ {t}

\* Interrupts leave the lists alone while the scheduler is suspended, and put
\* the task into xPendingReadyList.
Readied(t) ==
  IF frozen THEN Moves(t, xStateList[t], "pending") ELSE Moves(t, "ready", "none")

xTaskRemoveFromEventList(t) ==
  xEventList[t] = "object" /\ Readied(t) /\ UNCHANGED waiting

xTaskGenericNotifyFromISR(t) ==
  t \in waiting /\ Readied(t) /\ waiting' = waiting \ {t}

Suspended(t) ==
  xStateList[t] = "suspended" /\ xEventList[t] = "none" /\ t \notin waiting

xTaskResumeFromISR(t) == Suspended(t) /\ Readied(t) /\ UNCHANGED waiting

OtherStep ==
  /\ \/ taskSWITCH_DELAYED_LISTS
     \/ \E t \in Worker :
          \/ prvAddCurrentTaskToDelayedList(t) \/ vTaskSuspend(t) \/ Unblocked(t)
          \/ xTaskCreate(t) \/ vTaskDelete(t)
          \/ xTaskRemoveFromEventList(t) \/ xTaskGenericNotifyFromISR(t)
          \/ xTaskResumeFromISR(t)
  /\ UNCHANGED << frozen, infoCall, array, buffer >>
-----------------------------------------------------------------------------
(* The scheduler, suspended and resumed by Caller.                          *)

vTaskSuspendAll == frozen' = TRUE

xTaskResumeAll ==
  /\ frozen' = FALSE
  /\ xStateList' = [t \in Task |-> IF xEventList[t] = "pending" THEN "ready"
                                   ELSE xStateList[t]]
  /\ xEventList' = [t \in Task |-> IF xEventList[t] = "pending" THEN "none"
                                   ELSE xEventList[t]]
  /\ UNCHANGED waiting
-----------------------------------------------------------------------------
(* vTaskListTasks and vTaskGetRunTimeStatistics.                            *)

\* The array is allocated with a second look at the count.
vTaskListTasks(length) ==
  /\ At("app") /\ Goto("allocate")
  /\ uxBufferLength' = length
  /\ uxArraySize' = uxCurrentNumberOfTasks
  /\ UNCHANGED << lists, frozen, allocated, visited, uxTask, report,
                  uxConsumedBufferLength >>

AllocateArray ==
  /\ At("allocate")
  /\ \/ /\ allocated' = uxCurrentNumberOfTasks /\ Goto("collect")
        /\ UNCHANGED << uxArraySize, uxBufferLength >>
     \/ /\ infoCall' = AtRest
        /\ uxArraySize' = 0 /\ uxBufferLength' = 0 /\ UNCHANGED allocated
  /\ UNCHANGED << lists, frozen, visited, uxTask, report, uxConsumedBufferLength >>

Walked == << "ready", "delayed", "overflow", "terminated", "suspended" >>

ReportedAs(list) ==
  CASE list = "ready" -> "eReady"
    [] list = "terminated" -> "eDeleted"
    [] list = "suspended" -> "eSuspended"
    [] OTHER -> "eBlocked"

\* Nothing is reported when the array is too short.
uxTaskGetSystemState ==
  /\ At("collect") /\ vTaskSuspendAll
  /\ infoCall' = IF uxArraySize >= uxCurrentNumberOfTasks
                 THEN [infoCall EXCEPT !.at = "walk", !.index = 1]
                 ELSE [infoCall EXCEPT !.at = "collected"]
  /\ UNCHANGED << lists, array, buffer >>

Reported(t, state) ==
  /\ report' = [report EXCEPT ![t] = state]
  /\ uxTask' = uxTask + 1

\* The next task of the list.  For one in the list of the suspended tasks it is
\* seen whether it waits for an object.
prvListTasksWithinSingleList ==
  LET list == Walked[infoCall.index]
      Ask(step, t, state) ==
        /\ infoCall' = [infoCall EXCEPT !.at = step, !.task = t, !.state = state]
        /\ UNCHANGED << uxTask, report >>
  IN /\ At("walk")
     /\ \E t \in Members(list) \ visited :
          /\ visited' = visited \cup {t}
          /\ \/ t = Caller /\ Reported(t, "eRunning") /\ UNCHANGED infoCall
             \/ t # Caller /\ list # "suspended" /\ Ask("isPending", t, ReportedAs(list))
             \/ t # Caller /\ list = "suspended" /\
                  IF xEventList[t] # "none" THEN Ask("isPending", t, "eBlocked")
                  ELSE Ask("isNotified", t, "eSuspended")
     /\ UNCHANGED << lists, frozen, uxArraySize, allocated, buffer >>

EndOfList ==
  /\ At("walk") /\ Members(Walked[infoCall.index]) \subseteq visited
  /\ visited' = {}
  /\ infoCall' = IF infoCall.index = Len(Walked)
                 THEN [infoCall EXCEPT !.at = "collected", !.index = 0]
                 ELSE [infoCall EXCEPT !.index = @ + 1]
  /\ UNCHANGED << lists, frozen, uxArraySize, allocated, uxTask, report, buffer >>

\* A task without an object may wait for a notification.
AsksNotification ==
  /\ At("isNotified")
  /\ infoCall' = [infoCall EXCEPT !.at = "isPending",
                                  !.state = IF infoCall.task \in waiting THEN "eBlocked" ELSE @]
  /\ UNCHANGED << lists, frozen, array, buffer >>

\* Fault: the state of the list is reported.
F_ForgetsPending ==
  /\ At("isPending")
  /\ Reported(infoCall.task, infoCall.state)
  /\ infoCall' = [infoCall EXCEPT !.at = "walk", !.task = NoTask, !.state = "none"]
  /\ UNCHANGED << lists, frozen, uxArraySize, allocated, visited, buffer >>

\* In a critical section: a task that waits for the scheduler only is ready.
vTaskGetInfo ==
  /\ At("isPending")
  /\ Reported(infoCall.task,
              IF xEventList[infoCall.task] = "pending" THEN "eReady" ELSE infoCall.state)
  /\ infoCall' = [infoCall EXCEPT !.at = "walk", !.task = NoTask, !.state = "none"]
  /\ UNCHANGED << lists, frozen, uxArraySize, allocated, visited, buffer >>

\* The statistics are not printed when the total run time is below 100.
Collected ==
  /\ At("collected") /\ xTaskResumeAll
  /\ Goto("rows") \/ Goto("free")
  /\ report' = [t \in Task |-> "none"]
  /\ UNCHANGED << uxArraySize, allocated, visited, uxTask, buffer >>

prvSnprintfReturnValueToCharsWritten(n, size) ==
  CASE n < 0 -> 0
    [] n >= size -> size - 1
    [] OTHER -> n

\* The name, filled up to a fixed length, and the rest of the row as far as it
\* fits.
WriteRow ==
  LET nameEnd == uxConsumedBufferLength + configMAX_TASK_NAME_LEN - 1
  IN /\ At("rows") /\ infoCall.index < uxTask
     /\ IF nameEnd + 1 > uxBufferLength
        THEN Goto("free") /\ UNCHANGED uxConsumedBufferLength
        ELSE IF nameEnd >= uxBufferLength - 1
        THEN Goto("free") /\ uxConsumedBufferLength' = nameEnd
        ELSE \E n \in RowLengths :
               /\ uxConsumedBufferLength' =
                    nameEnd + prvSnprintfReturnValueToCharsWritten(n, uxBufferLength - nameEnd)
               /\ infoCall' = [infoCall EXCEPT !.index = @ + 1]
     /\ UNCHANGED << lists, frozen, array, uxBufferLength >>

\* The array is freed.
ListReturns ==
  /\ \/ At("free")
     \/ At("rows") /\ infoCall.index >= uxTask
  /\ infoCall' = AtRest
  /\ uxArraySize' = 0 /\ allocated' = 0 /\ uxTask' = 0
  /\ uxBufferLength' = 0 /\ uxConsumedBufferLength' = 0
  /\ UNCHANGED << lists, frozen, visited, report >>
-----------------------------------------------------------------------------
(* eTaskGetState, which Caller may also call with the scheduler suspended.  *)

\* In a critical section, what both items are in.
eTaskGetState(t) ==
  /\ At("app") /\ xStateList[t] # "none"
  /\ frozen' \in BOOLEAN
  /\ LET Answer(state) ==
           infoCall' = [infoCall EXCEPT !.at = "answer", !.task = t, !.state = state]
     IN CASE t = Caller -> Answer("eRunning")
          [] t # Caller /\ xEventList[t] = "pending" -> Answer("eReady")
          [] t # Caller /\ xEventList[t] # "pending" /\ xStateList[t] = "suspended" ->
               infoCall' = [infoCall EXCEPT !.at = "again", !.task = t, !.state = "eSuspended"]
          [] OTHER -> Answer(ReportedAs(xStateList[t]))
  /\ UNCHANGED << lists, array, buffer >>

\* The event item once more, outside of it.
AsksObject ==
  /\ At("again")
  /\ infoCall' = IF xEventList[infoCall.task] = "none"
                 THEN [infoCall EXCEPT !.at = "againNotified"]
                 ELSE [infoCall EXCEPT !.at = "answer", !.state = "eBlocked"]
  /\ UNCHANGED << lists, frozen, array, buffer >>

AsksNotificationAgain ==
  /\ At("againNotified")
  /\ infoCall' = [infoCall EXCEPT !.at = "answer",
                                  !.state = IF infoCall.task \in waiting THEN "eBlocked" ELSE @]
  /\ UNCHANGED << lists, frozen, array, buffer >>

StateReturns ==
  /\ At("answer") /\ xTaskResumeAll
  /\ infoCall' = AtRest
  /\ UNCHANGED << array, buffer >>
-----------------------------------------------------------------------------
(* xTaskGetHandle.                                                          *)

Searched == << "ready", "delayed", "overflow", "suspended", "terminated" >>

xTaskGetHandle(name) ==
  /\ At("app") /\ vTaskSuspendAll
  /\ infoCall' = [infoCall EXCEPT !.at = "search", !.index = 1, !.state = name]
  /\ UNCHANGED << lists, array, buffer >>

prvSearchForNameWithinSingleList ==
  LET found == {t \in Members(Searched[infoCall.index]) : named[t] = infoCall.state}
  IN /\ At("search")
     /\ \/ \E t \in found : infoCall' = [infoCall EXCEPT !.at = "found", !.task = t]
        \/ /\ found = {}
           /\ infoCall' = IF infoCall.index = Len(Searched)
                          THEN [infoCall EXCEPT !.at = "found"]
                          ELSE [infoCall EXCEPT !.index = @ + 1]
     /\ UNCHANGED << lists, frozen, array, buffer >>

HandleReturns ==
  /\ At("found") /\ xTaskResumeAll
  /\ infoCall' = AtRest
  /\ UNCHANGED << array, buffer >>
-----------------------------------------------------------------------------
State(t) ==
  CASE t = Caller -> "eRunning"
    [] t # Caller /\ xEventList[t] = "pending" -> "eReady"
    [] t # Caller /\ xEventList[t] # "pending" /\ xStateList[t] = "suspended" ->
         IF Suspended(t) THEN "eSuspended" ELSE "eBlocked"
    [] t # Caller /\ xStateList[t] = "none" -> "eDeleted"
    [] OTHER -> ReportedAs(xStateList[t])

\* Of the report, what each task goes through while the scheduler is suspended;
\* of eTaskGetState, what the task goes through from the call to the answer.
Watched(t) ==
  \/ infoCall.at \in {"walk", "isNotified", "isPending", "collected"}
  \/ infoCall.at \in {"again", "againNotified", "answer"} /\ infoCall.task = t

Next ==
  /\ \/ OtherStep
     \/ \E length \in BufferLengths : vTaskListTasks(length)
     \/ AllocateArray \/ uxTaskGetSystemState \/ prvListTasksWithinSingleList \/ EndOfList
     \/ AsksNotification \/ vTaskGetInfo \/ Collected \/ WriteRow \/ ListReturns
     \/ \E t \in Task : eTaskGetState(t)
     \/ AsksObject \/ AsksNotificationAgain \/ StateReturns
     \/ \E name \in Name : xTaskGetHandle(name)
     \/ prvSearchForNameWithinSingleList \/ HandleReturns
  /\ seen' = [t \in Task |-> IF Watched(t)' THEN seen[t] \cup {State(t)'} ELSE {}]

Spec == Init /\ [][Next]_vars
-----------------------------------------------------------------------------
\* The report has every task once, whatever interrupts do while it is taken,
\* each in a state that it really was in while the scheduler was suspended;
\* and an array as long as the count that was read first is long enough.
ReportExact ==
  At("collected") =>
    /\ uxArraySize >= uxCurrentNumberOfTasks =>
         /\ uxTask = uxCurrentNumberOfTasks
         /\ \A t \in Task : IF xStateList[t] = "none" THEN report[t] = "none"
                            ELSE report[t] \in seen[t]
    /\ allocated >= uxArraySize => uxTask <= allocated

\* The state that is answered is one the task was in during the call; only for
\* a task that is woken meanwhile blocked and suspended may be confused.
AnswerTrue ==
  At("answer") =>
    \/ infoCall.state \in seen[infoCall.task]
    \/ /\ infoCall.state \in {"eBlocked", "eSuspended"}
       /\ "eReady" \in seen[infoCall.task]
       /\ seen[infoCall.task] \cap {"eBlocked", "eSuspended"} # {}

\* A name is found when a task has it, and a deleted task is found only when no
\* other has its name.
HandleFound ==
  At("found") =>
    LET alike == {t \in Task : named[t] = infoCall.state /\ xStateList[t] # "none"}
    IN IF alike = {} THEN infoCall.task = NoTask
       ELSE /\ infoCall.task \in alike
            /\ xStateList[infoCall.task] = "terminated" => alike \subseteq Members("terminated")

\* The text and its end fit the buffer, however long the rows are.
TextFits == uxBufferLength > 0 => uxConsumedBufferLength < uxBufferLength

ReportsTrue == ReportExact /\ AnswerTrue /\ HandleFound /\ TextFits
=============================================================================
