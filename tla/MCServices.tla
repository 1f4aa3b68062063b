----------------------------- MODULE MCServices -----------------------------
(* What the kernel builds on event lists besides queues, on small instances: *)
(* an event group, task notifications, a queue set and a semaphore; and the  *)
(* scheduler for several cores, in its two builds.  They share nothing but   *)
(* the tasks: a behaviour is one of one of these modules, and leaves the     *)
(* variables of the others at rest.  pc, suspender, cTxLock and              *)
(* xTasksWaitingToReceive are those of the module that part names.           *)
EXTENDS EventGroup, TLC

CONSTANTS
  A, B, C, NoTask,
  Pair,                                              \* the tasks of Notify
  Index, MaxValue, Actions, NotifyWaits,
  Member, NoMember, queue, mailbox, uxLength, uxEventQueueLength, uxNumberOfTasks,
  Overwritten, RemovalsRace,
  uxMaxCount, uxInitialCount, uxPriority, Waits,
  Core, NoCore, Worker, Idle0, Idle1, Priorities, MaxPendedTicks

\* What the proofs ask of the tasks that notify, of the queue set, the semaphore
\* and the cores, of which there is one or are two.
ASSUME ServicesAssumption ==
  /\ NoTask \notin Task \cup Pair /\ NoMember \notin Member
  /\ IsFiniteSet(Member) /\ uxLength \in [Member -> Nat] /\ uxEventQueueLength \in Nat
  /\ NotifyWaits \subseteq [op : {"take", "wait"}, index : Index, clear : 0..MaxValue,
                            ticks : {"none", "some", "forever"}]
  /\ IsFiniteSet(Task)
  /\ uxPriority \in [Task -> Nat]
  /\ uxMaxCount \in Nat /\ uxInitialCount \in 0..uxMaxCount
  /\ uxNumberOfTasks \in Nat /\ Cardinality(Task) <= uxNumberOfTasks
  /\ Waits \subseteq {"none", "some", "forever"}
  /\ \E n \in {0, 1} : Core = 0..n
  /\ NoCore \notin Core /\ IsFiniteSet(Worker)
  /\ Idle0 # Idle1 /\ Worker \cap {Idle0, Idle1} = {}
  /\ Priorities \subseteq Nat /\ MaxPendedTicks \in Nat

VARIABLES
  part,
  pc, suspender,
  xStateList, xPendingReadyList, ulNotifiedValue, ucNotifyState, notifyCall,
  target, parked,
  inSet, uxMessagesWaiting, handles, cTxLock, cRxLock, setTxLock,
  xTasksWaitingToSend, xTasksWaitingToReceive, member, selected,
  uxSemaphoreCount, wait, elapsed, ucDelayAborted, timedOut,
  kernel, uxSchedulerSuspended, xPendedTicks, smpPc, bound

\* Each task has a bit of its own in the rendezvous; 0 is an event.
OwnBit == (A :> 1) @@ (B :> 2) @@ (C :> 3)

\* The event, which is consumed; it or the arrival of C; or both.
GroupCalls ==
  {[op |-> "wait", bits |-> {0}, clear |-> TRUE, all |-> TRUE],
   [op |-> "wait", bits |-> {0, 3}, clear |-> FALSE, all |-> FALSE],
   [op |-> "wait", bits |-> {0, 3}, clear |-> FALSE, all |-> TRUE]}

NotifyCalls ==
  {[op |-> "take", index |-> 0, clear |-> 0, ticks |-> "forever"],
   [op |-> "wait", index |-> 1, clear |-> 1, ticks |-> "some"],
   [op |-> "wait", index |-> 1, clear |-> 0, ticks |-> "forever"]}

\* The mailbox, or a binary semaphore, holds one item.
Lengths == [q \in Member |-> IF q = queue THEN 2 ELSE 1]

N == INSTANCE Notify
       WITH Task <- Pair, WaitCalls <- NotifyWaits, call <- notifyCall
S == INSTANCE QueueSet

\* Two equal tasks and one above them.
Above == [t \in Task |-> IF t = C THEN 2 ELSE 1]
P == INSTANCE Semaphore

\* Two cores that may run tasks of different priorities, and two that may not;
\* the functions that are called are divided between them.
IdleOf == [c \in Core |-> IF c = 0 THEN Idle0 ELSE Idle1]
M == INSTANCE SMP
       WITH Idle <- IdleOf, Affinities <- {Core}, pc <- smpPc,
            SmpCalls <- {"suspend", "delay", "priority", "preemption"},
            configRUN_MULTIPLE_PRIORITIES <- TRUE
O == INSTANCE SMP
       WITH Idle <- IdleOf, Affinities <- {{0}, Core}, pc <- smpPc,
            SmpCalls <- {"suspend", "delete", "affinity"},
            configRUN_MULTIPLE_PRIORITIES <- FALSE

ofNotify == << xStateList, xPendingReadyList, ulNotifiedValue, ucNotifyState,
               notifyCall, target, parked >>
ofQueueSet == << inSet, uxMessagesWaiting, handles, cRxLock, setTxLock,
                 xTasksWaitingToSend, member, selected >>
ofSemaphore == << uxSemaphoreCount, wait, elapsed, ucDelayAborted, timedOut >>
shared == << pc, suspender, cTxLock, xTasksWaitingToReceive >>
ofSMP == << kernel, uxSchedulerSuspended, xPendedTicks, smpPc, bound >>

NotifyAtRest ==
  /\ xStateList = 0 /\ xPendingReadyList = {} /\ ulNotifiedValue = 0
  /\ ucNotifyState = 0 /\ notifyCall = 0 /\ target = 0 /\ parked = 0

QueueSetAtRest ==
  /\ inSet = 0 /\ uxMessagesWaiting = 0 /\ handles = << >> /\ cRxLock = 0
  /\ setTxLock = 0 /\ xTasksWaitingToSend = 0 /\ member = 0 /\ selected = 0

SemaphoreAtRest ==
  /\ uxSemaphoreCount = 0 /\ wait = 0 /\ elapsed = 0 /\ ucDelayAborted = 0
  /\ timedOut = 0

ListsAtRest == cTxLock = 0 /\ xTasksWaitingToReceive = << >>
SharedAtRest == pc = "app" /\ suspender = NoTask /\ ListsAtRest

SMPAtRest ==
  /\ kernel = 0 /\ uxSchedulerSuspended = NoCore /\ xPendedTicks = 0
  /\ smpPc = 0 /\ bound = FALSE

ServicesInit ==
  /\ Init
  /\ \/ /\ part = "EventGroup"
        /\ SharedAtRest /\ NotifyAtRest /\ QueueSetAtRest /\ SemaphoreAtRest /\ SMPAtRest
     \/ /\ part = "Notify" /\ N!Init
        /\ ListsAtRest /\ QueueSetAtRest /\ SemaphoreAtRest /\ SMPAtRest
     \/ /\ part = "QueueSet" /\ S!Init
        /\ NotifyAtRest /\ SemaphoreAtRest /\ SMPAtRest
     \/ /\ part = "Semaphore" /\ P!Init
        /\ NotifyAtRest /\ QueueSetAtRest /\ SMPAtRest
     \/ /\ \/ part = "SMP" /\ M!Init
           \/ part = "SMP, one priority" /\ O!Init
        /\ SharedAtRest /\ NotifyAtRest /\ QueueSetAtRest /\ SemaphoreAtRest

ServicesNext ==
  /\ UNCHANGED part
  /\ \/ /\ part = "EventGroup" /\ Next
        /\ UNCHANGED << shared, ofNotify, ofQueueSet, ofSemaphore, ofSMP >>
     \/ /\ part = "Notify" /\ N!Next
        /\ UNCHANGED << cTxLock, xTasksWaitingToReceive >>
        /\ UNCHANGED << vars, ofQueueSet, ofSemaphore, ofSMP >>
     \/ /\ part = "QueueSet" /\ S!Next
        /\ UNCHANGED << vars, ofNotify, ofSemaphore, ofSMP >>
     \/ /\ part = "Semaphore" /\ P!Next
        /\ UNCHANGED << vars, ofNotify, ofQueueSet, ofSMP >>
     \/ /\ \/ part = "SMP" /\ M!Next
           \/ part = "SMP, one priority" /\ O!Next
        /\ UNCHANGED << vars, shared, ofNotify, ofQueueSet, ofSemaphore >>

ServicesSpec ==
  ServicesInit
    /\ [][ServicesNext]_<< part, vars, shared, ofNotify, ofQueueSet, ofSemaphore, ofSMP >>
-----------------------------------------------------------------------------
(* The properties are stated in the modules of the parts.                    *)

\* No notification of a blocked task is lost, and suspended tasks are told from
\* those that wait without an end.
NotifySound == part = "Notify" => N!NotifiedIsWoken /\ N!ResumesOnlySuspended

\* Each item of a member of the set is announced once, and who waits for the
\* handle of a member is woken for it.
ItemsAnnounced == part = "QueueSet" => S!EachItemAnnounced /\ S!SelectorsWoken

\* No give of a semaphore is lost.
TakersWoken == part = "Semaphore" => P!TakersWoken

\* The bookkeeping of several cores is sound: no task runs on two of them, no
\* request to yield is lost, and no task is freed that a core still runs.
CoresSound ==
  /\ part = "SMP" => M!CoresSound
  /\ part = "SMP, one priority" => O!CoresSound

\* Several cores run the tasks of the highest priorities.
RightTasksRun ==
  /\ part = "SMP" => M!RightTasksRun
  /\ part = "SMP, one priority" => O!RightTasksRun

Alike == Permutations(Worker)
=============================================================================
