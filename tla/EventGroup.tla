----------------------------- MODULE EventGroup -----------------------------
(***************************************************************************)
(* An event group of event_groups.c, the tasks that set, wait for and      *)
(* clear its bits, and the calls that interrupts leave to the timer task.  *)
(*                                                                         *)
(* Every function but xEventGroupClearBits works with the scheduler        *)
(* suspended, and no interrupt touches the group, so one action is what a  *)
(* function does up to xTaskResumeAll.  A task that blocked goes on later: *)
(* it learns from the value of its own event item whether bits were set    *)
(* for it, and else looks at the bits again.  In between other tasks set,  *)
(* clear and delete.                                                       *)
(***************************************************************************)
EXTENDS Integers, FiniteSets, Sequences

CONSTANTS
  Task,
  Bit,                 \* the bits of the group
  SyncBit,             \* the bit with which a task takes part in a rendezvous
  WaitCalls,           \* calls of xEventGroupWaitBits, with a block time or not
  SetChoices,          \* sets of bits that tasks and interrupts set and clear
  MaxPended            \* bound: calls left to the timer task

ASSUME EventGroupAssumption ==
  /\ SyncBit \in [Task -> Bit]
  /\ \A t, u \in Task : SyncBit[t] = SyncBit[u] => t = u
  /\ WaitCalls \subseteq [op : {"wait"}, bits : (SUBSET Bit) \ {{}},
                          clear : BOOLEAN, all : BOOLEAN]
  /\ SetChoices \subseteq SUBSET Bit
  /\ MaxPended \in Nat

VARIABLES
  exists,                   \* the group is created and not deleted
  uxEventBits,
  xTasksWaitingForBits,
  item,        \* the value of each task's event item
  call,        \* what a task called
  pended       \* the calls left to the timer task, in its command queue

vars == << exists, uxEventBits, xTasksWaitingForBits, item, call, pended >>

NoCall == [op |-> "none", bits |-> {}, clear |-> FALSE, all |-> FALSE]

\* The bits, the control bits, and eventUNBLOCKED_DUE_TO_BIT_SET.
NoItem == [bits |-> {}, clear |-> FALSE, all |-> FALSE, unblocked |-> FALSE]

Rendezvous == {SyncBit[t] : t \in Task}

Init ==
  /\ exists = TRUE /\ uxEventBits = {}
  /\ xTasksWaitingForBits = {}
  /\ item = [t \in Task |-> NoItem]
  /\ call = [t \in Task |-> NoCall]
  /\ pended = << >>
-----------------------------------------------------------------------------
prvTestWaitCondition(current, bits, all) ==
  IF all THEN bits \subseteq current ELSE bits \cap current # {}

\* What a woken task is told: all the bits at the set, those too that it or
\* another of the woken tasks clears.
Told(current, cleared) == current

\* Fault: the walk tests the bits as they were before the set.
F_MatchedByOldBits(current) ==
  {t \in xTasksWaitingForBits :
     prvTestWaitCondition(uxEventBits, item[t].bits, item[t].all)}

\* The waiting tasks that the walk through the list finds satisfied.
Matched(current) ==
  {t \in xTasksWaitingForBits :
     prvTestWaitCondition(current, item[t].bits, item[t].all)}

\* The bits that the tasks in woken asked to clear.
ToClear(woken) == UNION {item[t].bits : t \in {u \in woken : item[u].clear}}

\* xEventGroupSetBits: the list is walked with all the bits set, and what the
\* woken tasks asked to clear is cleared behind the walk.
AfterSet(bits) ==
  LET current == uxEventBits \cup bits
      woken == Matched(current)
      cleared == ToClear(woken)
  IN  [bits |-> current \ cleared,
       waiting |-> xTasksWaitingForBits \ woken,
       item |-> [t \in Task |->
         IF t \in woken
         THEN [NoItem EXCEPT !.bits = Told(current, cleared), !.unblocked = TRUE]
         ELSE item[t]]]

\* vTaskPlaceOnUnorderedEventList: t starts to wait as c says in group g.
Blocked(g, t, c) ==
  [g EXCEPT !.waiting = @ \cup {t},
            !.item[t] = [bits |-> c.bits, clear |-> c.clear, all |-> c.all,
                         unblocked |-> FALSE]]

Group == [bits |-> uxEventBits, waiting |-> xTasksWaitingForBits, item |-> item]

SetGroup(g) ==
  /\ uxEventBits' = g.bits
  /\ xTasksWaitingForBits' = g.waiting
  /\ item' = g.item
-----------------------------------------------------------------------------
\* Calls of tasks.

Ready(t) == exists /\ call[t] = NoCall

xEventGroupSetBits(t, bits) ==
  /\ Ready(t)
  /\ SetGroup(AfterSet(bits))
  /\ UNCHANGED << exists, call, pended >>

xEventGroupClearBits(t, bits) ==
  /\ Ready(t)
  /\ uxEventBits' = uxEventBits \ bits
  /\ UNCHANGED << exists, xTasksWaitingForBits, item, call, pended >>

\* xEventGroupWaitBits need not wait; when it must and has no block time, it
\* returns and nothing changes.
WaitReturns(t, c) ==
  /\ Ready(t)
  /\ prvTestWaitCondition(uxEventBits, c.bits, c.all)
  /\ uxEventBits' = IF c.clear THEN uxEventBits \ c.bits ELSE uxEventBits
  /\ UNCHANGED << exists, xTasksWaitingForBits, item, call, pended >>

WaitBlocks(t, c) ==
  /\ Ready(t)
  /\ ~prvTestWaitCondition(uxEventBits, c.bits, c.all)
  /\ SetGroup(Blocked(Group, t, c))
  /\ call' = [call EXCEPT ![t] = c]
  /\ UNCHANGED << exists, pended >>

\* Fault: the bits that the set has left decide.
F_CompleteAfterSet(t) == Rendezvous \subseteq AfterSet({SyncBit[t]}).bits

\* All have arrived, by the bits before the set, which itself may clear some.
Complete(t) == Rendezvous \subseteq uxEventBits \cup {SyncBit[t]}

\* xEventGroupSync sets its own bit in any case.
SyncCompletes(t) ==
  /\ Ready(t) /\ Complete(t)
  /\ LET g == AfterSet({SyncBit[t]})
     IN  SetGroup([g EXCEPT !.bits = @ \ Rendezvous])
  /\ UNCHANGED << exists, call, pended >>

\* Without a block time it leaves its bit and returns.
SyncBlocks(t, xTicksToWait) ==
  LET c == [op |-> "sync", bits |-> Rendezvous, clear |-> TRUE, all |-> TRUE]
      g == AfterSet({SyncBit[t]})
  IN /\ Ready(t) /\ ~Complete(t)
     /\ IF xTicksToWait = 0 THEN SetGroup(g) /\ UNCHANGED call
        ELSE SetGroup(Blocked(g, t, c)) /\ call' = [call EXCEPT ![t] = c]
     /\ UNCHANGED << exists, pended >>

Return(t) ==
  /\ call' = [call EXCEPT ![t] = NoCall]
  /\ item' = [item EXCEPT ![t] = NoItem]

Running(t) == call[t] # NoCall /\ t \notin xTasksWaitingForBits

\* t runs again and finds in its event item what it was woken with.
ReturnsUnblocked(t) ==
  /\ Running(t) /\ item[t].unblocked
  /\ Return(t)
  /\ UNCHANGED << exists, uxEventBits, xTasksWaitingForBits, pended >>

\* Its wait just ended: the bits may have been set since.
TimedOut(t) ==
  /\ Running(t) /\ ~item[t].unblocked
  /\ uxEventBits' =
       IF /\ prvTestWaitCondition(uxEventBits, call[t].bits, call[t].all)
          /\ call[t].clear
       THEN uxEventBits \ call[t].bits ELSE uxEventBits
  /\ Return(t)
  /\ UNCHANGED << exists, xTasksWaitingForBits, pended >>

\* The tick or xTaskAbortDelay takes t off the list; an abort, like a
\* suspension, ends a wait without an end too.
Expire(t) ==
  /\ t \in xTasksWaitingForBits
  /\ xTasksWaitingForBits' = xTasksWaitingForBits \ {t}
  /\ UNCHANGED << exists, uxEventBits, item, call, pended >>
-----------------------------------------------------------------------------
\* Deletion, creation, and the calls of interrupts.

\* The application deletes a group that nobody but its waiting tasks uses.
vEventGroupDelete ==
  /\ exists /\ pended = << >>
  /\ \A t \in Task : Running(t) => item[t].unblocked
  /\ exists' = FALSE
  /\ uxEventBits' = {} /\ xTasksWaitingForBits' = {}
  /\ item' = [t \in Task |-> IF t \in xTasksWaitingForBits
                             THEN [NoItem EXCEPT !.unblocked = TRUE] ELSE item[t]]
  /\ UNCHANGED << call, pended >>

xEventGroupCreate ==
  /\ ~exists
  /\ exists' = TRUE
  /\ uxEventBits' = {} /\ xTasksWaitingForBits' = {}
  /\ UNCHANGED << item, call, pended >>

\* xTimerPendFunctionCallFromISR fails when the command queue is full.
xEventGroupSetBitsFromISR(bits) ==
  /\ exists /\ Len(pended) < MaxPended
  /\ pended' = Append(pended, [sets |-> TRUE, bits |-> bits])
  /\ UNCHANGED << exists, uxEventBits, xTasksWaitingForBits, item, call >>

xEventGroupClearBitsFromISR(bits) ==
  /\ exists /\ Len(pended) < MaxPended
  /\ pended' = Append(pended, [sets |-> FALSE, bits |-> bits])
  /\ UNCHANGED << exists, uxEventBits, xTasksWaitingForBits, item, call >>

vEventGroupSetBitsCallback ==
  /\ pended # << >> /\ Head(pended).sets
  /\ SetGroup(AfterSet(Head(pended).bits))
  /\ pended' = Tail(pended)
  /\ UNCHANGED << exists, call >>

vEventGroupClearBitsCallback ==
  /\ pended # << >> /\ ~Head(pended).sets
  /\ uxEventBits' = uxEventBits \ Head(pended).bits
  /\ pended' = Tail(pended)
  /\ UNCHANGED << exists, xTasksWaitingForBits, item, call >>
-----------------------------------------------------------------------------
CallOf(t) ==
  \/ \E bits \in SetChoices :
       xEventGroupSetBits(t, bits) \/ xEventGroupClearBits(t, bits)
  \/ \E c \in WaitCalls : WaitReturns(t, c) \/ WaitBlocks(t, c)
  \/ SyncCompletes(t) \/ \E xTicksToWait \in {0, 1} : SyncBlocks(t, xTicksToWait)

Next ==
  \/ \E t \in Task : CallOf(t) \/ ReturnsUnblocked(t) \/ TimedOut(t) \/ Expire(t)
  \/ vEventGroupDelete \/ xEventGroupCreate
  \/ \E bits \in SetChoices :
       xEventGroupSetBitsFromISR(bits) \/ xEventGroupClearBitsFromISR(bits)
  \/ vEventGroupSetBitsCallback \/ vEventGroupClearBitsCallback

Spec == Init /\ [][Next]_vars
-----------------------------------------------------------------------------
TypeOK ==
  /\ exists \in BOOLEAN
  /\ uxEventBits \subseteq Bit
  /\ xTasksWaitingForBits \subseteq Task
  /\ item \in [Task -> [bits : SUBSET Bit, clear : BOOLEAN, all : BOOLEAN,
                        unblocked : BOOLEAN]]
  /\ call \in [Task -> [op : {"none", "wait", "sync"}, bits : SUBSET Bit,
                        clear : BOOLEAN, all : BOOLEAN]]
  /\ pended \in Seq([sets : BOOLEAN, bits : SUBSET Bit])

\* No task stays blocked for bits that are set: neither a set that wakes and
\* clears for several tasks at once, nor a rendezvous, a clear, a late call of
\* the timer task or a new group leaves one behind.
NoneWaitsInVain ==
  \A t \in xTasksWaitingForBits :
    /\ exists
    /\ ~prvTestWaitCondition(uxEventBits, call[t].bits, call[t].all)

\* A task that was woken for its bits is told of bits that do satisfy it,
\* although the group may hold others, or be gone, when it runs.
ToldOfItsBits ==
  \A t \in Task :
    Running(t) /\ item[t].unblocked =>
      \/ prvTestWaitCondition(item[t].bits, call[t].bits, call[t].all)
      \/ item[t].bits = {}        \* the group was deleted

\* Both: who waits and who was woken agree with the bits.
GroupSound == NoneWaitsInVain /\ ToldOfItsBits

\* xEventGroupSync is a rendezvous: no task gets past it before all have set
\* their bits, and nobody who waits is left behind, whoever times out, and
\* whatever other bits are waited for and cleared meanwhile.
Rounds ==
  INSTANCE Barrier WITH
    Participant <- Task,
    arrived <- {t \in Task : SyncBit[t] \in uxEventBits},
    waiting <- {t \in xTasksWaitingForBits : call[t].op = "sync"}

ImplementsBarrier == Rounds!Spec
=============================================================================
