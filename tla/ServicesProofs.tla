--------------------------- MODULE ServicesProofs ---------------------------
(***************************************************************************)
(* Proofs about the parts of MCServices, for any tasks, bits, indexes and  *)
(* members.  Of an event group: nobody waits for bits that are set, who    *)
(* was woken is told of bits that satisfy it, and xEventGroupSync is a     *)
(* rendezvous as long as no other call sets or clears its bits.  Of task   *)
(* notifications: none of a blocked task is lost.  And what the proofs of  *)
(* Semaphore and QueueSet show holds of those two among the parts.         *)
(***************************************************************************)
EXTENDS MCServices, ListRingProofs
-----------------------------------------------------------------------------
(* The event group.                                                          *)

Satisfied(t, current) ==
  prvTestWaitCondition(current, call[t].bits, call[t].all)

\* The call of xEventGroupSync.
SyncCall == [op |-> "sync", bits |-> Rendezvous, clear |-> TRUE, all |-> TRUE]

\* What a task called, as long as its call lasts.
CallOK(t) == call[t] \in WaitCalls \cup {NoCall, SyncCall}

\* The event item of a task that waits holds the bits it waits for, of a task
\* that was woken the bits it was woken with.
ItemOK(t) ==
  /\ t \in xTasksWaitingForBits =>
       /\ exists /\ call[t] # NoCall /\ ~Satisfied(t, uxEventBits)
       /\ item[t] = [bits |-> call[t].bits, clear |-> call[t].clear,
                     all |-> call[t].all, unblocked |-> FALSE]
  /\ call[t] = NoCall => item[t] = NoItem
  /\ item[t].unblocked => Satisfied(t, item[t].bits) \/ item[t].bits = {}

\* The inductive invariant.
Inv ==
  /\ TypeOK
  /\ \A t \in Task : CallOK(t) /\ ItemOK(t)
-----------------------------------------------------------------------------
\* Fewer bits do not satisfy a task that more did not.
LEMMA FewerBits ==
  ASSUME NEW less, NEW more, less \subseteq more, NEW bits, NEW all,
         ~prvTestWaitCondition(more, bits, all)
  PROVE  ~prvTestWaitCondition(less, bits, all)
BY DEF prvTestWaitCondition

\* The rendezvous is made of bits of the group, and a call of it is a call.
LEMMA RendezvousBits ==
  /\ Rendezvous \subseteq Bit
  /\ \A t \in Task : SyncBit[t] \in Rendezvous
BY EventGroupAssumption DEF EventGroupAssumption, Rendezvous

\* The calls, told apart by their names.
LEMMA CallTypes ==
  /\ WaitCalls \cup {NoCall, SyncCall} \subseteq
       [op : {"none", "wait", "sync"}, bits : SUBSET Bit, clear : BOOLEAN,
        all : BOOLEAN]
  /\ \A c \in WaitCalls : c.op = "wait" /\ c # NoCall
  /\ NoCall.op = "none" /\ SyncCall.op = "sync" /\ SyncCall # NoCall
  /\ SyncCall.bits = Rendezvous /\ SyncCall.all = TRUE
<1>1. /\ \A c \in WaitCalls : c.op = "wait"
      /\ WaitCalls \subseteq
           [op : {"none", "wait", "sync"}, bits : SUBSET Bit, clear : BOOLEAN,
            all : BOOLEAN]
  BY EventGroupAssumption DEF EventGroupAssumption
<1>2. /\ NoCall.op = "none" /\ SyncCall.op = "sync"
      /\ SyncCall.bits = Rendezvous /\ SyncCall.all = TRUE
  BY DEF NoCall, SyncCall
<1>3. {NoCall, SyncCall} \subseteq
        [op : {"none", "wait", "sync"}, bits : SUBSET Bit, clear : BOOLEAN,
         all : BOOLEAN]
  BY RendezvousBits DEF NoCall, SyncCall
<1> QED BY <1>1, <1>2, <1>3

\* What a set leaves: no satisfied task waits, and who was woken is told of
\* the bits it waited for.
LEMMA AfterSetFacts ==
  ASSUME Inv, NEW bits \in SUBSET Bit
  PROVE  /\ AfterSet(bits).bits \subseteq uxEventBits \cup bits
         /\ AfterSet(bits).bits \subseteq Bit
         /\ AfterSet(bits).waiting \subseteq xTasksWaitingForBits
         /\ AfterSet(bits).waiting \subseteq Task
         /\ AfterSet(bits).item \in
              [Task -> [bits : SUBSET Bit, clear : BOOLEAN, all : BOOLEAN,
                        unblocked : BOOLEAN]]
         /\ \A t \in AfterSet(bits).waiting :
              /\ ~Satisfied(t, AfterSet(bits).bits)
              /\ AfterSet(bits).item[t] = item[t]
         /\ \A t \in Task :
              \/ AfterSet(bits).item[t] = item[t]
              \/ /\ t \in xTasksWaitingForBits \ AfterSet(bits).waiting
                 /\ AfterSet(bits).item[t] =
                      [NoItem EXCEPT !.bits = uxEventBits \cup bits, !.unblocked = TRUE]
                 /\ Satisfied(t, uxEventBits \cup bits)
<1> DEFINE current == uxEventBits \cup bits
           woken == Matched(current)
           cleared == ToClear(woken)
<1>1. /\ AfterSet(bits).bits = current \ cleared
      /\ AfterSet(bits).waiting = xTasksWaitingForBits \ woken
      /\ AfterSet(bits).item = [t \in Task |->
           IF t \in woken
           THEN [NoItem EXCEPT !.bits = current, !.unblocked = TRUE] ELSE item[t]]
  BY DEF AfterSet, Told
<1>2. /\ uxEventBits \subseteq Bit /\ xTasksWaitingForBits \subseteq Task
      /\ item \in [Task -> [bits : SUBSET Bit, clear : BOOLEAN, all : BOOLEAN,
                            unblocked : BOOLEAN]]
  BY DEF Inv, TypeOK
<1>3. \A t \in xTasksWaitingForBits :
        item[t].bits = call[t].bits /\ item[t].all = call[t].all
  BY <1>2 DEF Inv, ItemOK
<1>4. woken = {t \in xTasksWaitingForBits : Satisfied(t, current)}
  BY <1>3 DEF Matched, Satisfied
<1>5. current \subseteq Bit /\ current \ cleared \subseteq current
  BY <1>2
<1>6. [NoItem EXCEPT !.bits = current, !.unblocked = TRUE] \in
        [bits : SUBSET Bit, clear : BOOLEAN, all : BOOLEAN, unblocked : BOOLEAN]
  BY <1>5 DEF NoItem
<1> HIDE DEF current, woken, cleared
<1>7. \A t \in xTasksWaitingForBits \ woken : ~Satisfied(t, current \ cleared)
  BY <1>4, <1>5, FewerBits DEF Satisfied
<1>8. AfterSet(bits).bits \subseteq current /\ AfterSet(bits).bits \subseteq Bit
  BY <1>1, <1>5
<1>9. AfterSet(bits).item \in
        [Task -> [bits : SUBSET Bit, clear : BOOLEAN, all : BOOLEAN,
                  unblocked : BOOLEAN]]
  BY <1>1, <1>2, <1>6
<1>10. \A t \in AfterSet(bits).waiting :
         ~Satisfied(t, AfterSet(bits).bits) /\ AfterSet(bits).item[t] = item[t]
  BY <1>1, <1>2, <1>7
<1>11. ASSUME NEW t \in Task
       PROVE  \/ AfterSet(bits).item[t] = item[t]
              \/ /\ t \in xTasksWaitingForBits \ AfterSet(bits).waiting
                 /\ AfterSet(bits).item[t] =
                      [NoItem EXCEPT !.bits = current, !.unblocked = TRUE]
                 /\ Satisfied(t, current)
  BY <1>1, <1>2, <1>4
<1> QED BY <1>1, <1>2, <1>8, <1>9, <1>10, <1>11 DEF current

\* A set, and what the task that set clears at once, keeps the invariant.
LEMMA SetInv ==
  ASSUME Inv, NEW bits \in SUBSET Bit, NEW extra,
         uxEventBits' = AfterSet(bits).bits \ extra,
         xTasksWaitingForBits' = AfterSet(bits).waiting,
         item' = AfterSet(bits).item, UNCHANGED << exists, call >>,
         pended' \in Seq([sets : BOOLEAN, bits : SUBSET Bit])
  PROVE  Inv'
<1>1. TypeOK'
  BY AfterSetFacts DEF Inv, TypeOK
<1>2. ASSUME NEW t \in Task PROVE CallOK(t)'
  BY DEF Inv, CallOK
<1>3. ASSUME NEW t \in Task PROVE ItemOK(t)'
  <2>1. /\ CallOK(t) /\ ItemOK(t) /\ call' = call /\ exists' = exists
        /\ \A current : Satisfied(t, current)' = Satisfied(t, current)
    BY DEF Inv, Satisfied
  <2>2. xTasksWaitingForBits' \subseteq xTasksWaitingForBits
    BY AfterSetFacts
  <2>3. t \in xTasksWaitingForBits' =>
          ~Satisfied(t, uxEventBits') /\ item'[t] = item[t]
    <3>1. t \in xTasksWaitingForBits' =>
            ~Satisfied(t, AfterSet(bits).bits) /\ item'[t] = item[t]
      BY AfterSetFacts
    <3>2. uxEventBits' \subseteq AfterSet(bits).bits
      OBVIOUS
    <3> QED BY <3>1, <3>2, FewerBits DEF Satisfied
  <2>4. \/ item'[t] = item[t]
        \/ /\ t \in xTasksWaitingForBits /\ t \notin xTasksWaitingForBits'
           /\ item'[t] =
                [NoItem EXCEPT !.bits = uxEventBits \cup bits, !.unblocked = TRUE]
           /\ Satisfied(t, uxEventBits \cup bits)
    BY AfterSetFacts
  <2>5. CASE item'[t] = item[t]
    BY <2>1, <2>2, <2>3, <2>5 DEF ItemOK, Satisfied
  <2>6. CASE /\ t \in xTasksWaitingForBits /\ t \notin xTasksWaitingForBits'
             /\ item'[t] =
                  [NoItem EXCEPT !.bits = uxEventBits \cup bits, !.unblocked = TRUE]
             /\ Satisfied(t, uxEventBits \cup bits)
    <3>1. item'[t].bits = uxEventBits \cup bits
      BY <2>6 DEF NoItem
    <3>2. call[t] # NoCall
      BY <2>1, <2>6 DEF ItemOK
    <3> QED BY <2>1, <2>6, <3>1, <3>2 DEF ItemOK, Satisfied
  <2> QED BY <2>4, <2>5, <2>6
<1> QED BY <1>1, <1>2, <1>3 DEF Inv

\* Bits are cleared, or calls left to the timer task, and nobody is woken.
LEMMA ClearInv ==
  ASSUME Inv, uxEventBits' \subseteq uxEventBits,
         UNCHANGED << exists, xTasksWaitingForBits, item, call >>,
         pended' \in Seq([sets : BOOLEAN, bits : SUBSET Bit])
  PROVE  Inv'
<1>1. TypeOK'
  BY DEF Inv, TypeOK
<1>2. ASSUME NEW t \in Task PROVE CallOK(t)'
  BY DEF Inv, CallOK
<1>3. ASSUME NEW t \in Task PROVE ItemOK(t)'
  <2>1. ItemOK(t) /\ (~Satisfied(t, uxEventBits) => ~Satisfied(t, uxEventBits'))
    BY FewerBits DEF Inv, Satisfied
  <2> QED BY <2>1 DEF ItemOK, Satisfied
<1> QED BY <1>1, <1>2, <1>3 DEF Inv

\* A task that waits no longer returns from its call.
LEMMA ReturnInv ==
  ASSUME Inv, NEW t \in Task, Running(t), Return(t),
         uxEventBits' \subseteq uxEventBits,
         UNCHANGED << exists, xTasksWaitingForBits, pended >>
  PROVE  Inv'
<1>1. TypeOK'
  BY DEF Inv, TypeOK, Return, NoCall, NoItem
<1>2. /\ call'[t] = NoCall /\ item'[t] = NoItem /\ t \notin xTasksWaitingForBits'
      /\ \A u \in Task \ {t} : call'[u] = call[u] /\ item'[u] = item[u]
  BY DEF Inv, TypeOK, Running, Return
<1>3. ASSUME NEW u \in Task PROVE CallOK(u)'
  <2>1. CASE u = t
    BY <1>2, <2>1 DEF CallOK
  <2>2. CASE u # t
    <3>1. CallOK(u) /\ call'[u] = call[u]
      BY <1>2, <2>2 DEF Inv
    <3> QED BY <3>1 DEF CallOK
  <2> QED BY <2>1, <2>2
<1>4. ASSUME NEW u \in Task PROVE ItemOK(u)'
  <2>1. ItemOK(u) /\ (~Satisfied(u, uxEventBits) => ~Satisfied(u, uxEventBits'))
    BY FewerBits DEF Inv, Satisfied
  <2>2. CASE u = t
    BY <1>2, <2>2 DEF ItemOK, NoItem
  <2>3. CASE u # t
    BY <1>2, <2>1, <2>3 DEF ItemOK, Satisfied
  <2> QED BY <2>2, <2>3
<1> QED BY <1>1, <1>3, <1>4 DEF Inv

\* A task starts to wait in a group g that holds no bits that satisfy it.
LEMMA BlockInv ==
  ASSUME Inv, NEW t \in Task, Ready(t),
         NEW bits, NEW waiting, NEW items,
         bits \subseteq Bit, waiting \subseteq xTasksWaitingForBits,
         items \in [Task -> [bits : SUBSET Bit, clear : BOOLEAN, all : BOOLEAN,
                             unblocked : BOOLEAN]],
         \A u \in waiting : ~Satisfied(u, bits) /\ items[u] = item[u],
         \A u \in Task :
           \/ items[u] = item[u]
           \/ /\ u \in xTasksWaitingForBits \ waiting
              /\ items[u].unblocked
              /\ Satisfied(u, items[u].bits),
         NEW c \in WaitCalls \cup {SyncCall},
         ~prvTestWaitCondition(bits, c.bits, c.all),
         uxEventBits' = bits, xTasksWaitingForBits' = waiting \cup {t},
         item' = [items EXCEPT ![t] = [bits |-> c.bits, clear |-> c.clear,
                                       all |-> c.all, unblocked |-> FALSE]],
         call' = [call EXCEPT ![t] = c], UNCHANGED << exists, pended >>
  PROVE  Inv'
<1>1. /\ exists /\ call[t] = NoCall /\ t \notin xTasksWaitingForBits
      /\ t \notin waiting /\ waiting \subseteq Task
  BY DEF Ready, Inv, ItemOK, TypeOK
<1>2. /\ uxEventBits' = bits /\ xTasksWaitingForBits' = waiting \cup {t}
      /\ item' = [items EXCEPT ![t] = [bits |-> c.bits, clear |-> c.clear,
                                      all |-> c.all, unblocked |-> FALSE]]
  OBVIOUS
<1>3. /\ c \in [op : {"none", "wait", "sync"}, bits : SUBSET Bit, clear : BOOLEAN,
                all : BOOLEAN]
      /\ c # NoCall
  BY CallTypes
<1>4. TypeOK'
  BY <1>1, <1>2, <1>3 DEF Inv, TypeOK
<1>5. /\ call'[t] = c
      /\ item'[t] = [bits |-> c.bits, clear |-> c.clear, all |-> c.all,
                     unblocked |-> FALSE]
      /\ \A u \in Task \ {t} : call'[u] = call[u] /\ item'[u] = items[u]
  BY <1>2 DEF Inv, TypeOK
<1>6. ASSUME NEW u \in Task PROVE CallOK(u)'
  <2>1. CASE u = t
    BY <1>5, <2>1 DEF CallOK
  <2>2. CASE u # t
    <3>1. CallOK(u) /\ call'[u] = call[u]
      BY <1>5, <2>2 DEF Inv
    <3> QED BY <3>1 DEF CallOK
  <2> QED BY <2>1, <2>2
<1>7. ASSUME NEW u \in Task PROVE ItemOK(u)'
  <2>1. CASE u = t
    <3>1. c # NoCall
      BY <1>3
    <3>2. ~Satisfied(t, uxEventBits)'
      BY <1>2, <1>5 DEF Satisfied
    <3>3. exists' /\ ~item'[t].unblocked
      BY <1>1, <1>5
    <3> QED BY <1>5, <2>1, <3>1, <3>2, <3>3 DEF ItemOK
  <2>2. CASE u # t
    <3>1. ItemOK(u) /\ call'[u] = call[u] /\ item'[u] = items[u]
      BY <1>5, <2>2 DEF Inv
    <3>2. u \in xTasksWaitingForBits' => u \in waiting
      BY <1>2, <2>2
    <3>3. CASE items[u] = item[u]
      BY <1>1, <1>2, <3>1, <3>2, <3>3 DEF ItemOK, Satisfied
    <3>4. CASE /\ u \in xTasksWaitingForBits \ waiting
               /\ items[u].unblocked /\ Satisfied(u, items[u].bits)
      BY <1>1, <1>2, <3>1, <3>2, <3>4 DEF ItemOK, Satisfied
    <3> QED BY <3>3, <3>4
  <2> QED BY <2>1, <2>2
<1> QED BY <1>4, <1>6, <1>7 DEF Inv

\* xEventGroupWaitBits blocks.
LEMMA WaitBlocksInv ==
  ASSUME Inv, NEW t \in Task, NEW c \in WaitCalls, WaitBlocks(t, c)
  PROVE  Inv'
<1>1. c \in WaitCalls \cup {SyncCall}
  OBVIOUS
<1>2. /\ uxEventBits \subseteq Bit
      /\ item \in [Task -> [bits : SUBSET Bit, clear : BOOLEAN, all : BOOLEAN,
                            unblocked : BOOLEAN]]
      /\ \A u \in xTasksWaitingForBits : ~Satisfied(u, uxEventBits)
  BY DEF Inv, TypeOK, ItemOK
<1>3. /\ Ready(t) /\ ~prvTestWaitCondition(uxEventBits, c.bits, c.all)
      /\ uxEventBits' = uxEventBits
      /\ xTasksWaitingForBits' = xTasksWaitingForBits \cup {t}
      /\ item' = [item EXCEPT ![t] = [bits |-> c.bits, clear |-> c.clear,
                                     all |-> c.all, unblocked |-> FALSE]]
      /\ call' = [call EXCEPT ![t] = c] /\ UNCHANGED << exists, pended >>
  BY DEF WaitBlocks, Group, SetGroup, Blocked
<1> QED BY <1>1, <1>2, <1>3, BlockInv

\* xEventGroupSync before the others have arrived.
LEMMA SyncBlocksInv ==
  ASSUME Inv, NEW t \in Task, NEW xTicksToWait, SyncBlocks(t, xTicksToWait)
  PROVE  Inv'
<1> DEFINE c == SyncCall
           g == AfterSet({SyncBit[t]})
<1>1. {SyncBit[t]} \in SUBSET Bit
  BY RendezvousBits
<1>2. CASE xTicksToWait = 0
  <2>1. SetGroup(g) /\ UNCHANGED << exists, call, pended >>
    BY <1>2 DEF SyncBlocks
  <2>2. g.bits \ {} = g.bits /\ pended' \in Seq([sets : BOOLEAN, bits : SUBSET Bit])
    BY <2>1 DEF Inv, TypeOK
  <2> QED BY <1>1, <2>1, <2>2, SetInv DEF SetGroup
<1>3. CASE xTicksToWait # 0
  <2>1. /\ Ready(t) /\ ~Complete(t)
        /\ call' = [call EXCEPT ![t] = c] /\ UNCHANGED << exists, pended >>
    BY <1>3 DEF SyncBlocks, SyncCall
  <2>2. /\ uxEventBits' = g.bits /\ xTasksWaitingForBits' = g.waiting \cup {t}
        /\ item' = [g.item EXCEPT ![t] = [bits |-> c.bits, clear |-> c.clear,
                                         all |-> c.all, unblocked |-> FALSE]]
    BY <1>3 DEF SyncBlocks, SyncCall, SetGroup, Blocked, AfterSet
  <2>3. ~prvTestWaitCondition(g.bits, c.bits, c.all)
    <3>1. ~prvTestWaitCondition(uxEventBits \cup {SyncBit[t]}, c.bits, c.all)
      BY <2>1, CallTypes DEF Complete, prvTestWaitCondition
    <3>2. g.bits \subseteq uxEventBits \cup {SyncBit[t]}
      BY <1>1, AfterSetFacts
    <3> QED BY <3>1, <3>2, FewerBits
  <2>4. \A u \in Task :
          \/ g.item[u] = item[u]
          \/ /\ u \in xTasksWaitingForBits \ g.waiting
             /\ g.item[u].unblocked /\ Satisfied(u, g.item[u].bits)
    <3> TAKE u \in Task
    <3>1. \/ g.item[u] = item[u]
          \/ /\ u \in xTasksWaitingForBits \ g.waiting
             /\ g.item[u] = [NoItem EXCEPT !.bits = uxEventBits \cup {SyncBit[t]},
                                           !.unblocked = TRUE]
             /\ Satisfied(u, uxEventBits \cup {SyncBit[t]})
      BY <1>1, AfterSetFacts
    <3> QED BY <3>1 DEF NoItem
  <2>5. /\ g.bits \subseteq Bit /\ g.waiting \subseteq xTasksWaitingForBits
        /\ g.item \in [Task -> [bits : SUBSET Bit, clear : BOOLEAN, all : BOOLEAN,
                                unblocked : BOOLEAN]]
        /\ \A u \in g.waiting : ~Satisfied(u, g.bits) /\ g.item[u] = item[u]
    BY <1>1, AfterSetFacts
  <2>6. c \in WaitCalls \cup {SyncCall}
    OBVIOUS
  <2> HIDE DEF c, g
  <2> QED BY <2>1, <2>2, <2>3, <2>4, <2>5, <2>6, BlockInv
<1> QED BY <1>2, <1>3

\* The wait of a task ends without its bits.
LEMMA ExpireInv ==
  ASSUME Inv, NEW t \in Task, Expire(t)
  PROVE  Inv'
<1>1. TypeOK'
  BY DEF Inv, TypeOK, Expire
<1>2. ASSUME NEW u \in Task PROVE CallOK(u)' /\ ItemOK(u)'
  BY DEF Inv, CallOK, ItemOK, Satisfied, Expire
<1> QED BY <1>1, <1>2 DEF Inv

\* A group is deleted, and its waiting tasks are told that no bits are set.
LEMMA DeleteInv ==
  ASSUME Inv, vEventGroupDelete
  PROVE  Inv'
<1>1. /\ [NoItem EXCEPT !.unblocked = TRUE] \in
            [bits : SUBSET Bit, clear : BOOLEAN, all : BOOLEAN, unblocked : BOOLEAN]
      /\ [NoItem EXCEPT !.unblocked = TRUE].bits = {}
  BY DEF NoItem
<1>2. TypeOK'
  BY <1>1 DEF Inv, TypeOK, vEventGroupDelete
<1>3. ASSUME NEW u \in Task PROVE CallOK(u)' /\ ItemOK(u)'
  BY <1>1 DEF Inv, CallOK, ItemOK, Satisfied, vEventGroupDelete
<1> QED BY <1>2, <1>3 DEF Inv

\* A group is created.
LEMMA CreateInv ==
  ASSUME Inv, xEventGroupCreate
  PROVE  Inv'
<1>1. TypeOK'
  BY DEF Inv, TypeOK, xEventGroupCreate
<1>2. ASSUME NEW u \in Task PROVE CallOK(u)' /\ ItemOK(u)'
  BY DEF Inv, CallOK, ItemOK, Satisfied, xEventGroupCreate
<1> QED BY <1>1, <1>2 DEF Inv

\* The calls left to the timer task.
LEMMA PendedCalls ==
  ASSUME NEW Calls, NEW s \in Seq(Calls)
  PROVE  /\ \A c \in Calls : Append(s, c) \in Seq(Calls)
         /\ s # << >> => Tail(s) \in Seq(Calls) /\ Head(s) \in Calls
BY HeadTailProperties, AppendProperties

\* Every step keeps the invariant.
LEMMA StepInv == Inv /\ [Next]_vars => Inv'
<1> DEFINE Calls == Seq([sets : BOOLEAN, bits : SUBSET Bit])
<1> SUFFICES ASSUME Inv, [Next]_vars PROVE Inv'
  OBVIOUS
<1>1. /\ \A bits \in SetChoices : bits \in SUBSET Bit
      /\ pended \in Calls
  BY EventGroupAssumption DEF EventGroupAssumption, Inv, TypeOK
<1>2. ASSUME NEW t \in Task, CallOf(t) PROVE Inv'
  <2>1. ASSUME NEW bits \in SetChoices, xEventGroupSetBits(t, bits) PROVE Inv'
    <3>1. /\ uxEventBits' = AfterSet(bits).bits \ {}
          /\ xTasksWaitingForBits' = AfterSet(bits).waiting
          /\ item' = AfterSet(bits).item /\ UNCHANGED << exists, call, pended >>
      BY <2>1 DEF xEventGroupSetBits, SetGroup
    <3> QED BY <1>1, <3>1, SetInv
  <2>2. ASSUME NEW bits \in SetChoices, xEventGroupClearBits(t, bits) PROVE Inv'
    BY <1>1, <2>2, ClearInv DEF xEventGroupClearBits
  <2>3. ASSUME NEW c \in WaitCalls, WaitReturns(t, c) PROVE Inv'
    BY <1>1, <2>3, ClearInv DEF WaitReturns
  <2>4. CASE SyncCompletes(t)
    <3>1. /\ uxEventBits' = AfterSet({SyncBit[t]}).bits \ Rendezvous
          /\ xTasksWaitingForBits' = AfterSet({SyncBit[t]}).waiting
          /\ item' = AfterSet({SyncBit[t]}).item
          /\ UNCHANGED << exists, call, pended >>
      BY <2>4 DEF SyncCompletes, SetGroup, AfterSet
    <3>2. {SyncBit[t]} \in SUBSET Bit
      BY RendezvousBits
    <3> QED BY <1>1, <3>1, <3>2, SetInv
  <2> QED BY <1>2, <2>1, <2>2, <2>3, <2>4, WaitBlocksInv, SyncBlocksInv DEF CallOf
<1>3. ASSUME NEW t \in Task, ReturnsUnblocked(t) \/ TimedOut(t) PROVE Inv'
  <2>1. /\ Running(t) /\ Return(t) /\ uxEventBits' \subseteq uxEventBits
        /\ UNCHANGED << exists, xTasksWaitingForBits, pended >>
    BY <1>3 DEF ReturnsUnblocked, TimedOut
  <2> QED BY <2>1, ReturnInv
<1>4. ASSUME NEW bits \in SetChoices,
             xEventGroupSetBitsFromISR(bits) \/ xEventGroupClearBitsFromISR(bits)
      PROVE  Inv'
  <2>1. pended' \in Calls
    <3>1. \A c \in [sets : BOOLEAN, bits : SUBSET Bit] : Append(pended, c) \in Calls
      BY <1>1, PendedCalls
    <3> QED BY <1>1, <1>4, <3>1
            DEF xEventGroupSetBitsFromISR, xEventGroupClearBitsFromISR
  <2> QED BY <1>4, <2>1, ClearInv
          DEF xEventGroupSetBitsFromISR, xEventGroupClearBitsFromISR
<1>5. pended # << >> => Tail(pended) \in Calls /\ Head(pended).bits \in SUBSET Bit
  <2>1. pended # << >> => /\ Tail(pended) \in Calls
                          /\ Head(pended) \in [sets : BOOLEAN, bits : SUBSET Bit]
    BY <1>1, PendedCalls
  <2> QED BY <2>1
<1>6. CASE vEventGroupSetBitsCallback
  <2>1. /\ uxEventBits' = AfterSet(Head(pended).bits).bits \ {}
        /\ xTasksWaitingForBits' = AfterSet(Head(pended).bits).waiting
        /\ item' = AfterSet(Head(pended).bits).item /\ UNCHANGED << exists, call >>
        /\ pended' \in Calls /\ Head(pended).bits \in SUBSET Bit
    BY <1>5, <1>6 DEF vEventGroupSetBitsCallback, SetGroup
  <2> QED BY <2>1, SetInv
<1>7. CASE vEventGroupClearBitsCallback
  BY <1>5, <1>7, ClearInv DEF vEventGroupClearBitsCallback
<1>8. CASE UNCHANGED vars
  BY <1>1, <1>8, ClearInv DEF vars
<1> QED BY <1>2, <1>3, <1>4, <1>6, <1>7, <1>8, ExpireInv, DeleteInv, CreateInv
        DEF Next

\* The initial state.
LEMMA InitInv == Init => Inv
<1> SUFFICES ASSUME Init PROVE Inv
  OBVIOUS
<1>1. /\ exists /\ uxEventBits = {} /\ xTasksWaitingForBits = {} /\ pended = << >>
      /\ \A t \in Task : call[t] = NoCall /\ item[t] = NoItem /\ ~item[t].unblocked
  BY DEF Init, NoItem
<1>2. TypeOK
  BY <1>1, CallTypes DEF Init, TypeOK, NoItem
<1> QED BY <1>1, <1>2 DEF Inv, CallOK, ItemOK

\* Type correctness of an event group, for any tasks, bits and calls.
THEOREM EventGroupType == Spec => []TypeOK
<1>1. Inv => TypeOK
  BY DEF Inv
<1> QED BY <1>1, InitInv, StepInv, PTL DEF Spec

\* Who waits for bits and who was woken agree with the bits of the group: no
\* task stays blocked for bits that are set, whichever of xEventGroupSetBits,
\* xEventGroupSync, the timer task and a deletion set or cleared them, and one
\* that was woken is told of bits that satisfy it.
THEOREM EventGroupSound == Spec => []GroupSound
<1>1. Inv => GroupSound
  BY DEF Inv, TypeOK, ItemOK, Satisfied, GroupSound, NoneWaitsInVain, ToldOfItsBits
<1> QED BY <1>1, InitInv, StepInv, PTL DEF Spec
-----------------------------------------------------------------------------
\* The rendezvous.

\* No other call sets or clears its bits.
Undisturbed ==
  /\ \A bits \in SetChoices : bits \cap Rendezvous = {}
  /\ \A c \in WaitCalls : c.clear => c.bits \cap Rendezvous = {}

\* Nor do the calls left to the timer task.
PendedOK == pended \in Seq([sets : BOOLEAN, bits : SetChoices])

Arrived == {t \in Task : SyncBit[t] \in uxEventBits}
Syncs == {t \in xTasksWaitingForBits : call[t].op = "sync"}

\* Calls are left to the timer task, and taken from its queue.
LEMMA StepPended == PendedOK /\ [Next]_vars => PendedOK'
<1> SUFFICES ASSUME PendedOK, [Next]_vars PROVE PendedOK'
  OBVIOUS
<1>1. CASE UNCHANGED pended
  BY <1>1 DEF PendedOK
<1>2. CASE pended # << >> /\ pended' = Tail(pended)
  BY <1>2, PendedCalls DEF PendedOK
<1>3. ASSUME NEW bits \in SetChoices,
             xEventGroupSetBitsFromISR(bits) \/ xEventGroupClearBitsFromISR(bits)
      PROVE  PendedOK'
  <2>1. \A c \in [sets : BOOLEAN, bits : SetChoices] : Append(pended, c) \in
          Seq([sets : BOOLEAN, bits : SetChoices])
    BY PendedCalls DEF PendedOK
  <2> QED BY <1>3, <2>1
          DEF PendedOK, xEventGroupSetBitsFromISR, xEventGroupClearBitsFromISR
<1>4. ASSUME NEW t \in Task,
             CallOf(t) \/ ReturnsUnblocked(t) \/ TimedOut(t) \/ Expire(t)
      PROVE  UNCHANGED pended
  BY <1>4 DEF CallOf, xEventGroupSetBits, xEventGroupClearBits, WaitReturns,
              WaitBlocks, SyncCompletes, SyncBlocks, ReturnsUnblocked, TimedOut,
              Expire
<1>5. vEventGroupDelete \/ xEventGroupCreate \/ UNCHANGED vars => UNCHANGED pended
  BY DEF vEventGroupDelete, xEventGroupCreate, vars
<1>6. vEventGroupSetBitsCallback \/ vEventGroupClearBitsCallback
        => pended # << >> /\ pended' = Tail(pended)
  BY DEF vEventGroupSetBitsCallback, vEventGroupClearBitsCallback
<1> QED BY <1>1, <1>2, <1>3, <1>4, <1>5, <1>6 DEF Next

\* Who has arrived is told by the bits of the rendezvous alone.
LEMMA ArrivedBits ==
  ASSUME NEW more, uxEventBits' \cap Rendezvous = more \cap Rendezvous
  PROVE  Arrived' = {t \in Task : SyncBit[t] \in more}
BY RendezvousBits DEF Arrived

\* The tasks that wait in xEventGroupSync wait for the whole rendezvous.
LEMMA WaitsForAll ==
  ASSUME Inv, NEW t \in xTasksWaitingForBits
  PROVE  /\ t \in Task
         /\ t \in Syncs <=> call[t] = SyncCall
         /\ t \notin Syncs => call[t] \in WaitCalls
         /\ item[t].bits = call[t].bits /\ item[t].clear = call[t].clear
         /\ item[t].all = call[t].all
         /\ t \in Syncs => ~(Rendezvous \subseteq uxEventBits)
<1>1. /\ t \in Task /\ CallOK(t) /\ ItemOK(t) /\ call[t] # NoCall
      /\ item[t].bits = call[t].bits /\ item[t].clear = call[t].clear
      /\ item[t].all = call[t].all /\ ~Satisfied(t, uxEventBits)
  <2>1. t \in Task
    BY DEF Inv, TypeOK
  <2>2. CallOK(t) /\ ItemOK(t)
    BY <2>1 DEF Inv
  <2>3. /\ call[t] # NoCall /\ ~Satisfied(t, uxEventBits)
        /\ item[t] = [bits |-> call[t].bits, clear |-> call[t].clear,
                      all |-> call[t].all, unblocked |-> FALSE]
    BY <2>2 DEF ItemOK
  <2>4. /\ item[t].bits = call[t].bits /\ item[t].clear = call[t].clear
        /\ item[t].all = call[t].all
    BY <2>3
  <2> QED BY <2>1, <2>2, <2>3, <2>4
<1>2. /\ t \in Syncs <=> call[t] = SyncCall
      /\ t \notin Syncs => call[t] \in WaitCalls
  BY <1>1, CallTypes DEF CallOK, Syncs
<1>3. t \in Syncs => ~(Rendezvous \subseteq uxEventBits)
  BY <1>1, <1>2, CallTypes DEF Satisfied, prvTestWaitCondition
<1> QED BY <1>1, <1>2, <1>3

\* A set that does not complete the rendezvous leaves its bits and its tasks.
LEMMA SetLeavesRendezvous ==
  ASSUME Inv, Undisturbed, NEW bits \in SUBSET Bit,
         Rendezvous \subseteq uxEventBits \cup bits => Rendezvous \subseteq uxEventBits
  PROVE  /\ AfterSet(bits).bits \cap Rendezvous
               = (uxEventBits \cup bits) \cap Rendezvous
         /\ Syncs \subseteq AfterSet(bits).waiting
         /\ AfterSet(bits).waiting \subseteq xTasksWaitingForBits
<1> DEFINE current == uxEventBits \cup bits
<1>1. /\ AfterSet(bits).bits = current \ ToClear(Matched(current))
      /\ AfterSet(bits).waiting = xTasksWaitingForBits \ Matched(current)
  BY DEF AfterSet
<1>2. ASSUME NEW t \in Matched(current) PROVE t \notin Syncs
  <2>1. /\ t \in xTasksWaitingForBits
        /\ prvTestWaitCondition(current, item[t].bits, item[t].all)
    BY DEF Matched
  <2>2. CASE t \in Syncs
    <3>1. item[t].bits = Rendezvous /\ item[t].all = TRUE
      BY <2>1, <2>2, WaitsForAll, CallTypes
    <3>2. Rendezvous \subseteq uxEventBits
      BY <2>1, <3>1 DEF prvTestWaitCondition
    <3> QED BY <2>1, <3>2, WaitsForAll
  <2> QED BY <2>2
<1>3. ASSUME NEW t \in Matched(current), item[t].clear
      PROVE  item[t].bits \cap Rendezvous = {}
  <2>1. t \in xTasksWaitingForBits /\ t \notin Syncs
    BY <1>2 DEF Matched
  <2> QED BY <1>3, <2>1, WaitsForAll DEF Undisturbed
<1>4. ToClear(Matched(current)) \cap Rendezvous = {}
  BY <1>3 DEF ToClear
<1> QED BY <1>1, <1>2, <1>4 DEF Syncs

\* A call that is not one of the rendezvous leaves it alone.
LEMMA OtherCall ==
  ASSUME Inv, Undisturbed, NEW bits \in SetChoices,
         \/ uxEventBits' = uxEventBits \ bits /\ UNCHANGED xTasksWaitingForBits
         \/ SetGroup(AfterSet(bits)),
         UNCHANGED call
  PROVE  Arrived' = Arrived /\ Syncs' = Syncs
<1>1. bits \cap Rendezvous = {} /\ bits \in SUBSET Bit
  BY EventGroupAssumption DEF Undisturbed, EventGroupAssumption
<1>2. CASE uxEventBits' = uxEventBits \ bits /\ UNCHANGED xTasksWaitingForBits
  BY <1>1, <1>2, ArrivedBits DEF Arrived, Syncs
<1>3. CASE SetGroup(AfterSet(bits))
  <2>1. /\ AfterSet(bits).bits \cap Rendezvous
              = (uxEventBits \cup bits) \cap Rendezvous
        /\ Syncs \subseteq AfterSet(bits).waiting
        /\ AfterSet(bits).waiting \subseteq xTasksWaitingForBits
    BY <1>1, SetLeavesRendezvous
  <2>2. /\ uxEventBits' \cap Rendezvous = uxEventBits \cap Rendezvous
        /\ xTasksWaitingForBits' = AfterSet(bits).waiting
    BY <1>1, <1>3, <2>1 DEF SetGroup
  <2> QED BY <2>1, <2>2, ArrivedBits DEF Arrived, Syncs
<1> QED BY <1>2, <1>3

\* The last to arrive.
LEMMA CompletesRound ==
  ASSUME Inv, NEW t \in Task, SyncCompletes(t)
  PROVE  t \notin Syncs /\ Arrived \cup {t} = Task /\ Arrived' = {} /\ Syncs' = {}
<1> DEFINE current == uxEventBits \cup {SyncBit[t]}
<1>1. /\ Ready(t) /\ Rendezvous \subseteq current /\ UNCHANGED call
      /\ uxEventBits' = AfterSet({SyncBit[t]}).bits \ Rendezvous
      /\ xTasksWaitingForBits' = xTasksWaitingForBits \ Matched(current)
  BY DEF SyncCompletes, Complete, SetGroup, AfterSet
<1>2. t \notin Syncs
  BY <1>1, WaitsForAll, CallTypes DEF Ready, Syncs
<1>3. Arrived \cup {t} = Task
  BY <1>1, RendezvousBits, EventGroupAssumption DEF Arrived, EventGroupAssumption
<1>4. Arrived' = {}
  BY <1>1, RendezvousBits DEF Arrived
<1>5. ASSUME NEW u \in Syncs PROVE u \in Matched(current)
  <2>1. u \in xTasksWaitingForBits
    BY DEF Syncs
  <2>2. item[u].bits = Rendezvous /\ item[u].all = TRUE
    BY <2>1, WaitsForAll, CallTypes
  <2> QED BY <1>1, <2>1, <2>2 DEF Matched, prvTestWaitCondition
<1>6. Syncs' = {}
  BY <1>1, <1>5 DEF Syncs
<1> QED BY <1>2, <1>3, <1>4, <1>6

\* One that is not the last.
LEMMA ArrivesEarly ==
  ASSUME Inv, Undisturbed, NEW t \in Task, NEW xTicksToWait,
         SyncBlocks(t, xTicksToWait)
  PROVE  /\ t \notin Syncs /\ Arrived \cup {t} # Task
         /\ Arrived' = Arrived \cup {t} /\ Syncs' \in {Syncs, Syncs \cup {t}}
<1> DEFINE g == AfterSet({SyncBit[t]})
<1>1. /\ Ready(t) /\ ~(Rendezvous \subseteq uxEventBits \cup {SyncBit[t]})
      /\ uxEventBits' = g.bits
      /\ \/ xTasksWaitingForBits' = g.waiting /\ UNCHANGED call
         \/ /\ xTasksWaitingForBits' = g.waiting \cup {t}
            /\ call' = [call EXCEPT ![t] = SyncCall]
  BY DEF SyncBlocks, SyncCall, Complete, SetGroup, Blocked, AfterSet
<1>2. t \notin Syncs /\ t \notin xTasksWaitingForBits
  BY <1>1, CallTypes DEF Ready, Syncs, Inv, ItemOK
<1>3. {SyncBit[t]} \in SUBSET Bit
  BY RendezvousBits
<1>4. /\ g.bits \cap Rendezvous = (uxEventBits \cup {SyncBit[t]}) \cap Rendezvous
      /\ Syncs \subseteq g.waiting /\ g.waiting \subseteq xTasksWaitingForBits
  BY <1>1, <1>3, SetLeavesRendezvous
<1> HIDE DEF g
<1>5. Arrived' = Arrived \cup {t}
  <2>1. Arrived' = {u \in Task : SyncBit[u] \in uxEventBits \cup {SyncBit[t]}}
    BY <1>1, <1>4, ArrivedBits
  <2> QED BY <2>1, EventGroupAssumption DEF Arrived, EventGroupAssumption
<1>6. Arrived \cup {t} # Task
  BY <1>1 DEF Arrived, Rendezvous
<1>7. Syncs' \in {Syncs, Syncs \cup {t}}
  <2>1. call \in [Task -> [op : {"none", "wait", "sync"}, bits : SUBSET Bit,
                           clear : BOOLEAN, all : BOOLEAN]]
    BY DEF Inv, TypeOK
  <2>2. CASE xTasksWaitingForBits' = g.waiting /\ UNCHANGED call
    BY <1>4, <2>2 DEF Syncs
  <2>3. CASE /\ xTasksWaitingForBits' = g.waiting \cup {t}
             /\ call' = [call EXCEPT ![t] = SyncCall]
    <3>1. call'[t].op = "sync" /\ \A u \in Task \ {t} : call'[u] = call[u]
      BY <2>1, <2>3, CallTypes
    <3>2. \A u \in g.waiting : u \in Task \ {t}
      BY <1>2, <1>4 DEF Inv, TypeOK
    <3> QED BY <1>4, <2>3, <3>1, <3>2 DEF Syncs
  <2> QED BY <1>1, <2>2, <2>3
<1> QED BY <1>2, <1>5, <1>6, <1>7

\* A task goes on after its wait.
LEMMA GoesOn ==
  ASSUME Inv, Undisturbed, NEW t \in Task, ReturnsUnblocked(t) \/ TimedOut(t)
  PROVE  \/ Arrived' = Arrived /\ Syncs' = Syncs
         \/ Arrived' = {} /\ Syncs' = {}
<1>1. /\ Running(t) /\ Return(t) /\ UNCHANGED xTasksWaitingForBits
      /\ t \notin xTasksWaitingForBits
  BY DEF ReturnsUnblocked, TimedOut, Running
<1>2. xTasksWaitingForBits \subseteq Task /\ CallOK(t) /\ call[t] # NoCall
      /\ \A u \in Task \ {t} : call'[u] = call[u]
  BY <1>1 DEF Inv, TypeOK, Running, Return
<1>3. Syncs' = Syncs
  BY <1>1, <1>2 DEF Syncs
<1>4. CASE uxEventBits' = uxEventBits
  BY <1>3, <1>4 DEF Arrived
<1>5. CASE /\ prvTestWaitCondition(uxEventBits, call[t].bits, call[t].all)
           /\ call[t].clear /\ uxEventBits' = uxEventBits \ call[t].bits
  <2>1. CASE call[t] \in WaitCalls
    <3>1. uxEventBits' \cap Rendezvous = uxEventBits \cap Rendezvous
      BY <1>5, <2>1 DEF Undisturbed
    <3> QED BY <1>3, <3>1, ArrivedBits DEF Arrived
  <2>2. CASE call[t] = SyncCall
    <3>1. Rendezvous \subseteq uxEventBits /\ uxEventBits' = uxEventBits \ Rendezvous
      BY <1>5, <2>2, CallTypes DEF prvTestWaitCondition
    <3>2. Arrived' = {}
      BY <3>1, RendezvousBits DEF Arrived
    <3>3. Syncs = {}
      BY <3>1, WaitsForAll DEF Syncs
    <3> QED BY <1>3, <3>2, <3>3
  <2> QED BY <1>2, <2>1, <2>2 DEF CallOK
<1> QED BY <1>1, <1>4, <1>5 DEF ReturnsUnblocked, TimedOut

\* Every step is one of the rendezvous or leaves it alone.
LEMMA RoundStep ==
  ASSUME Inv, Undisturbed, PendedOK, [Next]_vars
  PROVE  \/ Arrived' = Arrived /\ Syncs' = Syncs
         \/ Arrived' = {} /\ Syncs' = {}
         \/ \E t \in Task :
              \/ /\ t \notin Syncs /\ Arrived \cup {t} # Task
                 /\ Arrived' = Arrived \cup {t} /\ Syncs' \in {Syncs, Syncs \cup {t}}
              \/ t \in Syncs /\ Syncs' = Syncs \ {t} /\ Arrived' = Arrived
<1> DEFINE Quiet == Arrived' = Arrived /\ Syncs' = Syncs
           Empty == Arrived' = {} /\ Syncs' = {}
           Comes(t) == /\ t \notin Syncs /\ Arrived \cup {t} # Task
                       /\ Arrived' = Arrived \cup {t}
                       /\ Syncs' \in {Syncs, Syncs \cup {t}}
           Leaves(t) == t \in Syncs /\ Syncs' = Syncs \ {t} /\ Arrived' = Arrived
<1>1. ASSUME NEW t \in Task, CallOf(t) PROVE Quiet \/ Empty \/ Comes(t)
  <2>1. ASSUME NEW bits \in SetChoices,
               xEventGroupSetBits(t, bits) \/ xEventGroupClearBits(t, bits)
        PROVE  Quiet
    BY <2>1, OtherCall DEF xEventGroupSetBits, xEventGroupClearBits
  <2>2. ASSUME NEW c \in WaitCalls, WaitReturns(t, c) PROVE Quiet
    <3>1. uxEventBits' \cap Rendezvous = uxEventBits \cap Rendezvous
      BY <2>2 DEF WaitReturns, Undisturbed
    <3> QED BY <2>2, <3>1, ArrivedBits DEF WaitReturns, Arrived, Syncs
  <2>3. ASSUME NEW c \in WaitCalls, WaitBlocks(t, c) PROVE Quiet
    <3>1. /\ uxEventBits' = uxEventBits /\ call[t] = NoCall
          /\ xTasksWaitingForBits' = xTasksWaitingForBits \cup {t}
          /\ call' = [call EXCEPT ![t] = c]
      BY <2>3 DEF WaitBlocks, Ready, Group, SetGroup, Blocked
    <3>2. /\ t \notin xTasksWaitingForBits /\ xTasksWaitingForBits \subseteq Task
          /\ call'[t].op = "wait" /\ \A u \in Task \ {t} : call'[u] = call[u]
      BY <3>1, CallTypes DEF Inv, TypeOK, ItemOK
    <3> QED BY <3>1, <3>2 DEF Arrived, Syncs
  <2> QED BY <1>1, <2>1, <2>2, <2>3, CompletesRound, ArrivesEarly DEF CallOf
<1>2. ASSUME NEW t \in Task, Expire(t) PROVE Quiet \/ Leaves(t)
  BY <1>2 DEF Expire, Arrived, Syncs
<1>3. vEventGroupDelete \/ xEventGroupCreate => Empty
  BY DEF vEventGroupDelete, xEventGroupCreate, Arrived, Syncs
<1>4. ASSUME NEW bits \in SetChoices,
             xEventGroupSetBitsFromISR(bits) \/ xEventGroupClearBitsFromISR(bits)
      PROVE  Quiet
  BY <1>4 DEF xEventGroupSetBitsFromISR, xEventGroupClearBitsFromISR, Arrived, Syncs
<1>5. vEventGroupSetBitsCallback \/ vEventGroupClearBitsCallback => Quiet
  <2>1. pended # << >> => Head(pended) \in [sets : BOOLEAN, bits : SetChoices]
    BY PendedCalls DEF PendedOK
  <2>2. pended # << >> => Head(pended).bits \in SetChoices
    BY <2>1
  <2> QED BY <2>2, OtherCall
          DEF vEventGroupSetBitsCallback, vEventGroupClearBitsCallback
<1>6. UNCHANGED vars => Quiet
  BY DEF vars, Arrived, Syncs
<1> HIDE DEF Quiet, Empty, Comes, Leaves
<1>7. Quiet \/ Empty \/ \E t \in Task : Comes(t) \/ Leaves(t)
  BY <1>1, <1>2, <1>3, <1>4, <1>5, <1>6, GoesOn DEF Next, Quiet, Empty
<1> QED BY <1>7 DEF Quiet, Empty, Comes, Leaves

\* xEventGroupSync implements the rendezvous of Barrier, in any program in which
\* the bits of the rendezvous are set and cleared by xEventGroupSync alone:
\* no task gets past it before all have arrived, and the last to arrive lets
\* all pass that still wait, whatever other bits are waited for and cleared.
THEOREM EventGroupImplementsBarrier ==
  ASSUME Undisturbed
  PROVE  Spec => ImplementsBarrier
<1>1. Init => PendedOK /\ Rounds!Init
  BY DEF Init, PendedOK, Rounds!Init
<1>2. Inv /\ PendedOK /\ [Next]_vars => [Rounds!Next]_<< Arrived, Syncs >>
  <2> SUFFICES ASSUME Inv, PendedOK, [Next]_vars
               PROVE  [Rounds!Next]_<< Arrived, Syncs >>
    OBVIOUS
  <2>1. Arrived = {t \in Task : SyncBit[t] \in uxEventBits}
        /\ Syncs = {t \in xTasksWaitingForBits : call[t].op = "sync"}
    BY DEF Arrived, Syncs
  <2> QED BY <2>1, RoundStep
          DEF Rounds!Next, Rounds!Arrive, Rounds!ArriveLast, Rounds!GiveUp,
              Rounds!Remove, Arrived, Syncs
<1>3. Spec => [](Inv /\ PendedOK)
  BY <1>1, InitInv, StepInv, StepPended, PTL DEF Spec
<1> QED BY <1>1, <1>2, <1>3, PTL
        DEF Spec, ImplementsBarrier, Rounds!Spec, Arrived, Syncs
-----------------------------------------------------------------------------
(* Task notifications.                                                      *)

Places == {"app", "test", "block", "resume", "collect", "held", "abort"}

\* The values of the notifications are not needed.
NotifyType ==
  /\ xStateList \in [Pair -> {"ready", "delayed", "suspended"}]
  /\ xPendingReadyList \subseteq Pair
  /\ suspender \in Pair \cup {NoTask}
  /\ ucNotifyState \in [Pair -> [Index -> {"notWaiting", "waiting", "received"}]]
  /\ pc \in [Pair -> Places]
  /\ notifyCall \in [Pair -> NotifyWaits \cup {N!NoCall}]
  /\ target \in [Pair -> Pair \cup {NoTask}]
  /\ parked \in [Pair -> BOOLEAN]

\* Where a task has suspended the scheduler, and where a task is ready, since
\* only a running task gets there and no other can move it.
Holding == {"test", "block", "resume", "held", "abort"}
AtWork == Holding \ {"resume"}

\* The suspension is that of the task that is in one, and interrupts pend tasks
\* in suspensions only.
HolderOK ==
  /\ \A t \in Pair : (suspender = t) <=> pc[t] \in Holding
  /\ suspender = NoTask => xPendingReadyList = {}

\* A wait has begun and has not been notified, or t is about to be woken.
Awaits(t) == N!State(t) = "waiting" \/ t \in xPendingReadyList

\* A task waits for the index of its call, from its test until it returns; it
\* is blocked or about to be only if it waits or is about to be woken.
WaiterOK(t) ==
  /\ pc[t] \in {"test", "block", "resume", "collect"} => notifyCall[t] \in NotifyWaits
  /\ pc[t] = "abort" => target[t] \in Pair
  /\ pc[t] \in AtWork => xStateList[t] = "ready"
  /\ \A i \in Index : ucNotifyState[t][i] = "waiting" =>
       i = notifyCall[t].index /\ pc[t] \in {"block", "resume", "collect"}
  /\ pc[t] = "test" => t \notin xPendingReadyList
  /\ pc[t] = "block" => Awaits(t)
  /\ xStateList[t] # "ready" /\ ~parked[t] => pc[t] \in {"resume", "collect"} /\ Awaits(t)

\* A task that is suspended or about to be woken waits for nothing.
ParkedOK(t) ==
  /\ parked[t] => xStateList[t] = "suspended" /\ ~N!WaitsAtAll(t)
  /\ t \in xPendingReadyList => ~N!WaitsAtAll(t)

NotifyInv ==
  /\ NotifyType /\ HolderOK
  /\ \A t \in Pair : WaiterOK(t) /\ ParkedOK(t)

\* The invariant says what NotifySound does.
LEMMA NotifyInvSound == NotifyInv => N!NotifiedIsWoken /\ N!ResumesOnlySuspended
<1> SUFFICES ASSUME NotifyInv PROVE N!NotifiedIsWoken /\ N!ResumesOnlySuspended
  OBVIOUS
<1>1. N!NotifiedIsWoken
  BY DEF NotifyInv, HolderOK, WaiterOK, Awaits, N!NotifiedIsWoken, N!BlockedInWait
<1>2. ASSUME NEW t \in Pair, xStateList[t] = "suspended", t \notin xPendingReadyList
      PROVE  N!prvTaskIsTaskSuspended(t) <=> parked[t]
  <2>1. parked[t] => ~N!WaitsAtAll(t)
    BY DEF NotifyInv, ParkedOK
  <2>2. ~parked[t] => N!WaitsAtAll(t)
    <3>1. ~parked[t] => notifyCall[t] \in NotifyWaits /\ N!State(t) = "waiting"
      BY <1>2 DEF NotifyInv, WaiterOK, Awaits
    <3>2. notifyCall[t] \in NotifyWaits => notifyCall[t].index \in Index
      BY ServicesAssumption DEF ServicesAssumption
    <3> QED BY <3>1, <3>2 DEF N!State, N!WaitsAtAll
  <2> QED BY <1>2, <2>1, <2>2 DEF N!prvTaskIsTaskSuspended
<1> QED BY <1>1, <1>2 DEF N!ResumesOnlySuspended

\* What an action may rely on.
LEMMA NotifyFacts ==
  ASSUME NotifyInv
  PROVE  /\ NotifyType /\ HolderOK
         /\ \A t \in Pair : WaiterOK(t) /\ ParkedOK(t)
         /\ NoTask \notin Pair
         /\ \A t \in Pair : N!MayCall(t) => pc[t] \in {"app", "held"}
              /\ (pc[t] = "app" => suspender = NoTask /\ xPendingReadyList = {})
BY ServicesAssumption DEF ServicesAssumption, NotifyInv, HolderOK, NotifyType,
     N!MayCall, N!At, N!Runs, Holding

\* A wait is called.
LEMMA NotifyCallStep ==
  ASSUME NotifyInv, NEW t \in Pair, NEW c \in NotifyWaits, N!Call(t, c)
  PROVE  NotifyInv'
<1>1. /\ suspender = NoTask /\ xPendingReadyList = {} /\ pc[t] = "app"
      /\ xStateList[t] = "ready" /\ NoTask \notin Pair
  BY NotifyFacts DEF N!Call, N!At, N!Runs, N!MayCall
<1>2. NotifyType' /\ HolderOK'
  BY <1>1 DEF NotifyInv, NotifyType, HolderOK, N!Call, N!At, N!Runs, N!Goto, N!lists, N!slots,
       Holding, Places
<1>3. ASSUME NEW u \in Pair PROVE WaiterOK(u)' /\ ParkedOK(u)'
  BY <1>1 DEF NotifyInv, NotifyType, WaiterOK, ParkedOK, Awaits, AtWork, Holding, Places,
       N!Call, N!Goto, N!lists, N!slots, N!State, N!WaitsAtAll
<1> QED BY <1>2, <1>3 DEF NotifyInv

\* Both tests: the state of the awaited index may become waiting, and then the
\* task goes on to block, or to return at once.
LEMMA NotifyTestStep ==
  ASSUME NotifyInv, NEW t \in Pair,
         N!TestTake(t) \/ \E mask \in {0, MaxValue} : N!TestWait(t, mask)
  PROVE  NotifyInv'
<1>1. /\ pc[t] = "test" /\ suspender = t /\ xStateList[t] = "ready"
      /\ t \notin xPendingReadyList /\ notifyCall[t] \in NotifyWaits
      /\ UNCHANGED << xStateList, xPendingReadyList, parked, notifyCall, target, suspender >>
  BY DEF NotifyInv, HolderOK, WaiterOK, AtWork, Holding, N!TestTake, N!TestWait, N!At,
         N!Runs, N!lists
<1>2. notifyCall[t].index \in Index
  BY <1>1, ServicesAssumption DEF ServicesAssumption
<1>3. \/ /\ pc' = [pc EXCEPT ![t] = "resume"] /\ UNCHANGED ucNotifyState
      \/ /\ \E p \in {"resume", "block"} : pc' = [pc EXCEPT ![t] = p]
         /\ ucNotifyState' = [ucNotifyState EXCEPT ![t][notifyCall[t].index] = "waiting"]
  BY DEF N!TestTake, N!TestWait, N!Blocks, N!Goto, N!SetState, N!slots
<1>4. NotifyType'
  <2>1. ucNotifyState' \in [Pair -> [Index -> {"notWaiting", "waiting", "received"}]]
    <3>1. [ucNotifyState[t] EXCEPT ![notifyCall[t].index] = "waiting"]
            \in [Index -> {"notWaiting", "waiting", "received"}]
      BY <1>2 DEF NotifyInv, NotifyType
    <3> QED BY <1>3, <3>1 DEF NotifyInv, NotifyType
  <2> QED BY <1>1, <1>3, <2>1 DEF NotifyInv, NotifyType, Places
<1>5. HolderOK'
  BY <1>1, <1>3 DEF NotifyInv, NotifyType, HolderOK, Holding, Places
<1>6. ASSUME NEW u \in Pair PROVE WaiterOK(u)' /\ ParkedOK(u)'
  BY <1>1, <1>2, <1>3 DEF NotifyInv, NotifyType, WaiterOK, ParkedOK, Awaits, AtWork, Holding,
       N!State, N!WaitsAtAll
<1> QED BY <1>4, <1>5, <1>6 DEF NotifyInv

\* The task blocks.
LEMMA NotifyBlockStep ==
  ASSUME NotifyInv, NEW t \in Pair, N!Block(t)
  PROVE  NotifyInv'
<1>1. /\ pc[t] = "block" /\ suspender = t
      /\ UNCHANGED << xPendingReadyList, parked, ucNotifyState, notifyCall, target, suspender >>
      /\ pc' = [pc EXCEPT ![t] = "resume"]
      /\ \E s \in {"suspended", "delayed"} : xStateList' = [xStateList EXCEPT ![t] = s]
  BY DEF NotifyInv, HolderOK, Holding, N!Block, N!At, N!Goto, N!slots
<1>2. NotifyType' /\ HolderOK'
  BY <1>1 DEF NotifyInv, NotifyType, HolderOK, Holding, Places
<1>3. ASSUME NEW u \in Pair PROVE WaiterOK(u)' /\ ParkedOK(u)'
  BY <1>1 DEF NotifyInv, NotifyType, WaiterOK, ParkedOK, Awaits, AtWork, Holding,
       N!State, N!WaitsAtAll
<1> QED BY <1>2, <1>3 DEF NotifyInv

\* The scheduler is resumed.
LEMMA NotifyResumeAllStep ==
  ASSUME NotifyInv, NEW t \in Pair, N!xTaskResumeAll(t)
  PROVE  NotifyInv'
<1>1. /\ suspender = t /\ pc[t] \in {"resume", "held"} /\ NoTask \notin Pair
      /\ xStateList' = [u \in Pair |-> IF u \in xPendingReadyList THEN "ready"
                                       ELSE xStateList[u]]
      /\ parked' = [u \in Pair |-> parked[u] /\ u \notin xPendingReadyList]
      /\ xPendingReadyList' = {} /\ suspender' = NoTask
      /\ pc' = [pc EXCEPT ![t] = IF pc[t] = "held" THEN "app" ELSE "collect"]
      /\ UNCHANGED << ucNotifyState, notifyCall, target >>
  BY NotifyFacts DEF N!xTaskResumeAll, N!Goto, N!IsPending, N!slots
<1>2. NotifyType' /\ HolderOK'
  BY <1>1 DEF NotifyInv, NotifyType, HolderOK, Holding, Places
<1>3. ASSUME NEW u \in Pair PROVE WaiterOK(u)'
  BY <1>1 DEF NotifyInv, NotifyType, HolderOK, WaiterOK, Awaits, AtWork, Holding, N!State
<1>4. ASSUME NEW u \in Pair PROVE ParkedOK(u)'
  BY <1>1 DEF NotifyInv, NotifyType, ParkedOK, N!WaitsAtAll
<1> QED BY <1>2, <1>3, <1>4 DEF NotifyInv

\* The task takes its notification, or gives up, and returns.
LEMMA NotifyCollectStep ==
  ASSUME NotifyInv, NEW t \in Pair, N!CollectTake(t) \/ N!CollectWait(t)
  PROVE  NotifyInv'
<1>1. /\ pc[t] = "collect" /\ xStateList[t] = "ready" /\ notifyCall[t] \in NotifyWaits
      /\ UNCHANGED << xStateList, xPendingReadyList, parked, target, suspender >>
      /\ pc' = [pc EXCEPT ![t] = "app"]
      /\ notifyCall' = [notifyCall EXCEPT ![t] = N!NoCall]
      /\ ucNotifyState' = [ucNotifyState EXCEPT ![t][notifyCall[t].index] = "notWaiting"]
  BY DEF NotifyInv, WaiterOK, N!CollectTake, N!CollectWait, N!At, N!Runs, N!Return, N!Goto,
       N!SetState, N!lists
<1>2. notifyCall[t].index \in Index
  BY <1>1, ServicesAssumption DEF ServicesAssumption
<1>3. NotifyType'
  BY <1>1, <1>2 DEF NotifyInv, NotifyType, Places
<1>4. HolderOK'
  BY <1>1 DEF NotifyInv, NotifyType, HolderOK, Holding
<1>5. ASSUME NEW u \in Pair PROVE WaiterOK(u)' /\ ParkedOK(u)'
  BY <1>1, <1>2 DEF NotifyInv, NotifyType, WaiterOK, ParkedOK, Awaits, AtWork, Holding,
       N!State, N!WaitsAtAll
<1> QED BY <1>3, <1>4, <1>5 DEF NotifyInv

\* A slot of a task is notified, and the task made ready or pended if it waited
\* for that slot.
LEMMA NotifiedStep ==
  ASSUME NotifyInv, NEW t \in Pair, NEW i \in Index,
         ucNotifyState' = [ucNotifyState EXCEPT ![t][i] = "received"],
         UNCHANGED << pc, notifyCall, target, suspender >>,
         \/ ucNotifyState[t][i] # "waiting" /\ UNCHANGED N!lists
         \/ /\ ucNotifyState[t][i] = "waiting"
            /\ N!MakeReady(t) /\ UNCHANGED xPendingReadyList
            /\ pc[t] # "block"
         \/ /\ ucNotifyState[t][i] = "waiting" /\ suspender # NoTask
            /\ xPendingReadyList' = xPendingReadyList \cup {t}
            /\ UNCHANGED << xStateList, parked >>
  PROVE  NotifyInv'
<1>1. NotifyType'
  <2>1. ucNotifyState' \in [Pair -> [Index -> {"notWaiting", "waiting", "received"}]]
    <3>1. [ucNotifyState[t] EXCEPT ![i] = "received"]
            \in [Index -> {"notWaiting", "waiting", "received"}]
      BY DEF NotifyInv, NotifyType
    <3> QED BY <3>1 DEF NotifyInv, NotifyType
  <2> QED BY <2>1 DEF NotifyInv, NotifyType, N!MakeReady, N!lists
<1>2. HolderOK'
  BY DEF NotifyInv, HolderOK, N!MakeReady, N!lists
<1>3. \A u \in Pair, j \in Index :
        ucNotifyState'[u][j] = IF u = t /\ j = i THEN "received" ELSE ucNotifyState[u][j]
  BY DEF NotifyInv, NotifyType
<1>4. ASSUME NEW u \in Pair, u # t PROVE WaiterOK(u)' /\ ParkedOK(u)'
  <2>1. ucNotifyState'[u] = ucNotifyState[u] /\ xStateList'[u] = xStateList[u]
        /\ parked'[u] = parked[u] /\ (u \in xPendingReadyList' <=> u \in xPendingReadyList)
    BY <1>4 DEF NotifyInv, NotifyType, N!MakeReady, N!lists
  <2> QED BY <1>4, <2>1 DEF NotifyInv, WaiterOK, ParkedOK, Awaits, N!State, N!WaitsAtAll
<1>5. ucNotifyState[t][i] = "waiting" =>
        /\ i = notifyCall[t].index /\ pc[t] \in {"block", "resume", "collect"}
        /\ \A j \in Index \ {i} : ucNotifyState[t][j] # "waiting"
  BY DEF NotifyInv, WaiterOK
<1>6. WaiterOK(t)'
  BY <1>3, <1>5 DEF NotifyInv, NotifyType, WaiterOK, ParkedOK, Awaits, AtWork, Holding,
       N!State, N!WaitsAtAll, N!MakeReady, N!lists
<1>7. ParkedOK(t)'
  BY <1>3, <1>5 DEF NotifyInv, NotifyType, ParkedOK, N!WaitsAtAll, N!MakeReady, N!lists
<1> QED BY <1>1, <1>2, <1>4, <1>6, <1>7 DEF NotifyInv

\* A task notifies.
LEMMA NotifyByTaskStep ==
  ASSUME NotifyInv, NEW u \in Pair, NEW t \in Pair, NEW i \in Index, NEW a, NEW v,
         N!xTaskGenericNotify(u, t, i, a, v)
  PROVE  NotifyInv'
<1>1. pc[t] # "block"
  <2>1. suspender \in {NoTask, u} /\ pc[u] \in {"app", "held"}
    BY DEF N!xTaskGenericNotify, N!MayCall, N!At, N!Runs
  <2>2. pc[t] = "block" => suspender = t
    BY DEF NotifyInv, HolderOK, Holding
  <2> QED BY <2>1, <2>2, NotifyFacts
<1> QED BY <1>1, NotifiedStep DEF N!xTaskGenericNotify, N!Notified, N!lists, N!calls

\* An interrupt notifies.
LEMMA NotifyFromISRStep ==
  ASSUME NotifyInv, NEW t \in Pair, NEW i \in Index, NEW a, NEW v,
         N!xTaskGenericNotifyFromISR(t, i, a, v)
  PROVE  NotifyInv'
<1>1. suspender = NoTask => pc[t] # "block"
  BY NotifyFacts DEF HolderOK, Holding
<1> QED BY <1>1, NotifiedStep
        DEF N!xTaskGenericNotifyFromISR, N!Notified, N!ReadyFromISR, N!lists, N!calls

\* A received notification is cleared, or a value.
LEMMA NotifyClearStep ==
  ASSUME NotifyInv, NEW u \in Pair, NEW t \in Pair, NEW i \in Index,
         \/ N!xTaskGenericNotifyStateClear(u, t, i)
         \/ N!ulTaskGenericNotifyValueClear(u, t, i, MaxValue)
  PROVE  NotifyInv'
<1>1. /\ UNCHANGED << xStateList, xPendingReadyList, parked, pc, notifyCall, target, suspender >>
      /\ \/ UNCHANGED ucNotifyState
         \/ /\ ucNotifyState[t][i] = "received"
            /\ ucNotifyState' = [ucNotifyState EXCEPT ![t][i] = "notWaiting"]
  BY DEF N!xTaskGenericNotifyStateClear, N!ulTaskGenericNotifyValueClear, N!lists, N!calls
<1>2. ucNotifyState' \in [Pair -> [Index -> {"notWaiting", "waiting", "received"}]]
  <2>1. [ucNotifyState[t] EXCEPT ![i] = "notWaiting"]
          \in [Index -> {"notWaiting", "waiting", "received"}]
    BY DEF NotifyInv, NotifyType
  <2> QED BY <1>1, <2>1 DEF NotifyInv, NotifyType
<1>3. \A w \in Pair, j \in Index :
        ucNotifyState'[w][j] = "waiting" <=> ucNotifyState[w][j] = "waiting"
  BY <1>1 DEF NotifyInv, NotifyType
<1>4. NotifyType' /\ HolderOK'
  BY <1>1, <1>2 DEF NotifyInv, NotifyType, HolderOK
<1>5. ASSUME NEW w \in Pair PROVE ParkedOK(w)'
  BY <1>1, <1>3 DEF NotifyInv, ParkedOK, N!WaitsAtAll
<1>6. ASSUME NEW w \in Pair PROVE WaiterOK(w)'
  <2>1. pc[w] \in {"test", "block", "resume", "collect"} => notifyCall[w].index \in Index
    BY ServicesAssumption DEF NotifyInv, WaiterOK, ServicesAssumption
  <2> QED BY <1>1, <1>3, <2>1 DEF NotifyInv, WaiterOK, Awaits, N!State
<1> QED BY <1>4, <1>5, <1>6 DEF NotifyInv
-----------------------------------------------------------------------------
(* What else moves a task that waits.                                       *)

\* A task is made ready by something that holds up the scheduler no longer than
\* it takes, or by a task other than itself; it may have been pended.
LEMMA MadeReady ==
  ASSUME NotifyInv, NEW t \in Pair, pc[t] # "block",
         N!MakeReady(t),
         \/ UNCHANGED xPendingReadyList
         \/ xPendingReadyList' = xPendingReadyList \ {t},
         UNCHANGED << ucNotifyState, notifyCall >>
  PROVE  /\ \A u \in Pair : ParkedOK(u)'
         /\ UNCHANGED << pc, target >> => \A u \in Pair : WaiterOK(u)'
         /\ xStateList' \in [Pair -> {"ready", "delayed", "suspended"}]
         /\ parked' \in [Pair -> BOOLEAN] /\ xPendingReadyList' \subseteq Pair
<1>1. \A u \in Pair : ParkedOK(u)'
  BY DEF NotifyInv, NotifyType, ParkedOK, N!MakeReady, N!WaitsAtAll
<1>2. ASSUME UNCHANGED << pc, target >>, NEW u \in Pair PROVE WaiterOK(u)'
  BY <1>2 DEF NotifyInv, NotifyType, WaiterOK, Awaits, AtWork, Holding, N!State, N!MakeReady
<1> QED BY <1>1, <1>2 DEF NotifyInv, NotifyType, N!MakeReady

\* A block time ends, or a suspended task is resumed.
LEMMA NotifyWakeStep ==
  ASSUME NotifyInv, NEW t \in Pair,
         N!Expire(t) \/ \E u \in Pair : N!vTaskResume(u, t)
  PROVE  NotifyInv'
<1>1. pc[t] # "block"
  BY DEF NotifyInv, WaiterOK, AtWork, Holding, N!Expire, N!vTaskResume,
         N!prvTaskIsTaskSuspended
<1>2. /\ N!MakeReady(t)
      /\ UNCHANGED << xPendingReadyList, ucNotifyState, pc, notifyCall, target, suspender >>
  BY DEF N!Expire, N!vTaskResume, N!slots, N!calls
<1> QED BY <1>1, <1>2, MadeReady DEF NotifyInv, NotifyType, HolderOK

\* xTaskResumeFromISR
LEMMA NotifyResumeFromISRStep ==
  ASSUME NotifyInv, NEW t \in Pair, N!xTaskResumeFromISR(t)
  PROVE  NotifyInv'
<1>1. /\ pc[t] \notin AtWork /\ ~N!WaitsAtAll(t) /\ t \notin xPendingReadyList
      /\ xStateList[t] = "suspended"
      /\ UNCHANGED << ucNotifyState, pc, notifyCall, target, suspender >>
  BY DEF NotifyInv, WaiterOK, N!xTaskResumeFromISR, N!prvTaskIsTaskSuspended, N!slots, N!calls
<1>2. CASE suspender = NoTask
  BY <1>1, <1>2, MadeReady DEF NotifyInv, NotifyType, HolderOK, AtWork, Holding,
       N!xTaskResumeFromISR, N!ReadyFromISR
<1>3. CASE suspender # NoTask
  <2>1. /\ xPendingReadyList' = xPendingReadyList \cup {t}
        /\ UNCHANGED << xStateList, parked >>
    BY <1>3 DEF N!xTaskResumeFromISR, N!ReadyFromISR
  <2>2. NotifyType' /\ HolderOK'
    BY <1>1, <1>3, <2>1 DEF NotifyInv, NotifyType, HolderOK
  <2>3. ASSUME NEW u \in Pair PROVE WaiterOK(u)' /\ ParkedOK(u)'
    BY <1>1, <2>1 DEF NotifyInv, WaiterOK, ParkedOK, Awaits, AtWork, Holding, N!State,
         N!WaitsAtAll
  <2> QED BY <2>2, <2>3 DEF NotifyInv
<1> QED BY <1>2, <1>3

\* xTaskAbortDelay, or the application, suspends the scheduler.
LEMMA NotifyHoldStep ==
  ASSUME NotifyInv, NEW u \in Pair,
         N!vTaskSuspendAll(u) \/ \E t \in Pair : N!AbortCheck(u, t)
  PROVE  NotifyInv'
<1>1. /\ pc[u] \in {"app", "held"} /\ suspender \in {NoTask, u} /\ xStateList[u] = "ready"
      /\ UNCHANGED << xStateList, xPendingReadyList, parked, ucNotifyState, notifyCall >>
      /\ suspender' = u /\ NoTask # u
      /\ \/ pc' = [pc EXCEPT ![u] = "held"] /\ UNCHANGED target
         \/ /\ pc' = [pc EXCEPT ![u] = "abort"]
            /\ \E t \in Pair : target' = [target EXCEPT ![u] = t]
  BY NotifyFacts DEF N!vTaskSuspendAll, N!AbortCheck, N!MayCall, N!At, N!Runs, N!Goto,
       N!lists, N!slots
<1>2. NotifyType' /\ HolderOK'
  <2>1. NotifyType'
    BY <1>1 DEF NotifyInv, NotifyType, Places
  <2>2. \A w \in Pair : pc[w] \in Holding => w = u
    BY <1>1, NotifyFacts DEF HolderOK
  <2>3. HolderOK'
    BY <1>1, <2>2 DEF NotifyInv, NotifyType, HolderOK, Holding
  <2> QED BY <2>1, <2>3
<1>3. ASSUME NEW w \in Pair PROVE WaiterOK(w)' /\ ParkedOK(w)'
  BY <1>1 DEF NotifyInv, NotifyType, WaiterOK, ParkedOK, Awaits, AtWork, Holding, N!State,
       N!WaitsAtAll
<1> QED BY <1>2, <1>3 DEF NotifyInv

\* xTaskAbortDelay takes the task off its lists, whatever became of it since.
LEMMA NotifyAbortStep ==
  ASSUME NotifyInv, NEW u \in Pair, N!AbortRemove(u)
  PROVE  NotifyInv'
<1> DEFINE t == target[u]
<1>1. /\ pc[u] = "abort" /\ suspender = u /\ xStateList[u] = "ready" /\ t \in Pair
      /\ N!MakeReady(t) /\ xPendingReadyList' = xPendingReadyList \ {t}
      /\ pc' = [pc EXCEPT ![u] = "held"] /\ target' = [target EXCEPT ![u] = NoTask]
      /\ UNCHANGED << ucNotifyState, notifyCall, suspender >>
  BY DEF NotifyInv, HolderOK, WaiterOK, Holding, N!AbortRemove, N!At, N!Runs, N!Goto, N!slots
<1>2. pc[t] # "block" /\ \A w \in Pair : pc[w] \in Holding => w = u
  BY <1>1 DEF NotifyInv, HolderOK, Holding
<1> HIDE DEF t
<1>3. NotifyType' /\ HolderOK' /\ \A w \in Pair : ParkedOK(w)'
  BY <1>1, <1>2, MadeReady DEF NotifyInv, NotifyType, HolderOK, Holding, Places
<1>4. ASSUME NEW w \in Pair PROVE WaiterOK(w)'
  BY <1>1, <1>2 DEF NotifyInv, NotifyType, WaiterOK, Awaits, AtWork, Holding, N!State,
       N!MakeReady
<1> QED BY <1>3, <1>4 DEF NotifyInv

\* A task is suspended, and waits for nothing any more.
LEMMA NotifySuspendStep ==
  ASSUME NotifyInv, NEW u \in Pair, NEW t \in Pair, N!vTaskSuspend(u, t)
  PROVE  NotifyInv'
<1>1. /\ xStateList' = [xStateList EXCEPT ![t] = "suspended"]
      /\ xPendingReadyList' = xPendingReadyList \ {t}
      /\ parked' = [parked EXCEPT ![t] = TRUE]
      /\ UNCHANGED << pc, notifyCall, target, suspender >>
  BY DEF N!vTaskSuspend, N!calls
<1>2. pc[t] \notin Holding
  BY NotifyFacts DEF N!vTaskSuspend, N!MayCall, N!At, N!Runs, HolderOK, Holding
<1>3. /\ ucNotifyState' \in [Pair -> [Index -> {"notWaiting", "waiting", "received"}]]
      /\ \A w \in Pair \ {t} : ucNotifyState'[w] = ucNotifyState[w]
      /\ \A i \in Index : ucNotifyState'[t][i] # "waiting"
  BY DEF N!vTaskSuspend, NotifyInv, NotifyType
<1>4. NotifyType' /\ HolderOK'
  BY <1>1, <1>3 DEF NotifyInv, NotifyType, HolderOK
<1>5. ASSUME NEW w \in Pair PROVE WaiterOK(w)' /\ ParkedOK(w)'
  BY <1>1, <1>2, <1>3 DEF NotifyInv, NotifyType, WaiterOK, ParkedOK, Awaits, AtWork, Holding,
       N!State, N!WaitsAtAll
<1> QED BY <1>4, <1>5 DEF NotifyInv

\* Every step of the tasks and interrupts that notify.
LEMMA NotifySteps ==
  ASSUME NotifyInv, [N!Next]_(N!vars)
  PROVE  NotifyInv'
<1>1. CASE UNCHANGED N!vars
  BY <1>1 DEF NotifyInv, NotifyType, HolderOK, WaiterOK, ParkedOK, Awaits, N!State,
       N!WaitsAtAll, N!vars, N!lists, N!slots, N!calls
<1>2. ASSUME NEW t \in Pair, N!Continue(t) PROVE NotifyInv'
  BY <1>2, NotifyTestStep, NotifyBlockStep, NotifyCollectStep, NotifyResumeAllStep,
     NotifyAbortStep DEF N!Continue
<1>3. ASSUME NEW t \in Pair, N!Notifies(t) PROVE NotifyInv'
  BY <1>3, NotifyByTaskStep, NotifyClearStep DEF N!Notifies
<1>4. ASSUME NEW t \in Pair, NEW u \in Pair,
             N!AbortCheck(t, u) \/ N!vTaskSuspend(t, u) \/ N!vTaskResume(t, u)
      PROVE  NotifyInv'
  BY <1>4, NotifyHoldStep, NotifySuspendStep, NotifyWakeStep
<1>5. ASSUME N!Interrupt PROVE NotifyInv'
  BY <1>5, NotifyFromISRStep, NotifyResumeFromISRStep, NotifyWakeStep
     DEF N!Interrupt, N!vTaskGenericNotifyGiveFromISR
<1> QED BY <1>1, <1>2, <1>3, <1>4, <1>5, NotifyHoldStep, NotifyCallStep DEF N!Next

\* Before any task has called.
LEMMA NotifyStarts ==
  ASSUME N!Init
  PROVE  NotifyInv
BY ServicesAssumption DEF ServicesAssumption, N!Init, NotifyInv, NotifyType, HolderOK, WaiterOK,
     ParkedOK, Awaits, Places, Holding, AtWork, N!WaitsAtAll
-----------------------------------------------------------------------------
(* The semaphore: while a task waits, every count has a task that was woken  *)
(* for it and has yet to try, or that will be when the queue is unlocked.    *)

\* What the kernel knows of the constants: a task that uses the semaphore is
\* one of the tasks there are.
SemaphoreAssumption ==
  /\ IsFiniteSet(Task) /\ NoTask \notin Task
  /\ uxPriority \in [Task -> Nat]
  /\ uxMaxCount \in Nat /\ uxInitialCount \in 0..uxMaxCount
  /\ uxNumberOfTasks \in Nat /\ Cardinality(Task) <= uxNumberOfTasks
  /\ Waits \subseteq {"none", "some", "forever"}

\* They are so here.
LEMMA SemaphoreConstants == SemaphoreAssumption
BY ServicesAssumption DEF ServicesAssumption, SemaphoreAssumption

SemaphorePlaces ==
  {"app", "first", "lock", "check", "test", "place", "unlock", "take", "recheck"}

SemaphoreType ==
  /\ uxSemaphoreCount \in 0..uxMaxCount
  /\ cTxLock \in P!queueUNLOCKED..uxNumberOfTasks
  /\ xTasksWaitingToReceive \in Seq(Task) /\ IsInjective(xTasksWaitingToReceive)
  /\ suspender \in Task \cup {NoTask}
  /\ pc \in [Task -> SemaphorePlaces]
  /\ wait \in [Task -> {"none", "some", "forever"}]
  /\ elapsed \in [Task -> BOOLEAN] /\ ucDelayAborted \in [Task -> BOOLEAN]
  /\ timedOut \in [Task -> BOOLEAN]

\* The queue is locked as long as the scheduler is suspended.
GiverLock == (cTxLock # P!queueUNLOCKED) = (suspender # NoTask)

\* Where a task is while it has suspended the scheduler, waits, or timed out.
TakerOK(t) ==
  /\ (pc[t] \in {"check", "test", "place", "unlock"}) = (suspender = t)
  /\ timedOut[t] => pc[t] \in {"unlock", "recheck"}
  /\ P!Waiting(t) => pc[t] \in {"unlock", "take"} /\ ~timedOut[t]

\* The gives since a task that is about to wait has looked are counted, as far
\* as a lock counts.
AboutToWait ==
  \A t \in Task : pc[t] = "place" =>
    uxSemaphoreCount <= cTxLock \/ cTxLock = uxNumberOfTasks

\* The inductive invariant but for the wake-ups.
SemaphoreInv ==
  /\ SemaphoreAssumption
  /\ SemaphoreType /\ GiverLock /\ AboutToWait
  /\ \A t \in Task : TakerOK(t)

\* The tasks that have yet to try.
Triers == {t \in Task : P!WillTry(t)}

\* While tasks wait in a list, each of n counts has a task of W that will try,
\* or one that prvUnlockQueue will wake.
OwedBy(lock, list) ==
  IF lock > Len(list) THEN Len(list) ELSE IF lock > 0 THEN lock ELSE 0

Covered(n, W, lock, list) ==
  \/ OwedBy(lock, list) = Len(list)
  \/ n <= Cardinality(W) + OwedBy(lock, list)
-----------------------------------------------------------------------------
\* The list of the tasks that wait.  The library that the instance extends is
\* the one extended here.
LEMMA SameOperators ==
  /\ \A list : P!ToSet(list) = ToSet(list)
  /\ \A Set : P!Cardinality(Set) = Cardinality(Set)
  /\ \A Set : P!Min(Set) = Min(Set)
  /\ \A list, i, t : P!InsertAt(list, i, t) = InsertAt(list, i, t)
  /\ \A list, i : P!RemoveAt(list, i) = RemoveAt(list, i)
<1>1. \A Set : P!Cardinality(Set) = Cardinality(Set)
  BY DEF P!Cardinality, Cardinality, P!IsFiniteSet, IsFiniteSet
<1> QED BY <1>1 DEF P!ToSet, ToSet, P!Min, Min, P!InsertAt, InsertAt, P!RemoveAt, RemoveAt

\* xTaskRemoveFromEventList, at most n times.
LEMMA WokenList ==
  ASSUME NEW list \in Seq(Task), IsInjective(list), NEW n \in Nat
  PROVE  /\ P!Woken(list, n) \in Seq(Task) /\ IsInjective(P!Woken(list, n))
         /\ P!ToSet(P!Woken(list, n)) \subseteq P!ToSet(list)
         /\ OwedBy(n, list) \in 0..Len(list)
         /\ Len(P!Woken(list, n)) = Len(list) - OwedBy(n, list)
         /\ Cardinality(P!ToSet(list) \ P!ToSet(P!Woken(list, n))) = OwedBy(n, list)
<1> DEFINE e == P!Woken(list, n)
<1>1. Len(list) \in Nat
  OBVIOUS
<1>2. /\ e \in Seq(Task) /\ IsInjective(e) /\ P!ToSet(e) \subseteq P!ToSet(list)
      /\ Len(e) = Len(list) - OwedBy(n, list)
  <2>1. CASE n >= Len(list)
    <3>1. e = << >>
      BY <1>1, <2>1 DEF P!Woken
    <3>2. OwedBy(n, list) = Len(list)
      BY <1>1, <2>1 DEF OwedBy
    <3> QED BY <1>1, <3>1, <3>2 DEF P!ToSet, IsInjective
  <2>2. CASE n < Len(list)
    <3>1. n \in 0..Len(list) /\ e = SubSeq(list, n + 1, Len(list))
      BY <2>2, <1>1 DEF P!Woken
    <3>2. OwedBy(n, list) = n
      BY <1>1, <2>2 DEF OwedBy
    <3> HIDE DEF e
    <3> QED BY ONLY <3>1, <3>2, SameOperators, DropFirst, list \in Seq(Task),
                    IsInjective(list)
  <2> QED BY <1>1, <2>1, <2>2
<1> HIDE DEF e
<1>3. Cardinality(P!ToSet(list) \ P!ToSet(e)) = Len(list) - Len(e)
  BY ONLY <1>2, SameOperators, DropCardinality, list \in Seq(Task), IsInjective(list)
<1>4. OwedBy(n, list) \in 0..Len(list)
  BY <1>1 DEF OwedBy
<1> QED BY <1>1, <1>2, <1>3, <1>4 DEF e

\* vTaskPlaceOnEventList
LEMMA PlacedList ==
  ASSUME uxPriority \in [Task -> Nat],
         NEW list \in Seq(Task), IsInjective(list),
         NEW t \in Task, t \notin P!ToSet(list)
  PROVE  /\ P!Placed(list, t) \in Seq(Task) /\ IsInjective(P!Placed(list, t))
         /\ P!ToSet(P!Placed(list, t)) = P!ToSet(list) \cup {t}
         /\ Len(P!Placed(list, t)) = Len(list) + 1
<1> DEFINE n == Len(list)
           lower == {i \in 1..n : uxPriority[list[i]] < uxPriority[t]}
           k == IF lower = {} THEN n + 1 ELSE Min(lower)
<1>1. n \in Nat
  OBVIOUS
<1>2. k \in Nat /\ 1 <= k /\ k <= n + 1
  <2>1. CASE lower = {}
    BY <2>1, <1>1
  <2>2. CASE lower # {}
    <3>1. lower \subseteq Nat /\ lower \subseteq 1..n
      OBVIOUS
    <3>2. Min(lower) \in lower
      <4> HIDE DEF lower
      <4> QED BY <2>2, <3>1, MinIsLeast
    <3>3. k \in 1..n
      BY <2>2, <3>1, <3>2
    <3> QED BY <3>3, <1>1
  <2> QED BY <2>1, <2>2
<1>3. P!Placed(list, t) = InsertAt(list, k, t)
  BY SameOperators DEF P!Placed
<1> HIDE DEF k
<1> QED BY ONLY <1>2, <1>3, SameOperators, InsertElement, list \in Seq(Task), t \in Task,
                IsInjective(list), t \notin P!ToSet(list) DEF n

\* uxListRemove
LEMMA WithoutList ==
  ASSUME NEW list \in Seq(Task), IsInjective(list), NEW t
  PROVE  /\ P!Without(list, t) \in Seq(Task) /\ IsInjective(P!Without(list, t))
         /\ P!ToSet(P!Without(list, t)) = P!ToSet(list) \ {t}
         /\ t \notin P!ToSet(list) => P!Without(list, t) = list
<1>1. CASE t \in P!ToSet(list)
  <2>1. P!Without(list, t) = uxListRemove(list, t)
    BY <1>1, SameOperators DEF P!Without, uxListRemove
  <2> QED BY <1>1, <2>1, RemoveElement, SameOperators
<1>2. CASE t \notin P!ToSet(list)
  BY <1>2 DEF P!Without
<1> QED BY <1>1, <1>2
-----------------------------------------------------------------------------
\* Who covers the counts.

\* The property in these words.
LEMMA WokenIsCovered ==
  /\ P!TakersWoken
       <=> /\ Covered(uxSemaphoreCount, Triers, cTxLock, xTasksWaitingToReceive)
           /\ GiverLock
  /\ P!TakersWoken'
       <=> /\ Covered(uxSemaphoreCount', Triers', cTxLock', xTasksWaitingToReceive')
           /\ GiverLock'
BY SameOperators DEF P!TakersWoken, P!Owed, Covered, OwedBy, Triers, GiverLock

\* Sets of tasks are finite, and a list is no longer than there are tasks.
LEMMA TaskSets ==
  ASSUME SemaphoreAssumption
  PROVE  /\ \A W \in SUBSET Task : IsFiniteSet(W) /\ Cardinality(W) \in Nat
         /\ \A W, V \in SUBSET Task : W \subseteq V => Cardinality(W) <= Cardinality(V)
         /\ \A list \in Seq(Task) :
              IsInjective(list) => Len(list) <= uxNumberOfTasks
<1>1. \A W \in SUBSET Task : IsFiniteSet(W) /\ Cardinality(W) \in Nat
  BY FS_Subset, FS_CardinalityType DEF SemaphoreAssumption
<1>2. ASSUME NEW W \in SUBSET Task, NEW V \in SUBSET Task, W \subseteq V
      PROVE  Cardinality(W) <= Cardinality(V)
  BY <1>1, <1>2, FS_Subset
<1>3. ASSUME NEW list \in Seq(Task), IsInjective(list)
      PROVE  Len(list) <= uxNumberOfTasks
  <2>1. Len(list) <= Cardinality(Task)
    BY <1>3, ListBound DEF SemaphoreAssumption
  <2>2. Cardinality(Task) \in Nat
    BY <1>1
  <2> QED BY <2>1, <2>2 DEF SemaphoreAssumption
<1> QED BY <1>1, <1>2, <1>3

\* No count more, and nobody less to try.
LEMMA CoveredByMore ==
  ASSUME SemaphoreAssumption, NEW n \in Int, NEW m \in Int, m <= n,
         NEW W \in SUBSET Task, NEW V \in SUBSET Task, W \subseteq V,
         NEW list \in Seq(Task), NEW lock \in Int, NEW lock2 \in Int,
         lock2 = lock \/ (lock <= 0 /\ lock2 <= 0),
         Covered(n, W, lock, list)
  PROVE  Covered(m, V, lock2, list)
<1>1. /\ Cardinality(W) \in Nat /\ Cardinality(V) \in Nat
      /\ Cardinality(W) <= Cardinality(V) /\ Len(list) \in Nat
  BY TaskSets
<1>2. OwedBy(lock, list) = OwedBy(lock2, list) /\ OwedBy(lock, list) \in Int
  BY <1>1 DEF OwedBy
<1> QED BY <1>1, <1>2 DEF Covered

\* A count is taken by one who tried, or by an interrupt.
LEMMA CoveredByLess ==
  ASSUME SemaphoreAssumption, NEW n \in Int,
         NEW W \in SUBSET Task, NEW V \in SUBSET Task, NEW t, W \ {t} \subseteq V,
         NEW list \in Seq(Task), NEW lock \in Int, Covered(n, W, lock, list)
  PROVE  Covered(n - 1, V, lock, list)
<1>1. /\ Cardinality(W) \in Nat /\ Cardinality(V) \in Nat
      /\ IsFiniteSet(W) /\ IsFiniteSet(V) /\ Len(list) \in Nat
  BY TaskSets
<1>2. Cardinality(W) - 1 <= Cardinality(V)
  BY <1>1, WithoutOne
<1>3. OwedBy(lock, list) \in Int
  BY <1>1 DEF OwedBy
<1> QED BY <1>1, <1>2, <1>3 DEF Covered

\* No count needs no one.
LEMMA CoveredNone ==
  ASSUME SemaphoreAssumption, NEW W \in SUBSET Task, NEW list \in Seq(Task),
         NEW lock \in Int
  PROVE  Covered(0, W, lock, list)
<1>1. Cardinality(W) \in Nat /\ Len(list) \in Nat
  BY TaskSets
<1>2. OwedBy(lock, list) \in Nat
  BY <1>1 DEF OwedBy
<1> QED BY <1>1, <1>2 DEF Covered

\* A wake-up for each of the gives, of which there are more for none that waits.
LEMMA CoveredByWoken ==
  ASSUME SemaphoreAssumption, NEW n \in Int, NEW k \in Nat, NEW gives \in {0, 1},
         NEW W \in SUBSET Task, NEW V \in SUBSET Task,
         NEW list \in Seq(Task), IsInjective(list),
         NEW lock \in Int,
         \/ gives = 1 /\ k = 1 /\ lock = P!queueUNLOCKED
         \/ gives = 0 /\ k = lock,
         Covered(n, W, lock, list),
         W \cup (P!ToSet(list) \ P!ToSet(P!Woken(list, k))) \subseteq V,
         W \cap P!ToSet(list) = {}
  PROVE  Covered(n + gives, V, P!queueUNLOCKED, P!Woken(list, k))
<1> DEFINE K == P!ToSet(list) \ P!ToSet(P!Woken(list, k))
           e == P!Woken(list, k)
<1>1. /\ e \in Seq(Task) /\ Len(e) = Len(list) - OwedBy(k, list)
      /\ Cardinality(K) = OwedBy(k, list) /\ OwedBy(k, list) \in 0..Len(list)
      /\ Len(list) \in Nat
  <2>1. /\ P!Woken(list, k) \in Seq(Task)
        /\ OwedBy(k, list) \in 0..Len(list)
        /\ Len(P!Woken(list, k)) = Len(list) - OwedBy(k, list)
        /\ Cardinality(P!ToSet(list) \ P!ToSet(P!Woken(list, k))) = OwedBy(k, list)
    BY WokenList
  <2> QED BY <2>1
<1>2. IsFiniteSet(V) /\ W \cup K \subseteq V /\ W \cap K = {}
  BY TaskSets
<1> HIDE DEF K, e
<1>3. /\ Cardinality(W) \in Nat /\ Cardinality(K) \in Nat /\ Cardinality(V) \in Nat
      /\ Cardinality(W) + Cardinality(K) <= Cardinality(V)
  BY <1>2, DisjointParts
<1>4. OwedBy(P!queueUNLOCKED, e) = 0
  BY <1>1 DEF OwedBy, P!queueUNLOCKED
<1>5. CASE gives = 1 /\ k = 1 /\ lock = P!queueUNLOCKED
  <2>1. OwedBy(lock, list) = 0 /\ OwedBy(k, list) = IF Len(list) = 0 THEN 0 ELSE 1
    BY <1>1, <1>5 DEF OwedBy, P!queueUNLOCKED
  <2> QED BY <1>1, <1>3, <1>4, <1>5, <2>1 DEF Covered, e
<1>6. CASE gives = 0 /\ k = lock
  BY <1>1, <1>3, <1>4, <1>6 DEF Covered, e
<1> QED BY <1>5, <1>6
-----------------------------------------------------------------------------
\* The steps of one task.

\* The functions of the tasks have their types.
TakersType ==
  /\ pc \in [Task -> SemaphorePlaces]
  /\ wait \in [Task -> {"none", "some", "forever"}]
  /\ elapsed \in [Task -> BOOLEAN] /\ ucDelayAborted \in [Task -> BOOLEAN]
  /\ timedOut \in [Task -> BOOLEAN]

\* A step of task t leaves the others where they are: they keep the invariant,
\* and those that had yet to try still have.
LEMMA TakerStep ==
  ASSUME SemaphoreInv, NEW t \in Task, suspender \in {NoTask, t}, suspender' \in {NoTask, t},
         uxSemaphoreCount' \in 0..uxMaxCount,
         cTxLock' \in P!queueUNLOCKED..uxNumberOfTasks,
         xTasksWaitingToReceive' \in Seq(Task), IsInjective(xTasksWaitingToReceive'),
         P!ToSet(xTasksWaitingToReceive') \subseteq P!ToSet(xTasksWaitingToReceive) \cup {t},
         TakersType', GiverLock', TakerOK(t)',
         \A u \in Task \ {t} : pc'[u] = pc[u] /\ timedOut'[u] = timedOut[u],
         pc'[t] = "place" => uxSemaphoreCount' <= cTxLock' \/ cTxLock' = uxNumberOfTasks
  PROVE  /\ SemaphoreInv'
         /\ Triers \in SUBSET Task /\ Triers' \in SUBSET Task
         /\ Triers \ {t} \subseteq Triers'
<1>1. SemaphoreType'
  BY DEF SemaphoreType, TakersType
<1>2. \A u \in Task \ {t} : P!Waiting(u)' => P!Waiting(u)
  BY DEF P!Waiting
<1>3. \A u \in Task \ {t} : suspender # u /\ suspender' # u
  BY DEF SemaphoreInv, SemaphoreAssumption
<1>4. \A u \in Task \ {t} : TakerOK(u)' /\ pc'[u] # "place"
  BY <1>2, <1>3 DEF SemaphoreInv, TakerOK
<1>5. AboutToWait'
  BY <1>4 DEF AboutToWait
<1>6. Triers \ {t} \subseteq Triers'
  BY <1>2 DEF Triers, P!WillTry
<1> QED BY <1>1, <1>4, <1>5, <1>6 DEF SemaphoreInv, Triers

\* What an invariant state knows.
LEMMA SemaphoreKnown ==
  ASSUME SemaphoreInv
  PROVE  /\ SemaphoreAssumption /\ TakersType /\ GiverLock
         /\ uxMaxCount \in Nat /\ uxNumberOfTasks \in Nat
         /\ uxSemaphoreCount \in 0..uxMaxCount /\ uxSemaphoreCount \in Int
         /\ cTxLock \in P!queueUNLOCKED..uxNumberOfTasks /\ cTxLock \in Int
         /\ xTasksWaitingToReceive \in Seq(Task)
         /\ IsInjective(xTasksWaitingToReceive)
         /\ Triers \in SUBSET Task
         /\ \A t \in Task : TakerOK(t)
         /\ \A t \in Task : suspender = t => suspender # NoTask
BY DEF SemaphoreInv, SemaphoreType, TakersType, SemaphoreAssumption, P!queueUNLOCKED, Triers

\* A task that is at a place outside the suspension of the scheduler can only
\* go on while no task has suspended it, and then the queue is not locked.
LEMMA TakerOutside ==
  ASSUME SemaphoreInv, NEW t \in Task, NEW place \in {"app", "first", "lock", "take", "recheck"},
         P!At(t, place)
  PROVE  suspender = NoTask /\ cTxLock = P!queueUNLOCKED /\ pc[t] = place /\ ~P!Waiting(t)
BY SemaphoreKnown DEF P!At, TakerOK, GiverLock

\* A task returns.
LEMMA TakerReturns ==
  ASSUME TakersType, NEW t \in Task, P!Return(t)
  PROVE  /\ TakersType' /\ pc'[t] = "app" /\ timedOut'[t] = FALSE
         /\ \A u \in Task \ {t} : pc'[u] = pc[u] /\ timedOut'[u] = timedOut[u]
BY DEF TakersType, P!Return, P!Goto, SemaphorePlaces

\* A call begins.
LEMMA TakerCallStep ==
  ASSUME SemaphoreInv, NEW t \in Task, NEW w \in Waits, P!Call(t, w)
  PROVE  SemaphoreInv' /\ (P!TakersWoken => P!TakersWoken')
<1>1. /\ suspender = NoTask /\ pc[t] = "app" /\ ~P!Waiting(t)
      /\ UNCHANGED << uxSemaphoreCount, cTxLock, xTasksWaitingToReceive, suspender,
                      timedOut >>
  BY TakerOutside DEF P!Call
<1>2. TakersType' /\ pc'[t] = "first" /\ \A u \in Task \ {t} : pc'[u] = pc[u]
  BY SemaphoreKnown DEF TakersType, P!Call, P!Goto, SemaphorePlaces, SemaphoreAssumption
<1>3. TakerOK(t)' /\ GiverLock'
  BY <1>1, <1>2, SemaphoreKnown DEF TakerOK, GiverLock, P!Waiting
<1>4. SemaphoreInv' /\ Triers' \in SUBSET Task /\ Triers \ {t} \subseteq Triers'
  BY <1>1, <1>2, <1>3, SemaphoreKnown, TakerStep
<1>5. t \notin Triers
  BY <1>1 DEF Triers, P!WillTry
<1> QED BY <1>1, <1>3, <1>4, <1>5, SemaphoreKnown, CoveredByMore, WokenIsCovered

\* A task takes.
LEMMA TakesStep ==
  ASSUME SemaphoreInv, NEW t \in Task, P!Takes(t)
  PROVE  SemaphoreInv' /\ (P!TakersWoken => P!TakersWoken')
<1>1. /\ suspender = NoTask /\ ~P!Waiting(t)
      /\ uxSemaphoreCount > 0 /\ uxSemaphoreCount' = uxSemaphoreCount - 1
      /\ UNCHANGED << cTxLock, xTasksWaitingToReceive, suspender >>
  BY TakerOutside DEF P!Takes, P!Tries
<1>2. /\ TakersType' /\ pc'[t] = "app" /\ timedOut'[t] = FALSE
      /\ \A u \in Task \ {t} : pc'[u] = pc[u] /\ timedOut'[u] = timedOut[u]
  BY SemaphoreKnown, TakerReturns DEF P!Takes
<1>3. TakerOK(t)' /\ GiverLock'
  BY <1>1, <1>2, SemaphoreKnown DEF TakerOK, GiverLock, P!Waiting
<1>4. uxSemaphoreCount' \in 0..uxMaxCount
  BY <1>1, SemaphoreKnown
<1>5. SemaphoreInv' /\ Triers' \in SUBSET Task /\ Triers \ {t} \subseteq Triers'
  BY <1>1, <1>2, <1>3, <1>4, SemaphoreKnown, TakerStep
<1>6. P!TakersWoken => Covered(uxSemaphoreCount - 1, Triers', cTxLock, xTasksWaitingToReceive)
  BY <1>5, SemaphoreKnown, CoveredByLess, WokenIsCovered
<1> QED BY <1>1, <1>3, <1>5, <1>6, WokenIsCovered

\* A task finds no count, and returns or goes on to wait.
LEMMA FindsNoneStep ==
  ASSUME SemaphoreInv, NEW t \in Task, P!FindsNone(t)
  PROVE  SemaphoreInv' /\ (P!TakersWoken => P!TakersWoken')
<1>1. /\ suspender = NoTask /\ ~P!Waiting(t) /\ uxSemaphoreCount = 0
      /\ pc[t] \in {"first", "take"} /\ timedOut[t] = FALSE
      /\ UNCHANGED << uxSemaphoreCount, cTxLock, xTasksWaitingToReceive, suspender >>
  BY TakerOutside, SemaphoreKnown DEF P!FindsNone, P!Tries, TakerOK, TakersType
<1>2. /\ TakersType' /\ pc'[t] \in {"app", "lock"} /\ timedOut'[t] = FALSE
      /\ \A u \in Task \ {t} : pc'[u] = pc[u] /\ timedOut'[u] = timedOut[u]
  <2>1. CASE P!Return(t)
    BY <2>1, SemaphoreKnown, TakerReturns
  <2>2. CASE P!Goto(t, "lock") /\ UNCHANGED << wait, elapsed, ucDelayAborted, timedOut >>
    BY <1>1, <2>2, SemaphoreKnown DEF TakersType, P!Goto, SemaphorePlaces
  <2> QED BY <2>1, <2>2 DEF P!FindsNone
<1>3. TakerOK(t)' /\ GiverLock'
  BY <1>1, <1>2, SemaphoreKnown DEF TakerOK, GiverLock, P!Waiting
<1>4. SemaphoreInv' /\ Triers' \in SUBSET Task
  BY <1>1, <1>2, <1>3, SemaphoreKnown, TakerStep
<1> QED BY <1>1, <1>3, <1>4, SemaphoreKnown, CoveredNone, WokenIsCovered

\* A task suspends the scheduler and locks the queue.
LEMMA TakerLockStep ==
  ASSUME SemaphoreInv, NEW t \in Task, P!prvLockQueue(t)
  PROVE  SemaphoreInv' /\ (P!TakersWoken => P!TakersWoken')
<1>1. /\ suspender = NoTask /\ ~P!Waiting(t) /\ pc[t] = "lock" /\ timedOut[t] = FALSE
      /\ cTxLock = P!queueUNLOCKED /\ suspender' = t /\ cTxLock' = 0
      /\ UNCHANGED << uxSemaphoreCount, xTasksWaitingToReceive, timedOut >>
  BY TakerOutside, SemaphoreKnown DEF P!prvLockQueue, TakerOK, TakersType, P!queueLOCKED_UNMODIFIED
<1>2. TakersType' /\ pc'[t] = "check" /\ \A u \in Task \ {t} : pc'[u] = pc[u]
  BY SemaphoreKnown DEF TakersType, P!prvLockQueue, P!Goto, SemaphorePlaces
<1>3. TakerOK(t)' /\ GiverLock' /\ cTxLock' \in P!queueUNLOCKED..uxNumberOfTasks
  BY <1>1, <1>2, SemaphoreKnown DEF TakerOK, GiverLock, P!Waiting, P!queueUNLOCKED, SemaphoreAssumption
<1>4. SemaphoreInv' /\ Triers' \in SUBSET Task /\ Triers \ {t} \subseteq Triers'
  BY <1>1, <1>2, <1>3, SemaphoreKnown, TakerStep
<1>5. t \notin Triers /\ cTxLock <= 0 /\ cTxLock' <= 0 /\ cTxLock' \in Int
  BY <1>1 DEF Triers, P!WillTry, P!queueUNLOCKED
<1> QED BY <1>1, <1>3, <1>4, <1>5, SemaphoreKnown, CoveredByMore, WokenIsCovered

\* It learns whether its block time is over, looks at the queue once more, or
\* goes on after a time-out: a step that changes nothing but its place.
LEMMA TakerMoves ==
  ASSUME SemaphoreInv, NEW t \in Task,
         UNCHANGED << uxSemaphoreCount, cTxLock, xTasksWaitingToReceive, suspender >>,
         suspender = t, TakersType', TakerOK(t)',
         \A u \in Task \ {t} : pc'[u] = pc[u] /\ timedOut'[u] = timedOut[u],
         pc'[t] = "place" => uxSemaphoreCount = 0,
         pc[t] \in {"check", "test"}
  PROVE  SemaphoreInv' /\ (P!TakersWoken => P!TakersWoken')
<1>1. GiverLock' /\ cTxLock >= 0
  BY SemaphoreKnown DEF GiverLock, P!queueUNLOCKED
<1>2. SemaphoreInv' /\ Triers' \in SUBSET Task /\ Triers \ {t} \subseteq Triers'
  BY <1>1, SemaphoreKnown, TakerStep
<1>3. t \notin Triers
  BY DEF Triers, P!WillTry
<1> QED BY <1>1, <1>2, <1>3, SemaphoreKnown, CoveredByMore, WokenIsCovered

\* xTaskCheckForTimeOut
LEMMA TakerCheckStep ==
  ASSUME SemaphoreInv, NEW t \in Task, P!xTaskCheckForTimeOut(t)
  PROVE  SemaphoreInv' /\ (P!TakersWoken => P!TakersWoken')
<1>1. /\ pc[t] = "check" /\ ~P!Waiting(t) /\ suspender = t
      /\ UNCHANGED << uxSemaphoreCount, cTxLock, xTasksWaitingToReceive, suspender >>
  BY SemaphoreKnown DEF P!xTaskCheckForTimeOut, P!At, TakerOK
<1>2. /\ TakersType'
      /\ \A u \in Task \ {t} : pc'[u] = pc[u] /\ timedOut'[u] = timedOut[u]
      /\ \/ pc'[t] = "unlock"
         \/ pc'[t] = "test" /\ timedOut'[t] = FALSE
  BY SemaphoreKnown DEF TakersType, P!xTaskCheckForTimeOut, P!Goto, SemaphorePlaces
<1>3. TakerOK(t)'
  BY <1>1, <1>2 DEF TakerOK, P!Waiting
<1> QED BY <1>1, <1>2, <1>3, TakerMoves

\* prvIsQueueEmpty
LEMMA LooksAgainStep ==
  ASSUME SemaphoreInv, NEW t \in Task, P!LooksAgain(t)
  PROVE  SemaphoreInv' /\ (P!TakersWoken => P!TakersWoken')
<1>1. /\ pc[t] = "test" /\ ~P!Waiting(t) /\ suspender = t /\ timedOut[t] = FALSE
      /\ UNCHANGED << uxSemaphoreCount, cTxLock, xTasksWaitingToReceive, suspender,
                      timedOut >>
  BY SemaphoreKnown DEF P!LooksAgain, P!At, TakerOK, TakersType
<1>2. /\ TakersType' /\ pc'[t] = IF uxSemaphoreCount = 0 THEN "place" ELSE "unlock"
      /\ \A u \in Task \ {t} : pc'[u] = pc[u] /\ timedOut'[u] = timedOut[u]
  BY SemaphoreKnown DEF TakersType, P!LooksAgain, P!Goto, SemaphorePlaces
<1>3. TakerOK(t)'
  BY <1>1, <1>2 DEF TakerOK, P!Waiting
<1> QED BY <1>1, <1>2, <1>3, TakerMoves

\* The task takes its place in the list.
LEMMA TakerPlaceStep ==
  ASSUME SemaphoreInv, NEW t \in Task, P!vTaskPlaceOnEventList(t)
  PROVE  SemaphoreInv' /\ (P!TakersWoken => P!TakersWoken')
<1> DEFINE list == xTasksWaitingToReceive
           Most == uxNumberOfTasks
<1>1. /\ pc[t] = "place" /\ ~P!Waiting(t) /\ suspender = t /\ timedOut[t] = FALSE
      /\ xTasksWaitingToReceive' = P!Placed(list, t)
      /\ UNCHANGED << uxSemaphoreCount, cTxLock, suspender, timedOut >>
  BY SemaphoreKnown DEF P!vTaskPlaceOnEventList, P!At, TakerOK, TakersType
<1>2. TakersType' /\ pc'[t] = "unlock" /\ \A u \in Task \ {t} : pc'[u] = pc[u]
  BY SemaphoreKnown DEF TakersType, P!vTaskPlaceOnEventList, P!Goto, SemaphorePlaces
<1>3. /\ P!Placed(list, t) \in Seq(Task) /\ IsInjective(P!Placed(list, t))
      /\ P!ToSet(P!Placed(list, t)) = P!ToSet(list) \cup {t}
  BY <1>1, SemaphoreKnown, PlacedList DEF P!Waiting, SemaphoreAssumption
<1>4. TakerOK(t)' /\ GiverLock' /\ cTxLock >= 0
  BY <1>1, <1>2, SemaphoreKnown DEF TakerOK, GiverLock, P!queueUNLOCKED
<1>5. SemaphoreInv' /\ Triers' \in SUBSET Task
  <2>1. P!ToSet(xTasksWaitingToReceive') \subseteq P!ToSet(list) \cup {t}
    BY <1>1, <1>3
  <2> HIDE DEF list
  <2> QED BY <1>1, <1>2, <1>3, <1>4, <2>1, SemaphoreKnown, TakerStep DEF list
<1>6. uxSemaphoreCount <= cTxLock \/ cTxLock = Most
  BY <1>1 DEF SemaphoreInv, AboutToWait
<1>7. Covered(uxSemaphoreCount, Triers', cTxLock, P!Placed(list, t))
  <2> DEFINE L == Len(P!Placed(list, t))
  <2>1. L \in Nat /\ L <= Most /\ Cardinality(Triers') \in Nat
    BY <1>3, <1>5, SemaphoreKnown, TaskSets
  <2>2. OwedBy(cTxLock, P!Placed(list, t)) =
          IF cTxLock > L THEN L ELSE IF cTxLock > 0 THEN cTxLock ELSE 0
    BY DEF OwedBy
  <2>3. cTxLock \in Int /\ Most \in Nat /\ uxSemaphoreCount \in Int
    BY SemaphoreKnown
  <2> HIDE DEF L
  <2>4. \/ OwedBy(cTxLock, P!Placed(list, t)) = L
        \/ uxSemaphoreCount
             <= Cardinality(Triers') + OwedBy(cTxLock, P!Placed(list, t))
    BY <1>4, <1>6, <2>1, <2>2, <2>3
  <2> QED BY <2>4 DEF Covered, L
<1> QED BY <1>1, <1>4, <1>5, <1>7, WokenIsCovered

\* prvUnlockQueue
LEMMA TakerUnlockStep ==
  ASSUME SemaphoreInv, NEW t \in Task, P!prvUnlockQueue(t)
  PROVE  SemaphoreInv' /\ (P!TakersWoken => P!TakersWoken')
<1> DEFINE list == xTasksWaitingToReceive
           e == P!Woken(list, cTxLock)
<1>1. /\ pc[t] = "unlock" /\ suspender = t /\ suspender' = NoTask
      /\ xTasksWaitingToReceive' = e /\ cTxLock' = P!queueUNLOCKED
      /\ UNCHANGED << uxSemaphoreCount, timedOut >>
  BY DEF P!prvUnlockQueue
<1>2. /\ TakersType' /\ pc'[t] = IF timedOut[t] THEN "recheck" ELSE "take"
      /\ \A u \in Task \ {t} : pc'[u] = pc[u]
  BY SemaphoreKnown DEF TakersType, P!prvUnlockQueue, P!Goto, SemaphorePlaces
<1>3. cTxLock \in Nat /\ TakerOK(t) /\ GiverLock' /\ NoTask \notin Task
      /\ P!queueUNLOCKED \in P!queueUNLOCKED..uxNumberOfTasks
  BY <1>1, SemaphoreKnown DEF GiverLock, P!queueUNLOCKED, SemaphoreAssumption
<1>4. e \in Seq(Task) /\ IsInjective(e) /\ P!ToSet(e) \subseteq P!ToSet(list)
  BY <1>3, SemaphoreKnown, WokenList
<1> HIDE DEF e
<1>5. TakerOK(t)'
  BY <1>1, <1>2, <1>3, <1>4 DEF TakerOK, P!Waiting
<1>6. SemaphoreInv' /\ Triers' \in SUBSET Task /\ Triers \ {t} \subseteq Triers'
  BY <1>1, <1>2, <1>3, <1>4, <1>5, SemaphoreKnown, TakerStep
<1>7. ASSUME NEW u \in P!ToSet(list) \ P!ToSet(e) PROVE u \in Triers'
  <2>1. u \in Task /\ P!Waiting(u)
    BY SemaphoreKnown DEF P!Waiting, P!ToSet
  <2>2. TakerOK(u) /\ ~P!Waiting(u)'
    BY <1>1, <2>1, SemaphoreKnown DEF P!Waiting
  <2> QED BY <1>1, <1>2, <2>1, <2>2 DEF Triers, P!WillTry, TakerOK
<1>8. t \in Triers => t \in Triers'
  BY <1>1, <1>2, <1>4 DEF Triers, P!WillTry, P!Waiting
<1>9. Triers \cap P!ToSet(list) = {}
  BY DEF Triers, P!WillTry, P!Waiting
<1>10. P!TakersWoken => Covered(uxSemaphoreCount + 0, Triers', P!queueUNLOCKED, e)
  BY <1>3, <1>6, <1>7, <1>8, <1>9, SemaphoreKnown, CoveredByWoken, WokenIsCovered DEF e
<1>11. uxSemaphoreCount + 0 = uxSemaphoreCount
  BY SemaphoreKnown
<1> QED BY <1>1, <1>3, <1>6, <1>10, <1>11, WokenIsCovered

\* A task that timed out looks once more.
LEMMA TakerRecheckStep ==
  ASSUME SemaphoreInv, NEW t \in Task, P!Recheck(t)
  PROVE  SemaphoreInv' /\ (P!TakersWoken => P!TakersWoken')
<1>1. /\ suspender = NoTask /\ ~P!Waiting(t) /\ pc[t] = "recheck"
      /\ UNCHANGED << uxSemaphoreCount, cTxLock, xTasksWaitingToReceive, suspender >>
  BY TakerOutside DEF P!Recheck
<1>2. /\ TakersType' /\ pc'[t] \in {"app", "take"} /\ timedOut'[t] = FALSE
      /\ \A u \in Task \ {t} : pc'[u] = pc[u] /\ timedOut'[u] = timedOut[u]
  <2>1. CASE P!Return(t)
    BY <2>1, SemaphoreKnown, TakerReturns
  <2>2. CASE /\ P!Goto(t, "take") /\ timedOut' = [timedOut EXCEPT ![t] = FALSE]
             /\ UNCHANGED << wait, elapsed, ucDelayAborted >>
    BY <2>2, SemaphoreKnown DEF TakersType, P!Goto, SemaphorePlaces
  <2> QED BY <2>1, <2>2 DEF P!Recheck
<1>3. TakerOK(t)' /\ GiverLock'
  BY <1>1, <1>2, SemaphoreKnown DEF TakerOK, GiverLock, P!Waiting
<1>4. SemaphoreInv' /\ Triers' \in SUBSET Task /\ Triers \ {t} \subseteq Triers'
  BY <1>1, <1>2, <1>3, SemaphoreKnown, TakerStep
<1>5. t \notin Triers
  BY <1>1 DEF Triers, P!WillTry
<1> QED BY <1>1, <1>3, <1>4, <1>5, SemaphoreKnown, CoveredByMore, WokenIsCovered
-----------------------------------------------------------------------------
\* The steps that leave every task at its place.
LEMMA TakersStay ==
  ASSUME SemaphoreInv, UNCHANGED << pc, suspender, timedOut >>, TakersType', GiverLock',
         uxSemaphoreCount' \in 0..uxMaxCount,
         cTxLock' \in P!queueUNLOCKED..uxNumberOfTasks,
         xTasksWaitingToReceive' \in Seq(Task), IsInjective(xTasksWaitingToReceive'),
         P!ToSet(xTasksWaitingToReceive') \subseteq P!ToSet(xTasksWaitingToReceive),
         suspender # NoTask =>
           (uxSemaphoreCount <= cTxLock \/ cTxLock = uxNumberOfTasks
             => uxSemaphoreCount' <= cTxLock' \/ cTxLock' = uxNumberOfTasks)
  PROVE  /\ SemaphoreInv' /\ Triers' \in SUBSET Task
         /\ Triers \cup (P!ToSet(xTasksWaitingToReceive)
                          \ P!ToSet(xTasksWaitingToReceive')) \subseteq Triers'
         /\ Triers \cap P!ToSet(xTasksWaitingToReceive) = {}
<1>1. SemaphoreType'
  BY DEF SemaphoreInv, SemaphoreType, TakersType
<1>2. \A u \in Task : TakerOK(u) /\ (P!Waiting(u)' => P!Waiting(u))
  BY SemaphoreKnown DEF P!Waiting
<1>3. \A u \in Task : TakerOK(u)'
  BY <1>2 DEF TakerOK
<1>4. \A u \in Task : pc[u] = "place" => suspender # NoTask
  BY <1>2, SemaphoreKnown DEF TakerOK
<1>5. AboutToWait'
  BY <1>4 DEF SemaphoreInv, AboutToWait
<1>6. Triers \subseteq Triers'
  BY <1>2 DEF Triers, P!WillTry
<1>7. ASSUME NEW u \in P!ToSet(xTasksWaitingToReceive), u \notin P!ToSet(xTasksWaitingToReceive')
      PROVE  u \in Triers'
  <2>1. u \in Task /\ P!Waiting(u) /\ ~P!Waiting(u)'
    BY <1>7, SemaphoreKnown DEF P!Waiting, P!ToSet
  <2> QED BY <1>2, <2>1 DEF TakerOK, Triers, P!WillTry
<1> QED BY <1>1, <1>3, <1>5, <1>6, <1>7 DEF SemaphoreInv, Triers, P!WillTry, P!Waiting

\* A give wakes a task, if the queue is not locked.
LEMMA GiveWakes ==
  ASSUME SemaphoreInv, cTxLock = P!queueUNLOCKED, UNCHANGED << cTxLock, suspender, P!calls >>,
         uxSemaphoreCount < uxMaxCount, uxSemaphoreCount' = uxSemaphoreCount + 1,
         xTasksWaitingToReceive' = P!Woken(xTasksWaitingToReceive, 1)
  PROVE  SemaphoreInv' /\ (P!TakersWoken => P!TakersWoken')
<1> DEFINE list == xTasksWaitingToReceive
           e == P!Woken(list, 1)
<1>1. e \in Seq(Task) /\ IsInjective(e) /\ P!ToSet(e) \subseteq P!ToSet(list)
  BY SemaphoreKnown, WokenList
<1> HIDE DEF e
<1>2. /\ TakersType' /\ GiverLock' /\ suspender = NoTask
      /\ UNCHANGED << pc, timedOut >> /\ uxSemaphoreCount' \in 0..uxMaxCount
      /\ xTasksWaitingToReceive' = e
  BY SemaphoreKnown DEF TakersType, GiverLock, P!calls, e
<1>3. /\ SemaphoreInv' /\ Triers' \in SUBSET Task /\ Triers \cap P!ToSet(list) = {}
      /\ Triers \cup (P!ToSet(list) \ P!ToSet(e)) \subseteq Triers'
  <2> HIDE DEF list
  <2> QED BY <1>1, <1>2, SemaphoreKnown, TakersStay DEF list
<1>4. P!TakersWoken => Covered(uxSemaphoreCount + 1, Triers', P!queueUNLOCKED, e)
  BY <1>3, SemaphoreKnown, CoveredByWoken, WokenIsCovered DEF e
<1> QED BY <1>2, <1>3, <1>4, WokenIsCovered

\* xSemaphoreGive
LEMMA GiveStep ==
  ASSUME SemaphoreInv, NEW t \in Task, P!xQueueGenericSend(t)
  PROVE  SemaphoreInv' /\ (P!TakersWoken => P!TakersWoken')
BY TakerOutside, GiveWakes DEF P!xQueueGenericSend

\* xQueueGiveFromISR counts the give if the queue is locked.
LEMMA GiveFromISRStep ==
  ASSUME SemaphoreInv, P!xQueueGiveFromISR
  PROVE  SemaphoreInv' /\ (P!TakersWoken => P!TakersWoken')
<1> DEFINE list == xTasksWaitingToReceive
           Most == uxNumberOfTasks
<1>1. CASE cTxLock = P!queueUNLOCKED
  BY <1>1, GiveWakes DEF P!xQueueGiveFromISR
<1>2. CASE cTxLock # P!queueUNLOCKED
  <2>1. /\ uxSemaphoreCount < uxMaxCount /\ uxSemaphoreCount' = uxSemaphoreCount + 1
        /\ cTxLock' = IF cTxLock < Most THEN cTxLock + 1 ELSE cTxLock
        /\ UNCHANGED << xTasksWaitingToReceive, suspender, P!calls >>
    BY <1>2 DEF P!xQueueGiveFromISR, P!Counted
  <2>2. /\ cTxLock \in 0..Most /\ cTxLock' \in 0..Most /\ Most \in Nat
        /\ cTxLock' \in P!queueUNLOCKED..Most /\ cTxLock' # P!queueUNLOCKED
        /\ uxSemaphoreCount' \in 0..uxMaxCount /\ uxSemaphoreCount \in Nat
    BY <1>2, <2>1, SemaphoreKnown DEF P!queueUNLOCKED
  <2>3. TakersType' /\ GiverLock' /\ UNCHANGED << pc, timedOut >>
    BY <1>2, <2>1, <2>2, SemaphoreKnown DEF TakersType, GiverLock, P!calls
  <2>4. uxSemaphoreCount <= cTxLock \/ cTxLock = Most
          => uxSemaphoreCount' <= cTxLock' \/ cTxLock' = Most
    BY <2>1, <2>2
  <2>5. SemaphoreInv' /\ Triers' \in SUBSET Task /\ Triers \subseteq Triers'
    BY <2>1, <2>2, <2>3, <2>4, SemaphoreKnown, TakersStay
  <2>6. ASSUME Covered(uxSemaphoreCount, Triers, cTxLock, list)
        PROVE  Covered(uxSemaphoreCount', Triers', cTxLock', list)
    <3>1. /\ Cardinality(Triers) \in Nat /\ Cardinality(Triers') \in Nat
          /\ Cardinality(Triers) <= Cardinality(Triers')
          /\ Len(list) \in Nat /\ Len(list) <= Most
      BY <2>5, SemaphoreKnown, TaskSets
    <3> QED BY <2>1, <2>2, <2>6, <3>1 DEF Covered, OwedBy
  <2> QED BY <2>1, <2>3, <2>5, <2>6, WokenIsCovered
<1> QED BY <1>1, <1>2

\* xSemaphoreTakeFromISR
LEMMA TakeFromISRStep ==
  ASSUME SemaphoreInv, P!xQueueReceiveFromISR
  PROVE  SemaphoreInv' /\ (P!TakersWoken => P!TakersWoken')
<1>1. /\ uxSemaphoreCount > 0 /\ uxSemaphoreCount' = uxSemaphoreCount - 1
      /\ UNCHANGED << cTxLock, xTasksWaitingToReceive, suspender, pc, timedOut >>
  BY DEF P!xQueueReceiveFromISR, P!calls
<1>2. TakersType' /\ GiverLock' /\ uxSemaphoreCount' \in 0..uxMaxCount
  BY <1>1, SemaphoreKnown DEF TakersType, GiverLock, P!xQueueReceiveFromISR, P!calls
<1>3. SemaphoreInv' /\ Triers' \in SUBSET Task /\ Triers \subseteq Triers'
  <2>1. uxSemaphoreCount <= cTxLock => uxSemaphoreCount' <= cTxLock'
    BY <1>1, SemaphoreKnown
  <2> QED BY <1>1, <1>2, <2>1, SemaphoreKnown, TakersStay
<1>4. uxSemaphoreCount' <= uxSemaphoreCount /\ uxSemaphoreCount' \in Int
  BY <1>1, SemaphoreKnown
<1> QED BY <1>1, <1>2, <1>3, <1>4, SemaphoreKnown, CoveredByMore, WokenIsCovered

\* The wait of a task ends by time or is aborted.
LEMMA WaitEndsStep ==
  ASSUME SemaphoreInv, NEW t \in Task, P!Expire(t) \/ P!xTaskAbortDelay(t)
  PROVE  SemaphoreInv' /\ (P!TakersWoken => P!TakersWoken')
<1> DEFINE list == xTasksWaitingToReceive
           e == P!Without(list, t)
<1>1. /\ suspender = NoTask /\ xTasksWaitingToReceive' = e
      /\ UNCHANGED << uxSemaphoreCount, cTxLock, suspender, pc, timedOut >>
  BY DEF P!Expire, P!xTaskAbortDelay
<1>2. e \in Seq(Task) /\ IsInjective(e) /\ P!ToSet(e) = P!ToSet(list) \ {t}
      /\ (t \notin P!ToSet(list) => e = list)
  BY SemaphoreKnown, WithoutList
<1>3. TakersType' /\ GiverLock' /\ cTxLock = P!queueUNLOCKED
  BY <1>1, SemaphoreKnown DEF TakersType, GiverLock, P!Expire, P!xTaskAbortDelay
<1> HIDE DEF e
<1>4. SemaphoreInv' /\ Triers' \in SUBSET Task /\ Triers \subseteq Triers'
  <2> HIDE DEF list
  <2> QED BY <1>1, <1>2, <1>3, SemaphoreKnown, TakersStay DEF list
<1>5. ASSUME Covered(uxSemaphoreCount, Triers, P!queueUNLOCKED, list)
      PROVE  Covered(uxSemaphoreCount, Triers', P!queueUNLOCKED, e)
  <2>1. /\ Cardinality(Triers) \in Nat /\ Cardinality(Triers') \in Nat
        /\ Cardinality(Triers) <= Cardinality(Triers')
        /\ Len(list) \in Nat /\ Len(e) \in Nat
    BY <1>2, <1>4, SemaphoreKnown, TaskSets
  <2>2. OwedBy(P!queueUNLOCKED, list) = 0 /\ OwedBy(P!queueUNLOCKED, e) = 0
    BY <2>1 DEF OwedBy, P!queueUNLOCKED
  <2>3. CASE Len(list) = 0
    <3>1. list = << >>
      BY <2>3, SemaphoreKnown
    <3>2. e = list
      BY <1>2, <3>1 DEF P!ToSet
    <3> QED BY <2>2, <2>3, <3>2 DEF Covered
  <2>4. CASE Len(list) # 0
    BY <1>5, <2>1, <2>2, <2>4, SemaphoreKnown DEF Covered
  <2> QED BY <2>3, <2>4
<1> QED BY <1>1, <1>3, <1>4, <1>5, WokenIsCovered

\* Every step keeps the invariant and loses no give.
LEMMA SemaphoreSteps ==
  ASSUME SemaphoreInv, [P!Next]_(P!vars)
  PROVE  SemaphoreInv' /\ (P!TakersWoken => P!TakersWoken')
<1>1. CASE UNCHANGED P!vars
  <2>1. SemaphoreInv' /\ P!TakersWoken' = P!TakersWoken
    BY <1>1 DEF SemaphoreInv, SemaphoreType, GiverLock, AboutToWait, TakerOK, P!Waiting, P!TakersWoken, P!Owed,
                P!WillTry, P!vars, P!calls
  <2> QED BY <2>1
<1>2. CASE P!Next
  BY <1>2, TakerCallStep, TakesStep, FindsNoneStep, TakerLockStep, TakerCheckStep, LooksAgainStep,
     TakerPlaceStep, TakerUnlockStep, TakerRecheckStep, GiveStep, GiveFromISRStep, TakeFromISRStep,
     WaitEndsStep DEF P!Next
<1> QED BY <1>1, <1>2

\* The initial state.
LEMMA SemaphoreStarts ==
  ASSUME SemaphoreAssumption, P!Init
  PROVE  SemaphoreInv /\ P!TakersWoken
<1>1. /\ xTasksWaitingToReceive = << >> /\ cTxLock = P!queueUNLOCKED
      /\ suspender = NoTask /\ suspender \notin Task
      /\ \A t \in Task : pc[t] = "app" /\ timedOut[t] = FALSE /\ ~P!Waiting(t)
  BY DEF P!Init, SemaphoreAssumption, P!Waiting, P!ToSet
<1>2. SemaphoreType
  BY <1>1 DEF P!Init, SemaphoreType, SemaphoreAssumption, SemaphorePlaces, IsInjective, P!queueUNLOCKED
<1>3. GiverLock /\ AboutToWait /\ \A t \in Task : TakerOK(t)
  BY <1>1 DEF GiverLock, AboutToWait, TakerOK
<1>4. P!TakersWoken
  BY <1>1 DEF P!TakersWoken, P!Owed, P!queueUNLOCKED
<1> QED BY <1>2, <1>3, <1>4 DEF SemaphoreInv

-----------------------------------------------------------------------------
(* The queue set, in the same way.                                           *)

Q == INSTANCE QueueSetProofs WITH ListEnd <- NoTask

\* The standard operators in both instances.
LEMMA SetOperators ==
  ASSUME NEW x
  PROVE  /\ S!Cardinality(x) = Q!Cardinality(x) /\ Q!Cardinality(x) = Cardinality(x)
         /\ Q!IsFiniteSet(x) = IsFiniteSet(x) /\ S!ToSet(x) = Q!ToSet(x)
         /\ \A t : S!Without(x, t) = Q!Without(x, t)
         /\ \A n : S!AllBut(n, x) = Q!AllBut(n, x) /\ S!Counted(x, n) = Q!Counted(x, n)
         /\ S!Locked(x) = Q!Locked(x)
<1>1. S!ToSet(x) = Q!ToSet(x)
  BY DEF S!ToSet, Q!ToSet
<1>2. \A t : S!Without(x, t) = Q!Without(x, t)
  BY <1>1 DEF S!Without, Q!Without, S!RemoveAt, Q!RemoveAt
<1>3. /\ S!Cardinality(x) = Q!Cardinality(x) /\ Q!Cardinality(x) = Cardinality(x)
      /\ Q!IsFiniteSet(x) = IsFiniteSet(x)
  BY DEF S!Cardinality, Q!Cardinality, Cardinality, S!IsFiniteSet, Q!IsFiniteSet,
         IsFiniteSet
<1>4. /\ \A n : S!AllBut(n, x) = Q!AllBut(n, x) /\ S!Counted(x, n) = Q!Counted(x, n)
      /\ S!Locked(x) = Q!Locked(x)
  BY DEF S!AllBut, Q!AllBut, S!Counted, Q!Counted, S!Locked, Q!Locked, S!queueUNLOCKED,
         Q!queueUNLOCKED, S!queueLOCKED_UNMODIFIED, Q!queueLOCKED_UNMODIFIED
<1> QED BY <1>1, <1>2, <1>3, <1>4

\* The constants of the queue set are those the theorem asks for.
LEMMA QueueSetConstants == Q!QueueSetAssumption
BY ServicesAssumption, SetOperators DEF ServicesAssumption, Q!QueueSetAssumption

\* What is to be shown.
LEMMA SameAnnounced ==
  /\ S!EachItemAnnounced <=> Q!EachItemAnnounced
  /\ S!SelectorsWoken <=> Q!SelectorsWoken
<1>1. \A q : S!Announced(q) = Q!Announced(q) /\ S!Owed(q) = Q!Owed(q)
  BY SetOperators DEF S!Announced, Q!Announced, S!Owed, Q!Owed
<1>2. \A t : S!Looking(t) <=> Q!Looking(t)
  BY SetOperators DEF S!Looking, Q!Looking, S!Waiting, Q!Waiting
<1>3. {t \in Task : S!Looking(t)} = {t \in Task : Q!Looking(t)}
  BY <1>2
<1>4. S!EachItemAnnounced <=> Q!EachItemAnnounced
  BY <1>1 DEF S!EachItemAnnounced, Q!EachItemAnnounced
<1>5. S!SelectorsWoken <=> Q!SelectorsWoken
  BY <1>3, SetOperators DEF S!SelectorsWoken, Q!SelectorsWoken
<1> QED BY <1>4, <1>5

\* The initial state.
LEMMA SameSetStart == S!Init <=> Q!Init
BY DEF S!Init, Q!Init, S!queueUNLOCKED, Q!queueUNLOCKED

\* The steps.
LEMMA SameSetStep == [S!Next]_(S!vars) <=> [Q!Next]_(Q!vars)
<1>1. \A t : /\ S!Waiting(t) <=> Q!Waiting(t)
             /\ \A place : S!At(t, place) <=> Q!At(t, place)
             /\ \A place : S!Goto(t, place) <=> Q!Goto(t, place)
             /\ S!Return(t) <=> Q!Return(t)
  BY SetOperators DEF S!Waiting, Q!Waiting, S!At, Q!At, S!Runs, Q!Runs, S!Return, Q!Return,
                      S!Goto, Q!Goto
<1>2. /\ S!set = Q!set /\ S!members = Q!members /\ S!callers = Q!callers
      /\ S!queueUNLOCKED = Q!queueUNLOCKED
      /\ \A q : /\ S!IsFull(q) <=> Q!IsFull(q)
                /\ S!Owed(q) = Q!Owed(q)
                /\ S!Announcements(q) = Q!Announcements(q)
                /\ S!MaySend(q) <=> Q!MaySend(q)
                /\ S!MayBeAdded(q) <=> Q!MayBeAdded(q)
  BY DEF S!set, Q!set, S!members, Q!members, S!callers, Q!callers, S!queueUNLOCKED,
         Q!queueUNLOCKED, S!IsFull, Q!IsFull, S!Owed, Q!Owed, S!Announcements,
         Q!Announcements, S!MaySend, Q!MaySend, S!MayBeAdded, Q!MayBeAdded
<1>3. (UNCHANGED S!set <=> UNCHANGED Q!set) /\ (UNCHANGED S!members <=> UNCHANGED Q!members)
      /\ (UNCHANGED S!callers <=> UNCHANGED Q!callers)
  BY DEF S!set, Q!set, S!members, Q!members, S!callers, Q!callers
<1>4. \A q, n : S!Announce(q, n) <=> Q!Announce(q, n)
  <2>1. \A q, n : S!prvNotifyQueueSetContainer(q, n) <=> Q!prvNotifyQueueSetContainer(q, n)
    BY <1>2, SetOperators DEF S!prvNotifyQueueSetContainer, Q!prvNotifyQueueSetContainer
  <2> QED BY <1>3, <2>1 DEF S!Announce, Q!Announce
<1>5. ASSUME NEW t, NEW q
      PROVE  /\ S!Send(t, q) <=> Q!Send(t, q)
             /\ S!Receive(t, q) <=> Q!Receive(t, q)
             /\ S!Select(t) <=> Q!Select(t)
             /\ S!xQueueAddToSet(t, q) <=> Q!xQueueAddToSet(t, q)
             /\ S!RemoveCheck(t, q) <=> Q!RemoveCheck(t, q)
             /\ S!xQueueRemoveFromSet(t) <=> Q!xQueueRemoveFromSet(t)
  BY <1>1, <1>2, <1>3, SetOperators
     DEF S!Send, Q!Send, S!Receive, Q!Receive, S!Select, Q!Select, S!xQueueAddToSet,
         Q!xQueueAddToSet, S!RemoveCheck, Q!RemoveCheck, S!xQueueRemoveFromSet,
         Q!xQueueRemoveFromSet
<1>6. ASSUME NEW t
      PROVE  /\ S!Sent(t) <=> Q!Sent(t)
             /\ S!NotSent(t) <=> Q!NotSent(t)
             /\ S!LockMember(t) <=> Q!LockMember(t)
             /\ S!TestMember(t) <=> Q!TestMember(t)
             /\ S!PlaceOnMember(t) <=> Q!PlaceOnMember(t)
             /\ S!UnlockTx(t) <=> Q!UnlockTx(t)
             /\ S!UnlockRx(t) <=> Q!UnlockRx(t)
  BY <1>1, <1>2, <1>3, <1>4, SetOperators
     DEF S!Sent, Q!Sent, S!NotSent, Q!NotSent, S!LockMember, Q!LockMember, S!TestMember,
         Q!TestMember, S!PlaceOnMember, Q!PlaceOnMember, S!UnlockTx, Q!UnlockTx,
         S!UnlockRx, Q!UnlockRx
<1>7. ASSUME NEW t
      PROVE  /\ S!Selected(t) <=> Q!Selected(t)
             /\ S!NotSelected(t) <=> Q!NotSelected(t)
             /\ S!LockSet(t) <=> Q!LockSet(t)
             /\ S!TestSet(t) <=> Q!TestSet(t)
             /\ S!PlaceOnSet(t) <=> Q!PlaceOnSet(t)
             /\ S!UnlockSet(t) <=> Q!UnlockSet(t)
             /\ S!Expire(t) <=> Q!Expire(t)
  BY <1>1, <1>2, <1>3, SetOperators
     DEF S!Selected, Q!Selected, S!NotSelected, Q!NotSelected, S!LockSet, Q!LockSet,
         S!TestSet, Q!TestSet, S!PlaceOnSet, Q!PlaceOnSet, S!UnlockSet, Q!UnlockSet,
         S!Expire, Q!Expire
<1>8. /\ \A q : S!xQueueGenericSendFromISR(q) <=> Q!xQueueGenericSendFromISR(q)
      /\ S!SelectFromISR <=> Q!SelectFromISR
  BY <1>2, <1>3, <1>4, SetOperators
     DEF S!xQueueGenericSendFromISR, Q!xQueueGenericSendFromISR, S!SelectFromISR,
         Q!SelectFromISR
<1>9. S!Next <=> Q!Next
  BY <1>5, <1>6, <1>7, <1>8 DEF S!Next, Q!Next, S!Continue, Q!Continue, S!CallOf, Q!CallOf
<1> QED BY <1>9 DEF S!vars, Q!vars, S!set, Q!set, S!members, Q!members, S!callers,
                    Q!callers
-----------------------------------------------------------------------------
(* Several cores: the theorem of SMPProofs, whose instances here and those   *)
(* of SMP have the same definitions.  First the build that runs several      *)
(* priorities at a time.                                                     *)

MP == INSTANCE SMPProofs
        WITH Idle <- IdleOf, Affinities <- {Core}, pc <- smpPc,
             SmpCalls <- {"suspend", "delay", "priority", "preemption"},
             configRUN_MULTIPLE_PRIORITIES <- TRUE, ListEnd <- NoTask

\* The tasks and the levels.
LEMMA ManyTasks ==
  /\ M!IdleTasks = MP!IdleTasks
  /\ M!Thread = MP!Thread
  /\ M!Levels = MP!Levels
  /\ M!taskTASK_NOT_RUNNING = MP!taskTASK_NOT_RUNNING
  /\ M!taskTASK_SCHEDULED_TO_YIELD = MP!taskTASK_SCHEDULED_TO_YIELD
BY DEF M!IdleTasks, MP!IdleTasks, M!Thread, MP!Thread, M!Levels, MP!Levels,
       M!taskTASK_NOT_RUNNING, MP!taskTASK_NOT_RUNNING,
       M!taskTASK_SCHEDULED_TO_YIELD, MP!taskTASK_SCHEDULED_TO_YIELD

\* What a core runs.
LEMMA ManyCores ==
  ASSUME NEW k
  PROVE  /\ \A t : M!Running(k, t) <=> MP!Running(k, t)
         /\ \A c : M!CorePriority(k, c) = MP!CorePriority(k, c)
         /\ \A c : M!Preemptible(k, c) <=> MP!Preemptible(k, c)
         /\ \A t : M!PriorityOf(k, t) = MP!PriorityOf(k, t)
BY ManyTasks
   DEF M!Running, MP!Running, M!CorePriority, MP!CorePriority,
       M!Preemptible, MP!Preemptible, M!PriorityOf, MP!PriorityOf

\* prvYieldCore and the choice of the core that yields.
LEMMA ManyYield ==
  ASSUME NEW k, NEW self, NEW cores
  PROVE  /\ M!YieldCores(k, self, cores) = MP!YieldCores(k, self, cores)
         /\ \A c : M!prvYieldCore(k, self, c) = MP!prvYieldCore(k, self, c)
         /\ M!LowestCore(k, cores) = MP!LowestCore(k, cores)
BY ManyTasks, ManyCores
   DEF M!Unasked, MP!Unasked, M!YieldCores, MP!YieldCores,
       M!prvYieldCore, MP!prvYieldCore, M!LowestCore, MP!LowestCore

\* prvYieldForTask
LEMMA ManyYieldForTask ==
  ASSUME NEW k, NEW self, NEW t
  PROVE  M!prvYieldForTask(k, self, t) = MP!prvYieldForTask(k, self, t)
BY ManyTasks, ManyCores, ManyYield
   DEF M!prvYieldForTask, MP!prvYieldForTask

\* The standard operators.
LEMMA ManyLists ==
  /\ \A x : M!ToSet(x) = MP!ToSet(x)
  /\ \A list, t : M!Without(list, t) = MP!Without(list, t)
  /\ \A set : M!Min(set) = MP!Min(set)
  /\ \A set : M!Cardinality(set) = MP!Cardinality(set)
BY DEF M!ToSet, MP!ToSet, M!Without, MP!Without, M!RemoveAt, MP!RemoveAt,
       M!Min, MP!Min, M!Cardinality, MP!Cardinality,
       M!IsFiniteSet, MP!IsFiniteSet

\* The lists of the tasks.
LEMMA ManyMoves ==
  ASSUME NEW k, NEW t
  PROVE  /\ M!RemoveReady(k, t) = MP!RemoveReady(k, t)
         /\ M!prvAddTaskToReadyList(k, t) = MP!prvAddTaskToReadyList(k, t)
         /\ \A list : M!MoveTo(k, t, list) = MP!MoveTo(k, t, list)
BY ManyTasks, ManyLists
   DEF M!RemoveReady, MP!RemoveReady,
       M!prvAddTaskToReadyList, MP!prvAddTaskToReadyList, M!MoveTo, MP!MoveTo

\* Waking one task, and several.
LEMMA ManyUnblock ==
  ASSUME NEW k, NEW self, NEW t
  PROVE  M!Unblock(k, self, t) = MP!Unblock(k, self, t)
BY ManyYieldForTask, ManyMoves
   DEF M!Unblock, MP!Unblock

LEMMA ManyAfterUnblocking ==
  ASSUME NEW k, NEW self, NEW W
  PROVE  M!AfterUnblocking(k, self, W) = MP!AfterUnblocking(k, self, W)
BY ManyUnblock
   DEF M!AfterUnblocking, MP!AfterUnblocking

\* xTaskIncrementTick
LEMMA ManyTicks ==
  ASSUME NEW k, NEW self, NEW W
  PROVE  /\ M!SwitchRequired(k) = MP!SwitchRequired(k)
         /\ M!xTaskIncrementTick(k, self, W) = MP!xTaskIncrementTick(k, self, W)
         /\ M!TickSwitches(k, self, W) <=> MP!TickSwitches(k, self, W)
         /\ M!Replayed(k, self, W) = MP!Replayed(k, self, W)
BY ManyYield, ManyAfterUnblocking
   DEF M!SwitchRequired, MP!SwitchRequired,
       M!xTaskIncrementTick, MP!xTaskIncrementTick,
       M!TickSwitches, MP!TickSwitches, M!Replayed, MP!Replayed

\* The tasks that wait in xPendingReadyList.
LEMMA ManyMoveReadied ==
  ASSUME NEW k
  PROVE  M!MoveReadied(k) = MP!MoveReadied(k)
<1> DEFINE list == k.xPendingReadyList
           Here(after) == [n \in 0..Len(list) |-> IF n = 0 THEN k ELSE
                               M!prvAddTaskToReadyList(M!MoveTo(after[n - 1], list[n], "ready"),
                                                       list[n])]
           There(after) == [n \in 0..Len(list) |-> IF n = 0 THEN k ELSE
                               MP!prvAddTaskToReadyList(MP!MoveTo(after[n - 1], list[n], "ready"),
                                                       list[n])]
<1>1. ASSUME NEW after PROVE Here(after) = There(after)
  BY ManyMoves
<1>2. M!MoveReadied(k) = (CHOOSE after : after = Here(after))[Len(list)]
  BY DEF M!MoveReadied
<1>3. MP!MoveReadied(k) = (CHOOSE after : after = There(after))[Len(list)]
  BY DEF MP!MoveReadied
<1> HIDE DEF Here, There
<1>4. \A after : (after = Here(after)) = (after = There(after))
  BY <1>1
<1>5. (CHOOSE after : after = Here(after)) = (CHOOSE after : after = There(after))
  BY <1>4
<1> QED BY <1>2, <1>3, <1>5

\* The ticks that were pended.
LEMMA ManyReplayTicks ==
  ASSUME NEW k, NEW self, NEW ticks, NEW W
  PROVE  M!ReplayTicks(k, self, ticks, W) = MP!ReplayTicks(k, self, ticks, W)
<1> DEFINE Here(after) == [n \in 0..ticks |-> IF n = 0 THEN k ELSE
                               M!Replayed(after[n - 1], self, IF n = 1 THEN W ELSE << >>)]
           There(after) == [n \in 0..ticks |-> IF n = 0 THEN k ELSE
                               MP!Replayed(after[n - 1], self, IF n = 1 THEN W ELSE << >>)]
<1>1. ASSUME NEW after PROVE Here(after) = There(after)
  BY ManyTicks
<1>2. M!ReplayTicks(k, self, ticks, W) = (CHOOSE after : after = Here(after))[ticks]
  BY DEF M!ReplayTicks
<1>3. MP!ReplayTicks(k, self, ticks, W) = (CHOOSE after : after = There(after))[ticks]
  BY DEF MP!ReplayTicks
<1> HIDE DEF Here, There
<1>4. \A after : (after = Here(after)) = (after = There(after))
  BY <1>1
<1>5. (CHOOSE after : after = Here(after)) = (CHOOSE after : after = There(after))
  BY <1>4
<1> QED BY <1>2, <1>3, <1>5

\* The orders in which tasks wake.
LEMMA ManyWakings ==
  ASSUME NEW k
  PROVE  M!Wakings(k) = MP!Wakings(k)
BY ManyTasks, ManyLists
   DEF M!Wakings, MP!Wakings, M!Delayed, MP!Delayed,
       M!IsInjective, MP!IsInjective

\* prvSelectHighestPriorityTask, part by part.
LEMMA ManyRequeue ==
  ASSUME NEW k, NEW c
  PROVE  /\ M!Requeue(k, c) = MP!Requeue(k, c)
         /\ M!TopLevel(k) = MP!TopLevel(k)
BY ManyTasks, ManyMoves
   DEF M!Requeue, MP!Requeue, M!TopLevel, MP!TopLevel

LEMMA ManyMayRun ==
  ASSUME NEW k, NEW c
  PROVE  \A p, t : M!MayRun(k, c, p, t) <=> MP!MayRun(k, c, p, t)
BY ManyTasks, ManyRequeue
   DEF M!MayRun, MP!MayRun

LEMMA ManyCandidates ==
  ASSUME NEW k, NEW c
  PROVE  M!Candidates(k, c) = MP!Candidates(k, c)
BY ManyTasks, ManyLists, ManyRequeue, ManyMayRun
   DEF M!Candidates, MP!Candidates

LEMMA ManyChosen ==
  ASSUME NEW k, NEW c
  PROVE  M!Chosen(k, c) = MP!Chosen(k, c)
BY ManyCandidates, ManyMayRun, ManyLists
   DEF M!Chosen, MP!Chosen

LEMMA ManyPassOn ==
  ASSUME NEW k, NEW c
  PROVE  /\ \A t : M!Dispatch(k, c, t) = MP!Dispatch(k, c, t)
         /\ \A prev : M!MayTakeOver(k, c, prev) = MP!MayTakeOver(k, c, prev)
         /\ \A prev : M!PassOn(k, c, prev) = MP!PassOn(k, c, prev)
         /\ \A dropped : M!WakeIdleCores(k, c, dropped) = MP!WakeIdleCores(k, c, dropped)
BY ManyTasks, ManyCores, ManyYield
   DEF M!Dispatch, MP!Dispatch, M!MayTakeOver, MP!MayTakeOver,
       M!PassOn, MP!PassOn, M!WakeIdleCores, MP!WakeIdleCores

LEMMA ManySelect ==
  ASSUME NEW k, NEW c
  PROVE  M!prvSelectHighestPriorityTask(k, c) = MP!prvSelectHighestPriorityTask(k, c)
BY ManyRequeue, ManyCandidates, ManyChosen, ManyPassOn
   DEF M!prvSelectHighestPriorityTask, MP!prvSelectHighestPriorityTask

\* When a core may do something.
LEMMA ManyGuards ==
  ASSUME NEW c, NEW f
  PROVE  /\ M!Current(c) = MP!Current(c)
         /\ M!MayProceed(c) <=> MP!MayProceed(c)
         /\ M!Enters(c) <=> MP!Enters(c)
         /\ M!Calls(c, f) <=> MP!Calls(c, f)
         /\ M!SuspendsAll(c) <=> MP!SuspendsAll(c)
BY ManyTasks
   DEF M!Current, MP!Current, M!MayProceed, MP!MayProceed, M!Enters, MP!Enters,
       M!Calls, MP!Calls, M!SuspendsAll, MP!SuspendsAll

\* What ends a critical section or an interrupt.
LEMMA ManyLeaves ==
  ASSUME NEW c, NEW k
  PROVE  /\ M!Exits(c, k) <=> MP!Exits(c, k)
         /\ M!ReturnsFromISR(c, k) <=> MP!ReturnsFromISR(c, k)
         /\ \A t : M!Alive(t) <=> MP!Alive(t)
         /\ \A t : M!prvTaskIsTaskSuspended(t) <=> MP!prvTaskIsTaskSuspended(t)
BY ManyGuards
   DEF M!Exits, MP!Exits, M!ReturnsFromISR, MP!ReturnsFromISR,
       M!Alive, MP!Alive, M!prvTaskIsTaskSuspended, MP!prvTaskIsTaskSuspended,
       M!Current, MP!Current, M!Contains, MP!Contains

\* The steps.
LEMMA ManySuspends ==
  ASSUME NEW c, NEW t
  PROVE  /\ M!vTaskSuspend(c, t) <=> MP!vTaskSuspend(c, t)
         /\ M!vTaskResume(c, t) <=> MP!vTaskResume(c, t)
         /\ M!xTaskResumeFromISR(c, t) <=> MP!xTaskResumeFromISR(c, t)
         /\ M!vTaskDelete(c, t) <=> MP!vTaskDelete(c, t)
BY ManyTasks, ManyCores, ManyYield, ManyYieldForTask, ManyMoves, ManyUnblock, ManyGuards, ManyLeaves
   DEF M!vTaskSuspend, MP!vTaskSuspend, M!vTaskResume, MP!vTaskResume,
       M!xTaskResumeFromISR, MP!xTaskResumeFromISR,
       M!vTaskDelete, MP!vTaskDelete, M!suspension, MP!suspension

LEMMA ManySets ==
  ASSUME NEW c, NEW t
  PROVE  /\ \A p : M!vTaskPrioritySet(c, t, p) <=> MP!vTaskPrioritySet(c, t, p)
         /\ \A mask : M!vTaskCoreAffinitySet(c, t, mask) <=> MP!vTaskCoreAffinitySet(c, t, mask)
         /\ M!vTaskPreemptionDisable(c, t) <=> MP!vTaskPreemptionDisable(c, t)
         /\ M!vTaskPreemptionEnable(c, t) <=> MP!vTaskPreemptionEnable(c, t)
BY ManyTasks, ManyCores, ManyYield, ManyYieldForTask, ManyMoves, ManyGuards, ManyLeaves
   DEF M!vTaskPrioritySet, MP!vTaskPrioritySet,
       M!vTaskCoreAffinitySet, MP!vTaskCoreAffinitySet,
       M!vTaskPreemptionDisable, MP!vTaskPreemptionDisable,
       M!vTaskPreemptionEnable, MP!vTaskPreemptionEnable,
       M!suspension, MP!suspension

LEMMA ManyAddNew ==
  ASSUME NEW c, NEW t, NEW p, NEW mask
  PROVE  M!prvAddNewTaskToReadyList(c, t, p, mask) <=> MP!prvAddNewTaskToReadyList(c, t, p, mask)
BY ManyTasks, ManyUnblock, ManyGuards
   DEF M!prvAddNewTaskToReadyList, MP!prvAddNewTaskToReadyList,
       M!suspension, MP!suspension

LEMMA ManyOfACore ==
  ASSUME NEW c
  PROVE  /\ M!prvCheckTasksWaitingTermination(c) <=> MP!prvCheckTasksWaitingTermination(c)
         /\ M!IdleYields(c) <=> MP!IdleYields(c)
         /\ M!vTaskDelay(c) <=> MP!vTaskDelay(c)
BY ManyTasks, ManyLists, ManyMoves, ManyGuards, ManyLeaves
   DEF M!prvCheckTasksWaitingTermination, MP!prvCheckTasksWaitingTermination,
       M!IdleYields, MP!IdleYields, M!vTaskDelay, MP!vTaskDelay,
       M!suspension, MP!suspension

LEMMA ManyTimeAndSwitch ==
  ASSUME NEW c
  PROVE  /\ M!xTaskResumeAll(c) <=> MP!xTaskResumeAll(c)
         /\ M!Tick(c) <=> MP!Tick(c)
         /\ M!vTaskSwitchContext(c) <=> MP!vTaskSwitchContext(c)
         /\ M!TickPends <=> MP!TickPends
BY ManyTicks, ManyMoveReadied, ManyReplayTicks, ManyWakings, ManySelect, ManyGuards
   DEF M!xTaskResumeAll, MP!xTaskResumeAll, M!Tick, MP!Tick,
       M!vTaskSwitchContext, MP!vTaskSwitchContext, M!TickPends, MP!TickPends,
       M!suspension, MP!suspension

\* Any step.
LEMMA ManyNext ==
  M!Next <=> MP!Next
BY ManySuspends, ManySets, ManyAddNew, ManyOfACore, ManyTimeAndSwitch
   DEF M!Next, MP!Next

\* The initial state.
LEMMA ManyStart ==
  M!Init <=> MP!Init
<1>1. M!SetToSeq(M!IdleTasks) = MP!SetToSeq(MP!IdleTasks)
  BY ManyTasks, ManyLists DEF M!SetToSeq, MP!SetToSeq, M!IsInjective, MP!IsInjective
<1> QED BY <1>1, ManyTasks DEF M!Init, MP!Init

\* What is to be shown.
LEMMA ManySound ==
  M!CoresSound <=> MP!CoresSound
BY ManyTasks, ManyGuards
   DEF M!CoresSound, MP!CoresSound, M!OneCorePerTask, MP!OneCorePerTask,
       M!YieldsDelivered, MP!YieldsDelivered,
       M!FreedNotRunning, MP!FreedNotRunning, M!AffinityKept, MP!AffinityKept,
       M!Settled, MP!Settled, M!Current, MP!Current

\* The constants are those that SMPProofs asks for.
LEMMA ManyConstants == MP!SMPAssumption
<1>1. MP!IdleTasks \subseteq {Idle0, Idle1} /\ IdleOf \in [Core -> MP!IdleTasks]
  BY DEF MP!IdleTasks, IdleOf
<1>2. \A c, d \in Core : IdleOf[c] = IdleOf[d] => c = d
  BY ServicesAssumption DEF ServicesAssumption, IdleOf
<1>3. (\E n \in Nat : Core = 0..n) /\ 0 \in Core
  BY ServicesAssumption DEF ServicesAssumption
<1>4. MP!IsFiniteSet(Worker)
  BY ServicesAssumption DEF ServicesAssumption, MP!IsFiniteSet, IsFiniteSet
<1> QED BY <1>1, <1>2, <1>3, <1>4, ServicesAssumption
        DEF ServicesAssumption, MP!SMPAssumption

\* Before the first step, and after each.
LEMMA ManyStarts ==
  ASSUME M!Init
  PROVE  MP!Inv
BY ManyStart, ManyConstants, MP!InitInv

LEMMA ManySteps ==
  ASSUME MP!Inv, [M!Next]_(M!vars)
  PROVE  MP!Inv'
<1>1. [MP!Next]_(MP!vars)
  BY ManyNext DEF M!vars, MP!vars
<1> QED BY <1>1, ManyConstants, MP!NextKeeps

LEMMA ManyCoresSound == MP!Inv => M!CoresSound
BY ManySound, ManyConstants, MP!InvCoresSound
-----------------------------------------------------------------------------
(* The build that runs one priority at a time, in the same way.              *)

OP == INSTANCE SMPProofs
        WITH Idle <- IdleOf, Affinities <- {{0}, Core}, pc <- smpPc,
             SmpCalls <- {"suspend", "delete", "affinity"},
             configRUN_MULTIPLE_PRIORITIES <- FALSE, ListEnd <- NoTask

\* The tasks and the levels.
LEMMA OneTasks ==
  /\ O!IdleTasks = OP!IdleTasks
  /\ O!Thread = OP!Thread
  /\ O!Levels = OP!Levels
  /\ O!taskTASK_NOT_RUNNING = OP!taskTASK_NOT_RUNNING
  /\ O!taskTASK_SCHEDULED_TO_YIELD = OP!taskTASK_SCHEDULED_TO_YIELD
BY DEF O!IdleTasks, OP!IdleTasks, O!Thread, OP!Thread, O!Levels, OP!Levels,
       O!taskTASK_NOT_RUNNING, OP!taskTASK_NOT_RUNNING,
       O!taskTASK_SCHEDULED_TO_YIELD, OP!taskTASK_SCHEDULED_TO_YIELD

\* What a core runs.
LEMMA OneCores ==
  ASSUME NEW k
  PROVE  /\ \A t : O!Running(k, t) <=> OP!Running(k, t)
         /\ \A c : O!CorePriority(k, c) = OP!CorePriority(k, c)
         /\ \A c : O!Preemptible(k, c) <=> OP!Preemptible(k, c)
         /\ \A t : O!PriorityOf(k, t) = OP!PriorityOf(k, t)
BY OneTasks
   DEF O!Running, OP!Running, O!CorePriority, OP!CorePriority,
       O!Preemptible, OP!Preemptible, O!PriorityOf, OP!PriorityOf

\* prvYieldCore and the choice of the core that yields.
LEMMA OneYield ==
  ASSUME NEW k, NEW self, NEW cores
  PROVE  /\ O!YieldCores(k, self, cores) = OP!YieldCores(k, self, cores)
         /\ \A c : O!prvYieldCore(k, self, c) = OP!prvYieldCore(k, self, c)
         /\ O!LowestCore(k, cores) = OP!LowestCore(k, cores)
BY OneTasks, OneCores
   DEF O!Unasked, OP!Unasked, O!YieldCores, OP!YieldCores,
       O!prvYieldCore, OP!prvYieldCore, O!LowestCore, OP!LowestCore

\* prvYieldForTask
LEMMA OneYieldForTask ==
  ASSUME NEW k, NEW self, NEW t
  PROVE  O!prvYieldForTask(k, self, t) = OP!prvYieldForTask(k, self, t)
BY OneTasks, OneCores, OneYield
   DEF O!prvYieldForTask, OP!prvYieldForTask

\* The standard operators.
LEMMA OneLists ==
  /\ \A x : O!ToSet(x) = OP!ToSet(x)
  /\ \A list, t : O!Without(list, t) = OP!Without(list, t)
  /\ \A set : O!Min(set) = OP!Min(set)
  /\ \A set : O!Cardinality(set) = OP!Cardinality(set)
BY DEF O!ToSet, OP!ToSet, O!Without, OP!Without, O!RemoveAt, OP!RemoveAt,
       O!Min, OP!Min, O!Cardinality, OP!Cardinality,
       O!IsFiniteSet, OP!IsFiniteSet

\* The lists of the tasks.
LEMMA OneMoves ==
  ASSUME NEW k, NEW t
  PROVE  /\ O!RemoveReady(k, t) = OP!RemoveReady(k, t)
         /\ O!prvAddTaskToReadyList(k, t) = OP!prvAddTaskToReadyList(k, t)
         /\ \A list : O!MoveTo(k, t, list) = OP!MoveTo(k, t, list)
BY OneTasks, OneLists
   DEF O!RemoveReady, OP!RemoveReady,
       O!prvAddTaskToReadyList, OP!prvAddTaskToReadyList, O!MoveTo, OP!MoveTo

\* Waking one task, and several.
LEMMA OneUnblock ==
  ASSUME NEW k, NEW self, NEW t
  PROVE  O!Unblock(k, self, t) = OP!Unblock(k, self, t)
BY OneYieldForTask, OneMoves
   DEF O!Unblock, OP!Unblock

LEMMA OneAfterUnblocking ==
  ASSUME NEW k, NEW self, NEW W
  PROVE  O!AfterUnblocking(k, self, W) = OP!AfterUnblocking(k, self, W)
BY OneUnblock
   DEF O!AfterUnblocking, OP!AfterUnblocking

\* xTaskIncrementTick
LEMMA OneTicks ==
  ASSUME NEW k, NEW self, NEW W
  PROVE  /\ O!SwitchRequired(k) = OP!SwitchRequired(k)
         /\ O!xTaskIncrementTick(k, self, W) = OP!xTaskIncrementTick(k, self, W)
         /\ O!TickSwitches(k, self, W) <=> OP!TickSwitches(k, self, W)
         /\ O!Replayed(k, self, W) = OP!Replayed(k, self, W)
BY OneYield, OneAfterUnblocking
   DEF O!SwitchRequired, OP!SwitchRequired,
       O!xTaskIncrementTick, OP!xTaskIncrementTick,
       O!TickSwitches, OP!TickSwitches, O!Replayed, OP!Replayed

\* The tasks that wait in xPendingReadyList.
LEMMA OneMoveReadied ==
  ASSUME NEW k
  PROVE  O!MoveReadied(k) = OP!MoveReadied(k)
<1> DEFINE list == k.xPendingReadyList
           Here(after) == [n \in 0..Len(list) |-> IF n = 0 THEN k ELSE
                               O!prvAddTaskToReadyList(O!MoveTo(after[n - 1], list[n], "ready"),
                                                       list[n])]
           There(after) == [n \in 0..Len(list) |-> IF n = 0 THEN k ELSE
                               OP!prvAddTaskToReadyList(OP!MoveTo(after[n - 1], list[n], "ready"),
                                                       list[n])]
<1>1. ASSUME NEW after PROVE Here(after) = There(after)
  BY OneMoves
<1>2. O!MoveReadied(k) = (CHOOSE after : after = Here(after))[Len(list)]
  BY DEF O!MoveReadied
<1>3. OP!MoveReadied(k) = (CHOOSE after : after = There(after))[Len(list)]
  BY DEF OP!MoveReadied
<1> HIDE DEF Here, There
<1>4. \A after : (after = Here(after)) = (after = There(after))
  BY <1>1
<1>5. (CHOOSE after : after = Here(after)) = (CHOOSE after : after = There(after))
  BY <1>4
<1> QED BY <1>2, <1>3, <1>5

\* The ticks that were pended.
LEMMA OneReplayTicks ==
  ASSUME NEW k, NEW self, NEW ticks, NEW W
  PROVE  O!ReplayTicks(k, self, ticks, W) = OP!ReplayTicks(k, self, ticks, W)
<1> DEFINE Here(after) == [n \in 0..ticks |-> IF n = 0 THEN k ELSE
                               O!Replayed(after[n - 1], self, IF n = 1 THEN W ELSE << >>)]
           There(after) == [n \in 0..ticks |-> IF n = 0 THEN k ELSE
                               OP!Replayed(after[n - 1], self, IF n = 1 THEN W ELSE << >>)]
<1>1. ASSUME NEW after PROVE Here(after) = There(after)
  BY OneTicks
<1>2. O!ReplayTicks(k, self, ticks, W) = (CHOOSE after : after = Here(after))[ticks]
  BY DEF O!ReplayTicks
<1>3. OP!ReplayTicks(k, self, ticks, W) = (CHOOSE after : after = There(after))[ticks]
  BY DEF OP!ReplayTicks
<1> HIDE DEF Here, There
<1>4. \A after : (after = Here(after)) = (after = There(after))
  BY <1>1
<1>5. (CHOOSE after : after = Here(after)) = (CHOOSE after : after = There(after))
  BY <1>4
<1> QED BY <1>2, <1>3, <1>5

\* The orders in which tasks wake.
LEMMA OneWakings ==
  ASSUME NEW k
  PROVE  O!Wakings(k) = OP!Wakings(k)
BY OneTasks, OneLists
   DEF O!Wakings, OP!Wakings, O!Delayed, OP!Delayed,
       O!IsInjective, OP!IsInjective

\* prvSelectHighestPriorityTask, part by part.
LEMMA OneRequeue ==
  ASSUME NEW k, NEW c
  PROVE  /\ O!Requeue(k, c) = OP!Requeue(k, c)
         /\ O!TopLevel(k) = OP!TopLevel(k)
BY OneTasks, OneMoves
   DEF O!Requeue, OP!Requeue, O!TopLevel, OP!TopLevel

LEMMA OneMayRun ==
  ASSUME NEW k, NEW c
  PROVE  \A p, t : O!MayRun(k, c, p, t) <=> OP!MayRun(k, c, p, t)
BY OneTasks, OneRequeue
   DEF O!MayRun, OP!MayRun

LEMMA OneCandidates ==
  ASSUME NEW k, NEW c
  PROVE  O!Candidates(k, c) = OP!Candidates(k, c)
BY OneTasks, OneLists, OneRequeue, OneMayRun
   DEF O!Candidates, OP!Candidates

LEMMA OneChosen ==
  ASSUME NEW k, NEW c
  PROVE  O!Chosen(k, c) = OP!Chosen(k, c)
BY OneCandidates, OneMayRun, OneLists
   DEF O!Chosen, OP!Chosen

LEMMA OnePassOn ==
  ASSUME NEW k, NEW c
  PROVE  /\ \A t : O!Dispatch(k, c, t) = OP!Dispatch(k, c, t)
         /\ \A prev : O!MayTakeOver(k, c, prev) = OP!MayTakeOver(k, c, prev)
         /\ \A prev : O!PassOn(k, c, prev) = OP!PassOn(k, c, prev)
         /\ \A dropped : O!WakeIdleCores(k, c, dropped) = OP!WakeIdleCores(k, c, dropped)
BY OneTasks, OneCores, OneYield
   DEF O!Dispatch, OP!Dispatch, O!MayTakeOver, OP!MayTakeOver,
       O!PassOn, OP!PassOn, O!WakeIdleCores, OP!WakeIdleCores

LEMMA OneSelect ==
  ASSUME NEW k, NEW c
  PROVE  O!prvSelectHighestPriorityTask(k, c) = OP!prvSelectHighestPriorityTask(k, c)
BY OneRequeue, OneCandidates, OneChosen, OnePassOn
   DEF O!prvSelectHighestPriorityTask, OP!prvSelectHighestPriorityTask

\* When a core may do something.
LEMMA OneGuards ==
  ASSUME NEW c, NEW f
  PROVE  /\ O!Current(c) = OP!Current(c)
         /\ O!MayProceed(c) <=> OP!MayProceed(c)
         /\ O!Enters(c) <=> OP!Enters(c)
         /\ O!Calls(c, f) <=> OP!Calls(c, f)
         /\ O!SuspendsAll(c) <=> OP!SuspendsAll(c)
BY OneTasks
   DEF O!Current, OP!Current, O!MayProceed, OP!MayProceed, O!Enters, OP!Enters,
       O!Calls, OP!Calls, O!SuspendsAll, OP!SuspendsAll

\* What ends a critical section or an interrupt.
LEMMA OneLeaves ==
  ASSUME NEW c, NEW k
  PROVE  /\ O!Exits(c, k) <=> OP!Exits(c, k)
         /\ O!ReturnsFromISR(c, k) <=> OP!ReturnsFromISR(c, k)
         /\ \A t : O!Alive(t) <=> OP!Alive(t)
         /\ \A t : O!prvTaskIsTaskSuspended(t) <=> OP!prvTaskIsTaskSuspended(t)
BY OneGuards
   DEF O!Exits, OP!Exits, O!ReturnsFromISR, OP!ReturnsFromISR,
       O!Alive, OP!Alive, O!prvTaskIsTaskSuspended, OP!prvTaskIsTaskSuspended,
       O!Current, OP!Current, O!Contains, OP!Contains

\* The steps.
LEMMA OneSuspends ==
  ASSUME NEW c, NEW t
  PROVE  /\ O!vTaskSuspend(c, t) <=> OP!vTaskSuspend(c, t)
         /\ O!vTaskResume(c, t) <=> OP!vTaskResume(c, t)
         /\ O!xTaskResumeFromISR(c, t) <=> OP!xTaskResumeFromISR(c, t)
         /\ O!vTaskDelete(c, t) <=> OP!vTaskDelete(c, t)
BY OneTasks, OneCores, OneYield, OneYieldForTask, OneMoves, OneUnblock, OneGuards, OneLeaves
   DEF O!vTaskSuspend, OP!vTaskSuspend, O!vTaskResume, OP!vTaskResume,
       O!xTaskResumeFromISR, OP!xTaskResumeFromISR,
       O!vTaskDelete, OP!vTaskDelete, O!suspension, OP!suspension

LEMMA OneSets ==
  ASSUME NEW c, NEW t
  PROVE  /\ \A p : O!vTaskPrioritySet(c, t, p) <=> OP!vTaskPrioritySet(c, t, p)
         /\ \A mask : O!vTaskCoreAffinitySet(c, t, mask) <=> OP!vTaskCoreAffinitySet(c, t, mask)
         /\ O!vTaskPreemptionDisable(c, t) <=> OP!vTaskPreemptionDisable(c, t)
         /\ O!vTaskPreemptionEnable(c, t) <=> OP!vTaskPreemptionEnable(c, t)
BY OneTasks, OneCores, OneYield, OneYieldForTask, OneMoves, OneGuards, OneLeaves
   DEF O!vTaskPrioritySet, OP!vTaskPrioritySet,
       O!vTaskCoreAffinitySet, OP!vTaskCoreAffinitySet,
       O!vTaskPreemptionDisable, OP!vTaskPreemptionDisable,
       O!vTaskPreemptionEnable, OP!vTaskPreemptionEnable,
       O!suspension, OP!suspension

LEMMA OneAddNew ==
  ASSUME NEW c, NEW t, NEW p, NEW mask
  PROVE  O!prvAddNewTaskToReadyList(c, t, p, mask) <=> OP!prvAddNewTaskToReadyList(c, t, p, mask)
BY OneTasks, OneUnblock, OneGuards
   DEF O!prvAddNewTaskToReadyList, OP!prvAddNewTaskToReadyList,
       O!suspension, OP!suspension

LEMMA OneOfACore ==
  ASSUME NEW c
  PROVE  /\ O!prvCheckTasksWaitingTermination(c) <=> OP!prvCheckTasksWaitingTermination(c)
         /\ O!IdleYields(c) <=> OP!IdleYields(c)
         /\ O!vTaskDelay(c) <=> OP!vTaskDelay(c)
BY OneTasks, OneLists, OneMoves, OneGuards, OneLeaves
   DEF O!prvCheckTasksWaitingTermination, OP!prvCheckTasksWaitingTermination,
       O!IdleYields, OP!IdleYields, O!vTaskDelay, OP!vTaskDelay,
       O!suspension, OP!suspension

LEMMA OneTimeAndSwitch ==
  ASSUME NEW c
  PROVE  /\ O!xTaskResumeAll(c) <=> OP!xTaskResumeAll(c)
         /\ O!Tick(c) <=> OP!Tick(c)
         /\ O!vTaskSwitchContext(c) <=> OP!vTaskSwitchContext(c)
         /\ O!TickPends <=> OP!TickPends
BY OneTicks, OneMoveReadied, OneReplayTicks, OneWakings, OneSelect, OneGuards
   DEF O!xTaskResumeAll, OP!xTaskResumeAll, O!Tick, OP!Tick,
       O!vTaskSwitchContext, OP!vTaskSwitchContext, O!TickPends, OP!TickPends,
       O!suspension, OP!suspension

\* Any step.
LEMMA OneNext ==
  O!Next <=> OP!Next
BY OneSuspends, OneSets, OneAddNew, OneOfACore, OneTimeAndSwitch
   DEF O!Next, OP!Next

\* The initial state.
LEMMA OneStart ==
  O!Init <=> OP!Init
<1>1. O!SetToSeq(O!IdleTasks) = OP!SetToSeq(OP!IdleTasks)
  BY OneTasks, OneLists DEF O!SetToSeq, OP!SetToSeq, O!IsInjective, OP!IsInjective
<1> QED BY <1>1, OneTasks DEF O!Init, OP!Init

\* What is to be shown.
LEMMA OneSound ==
  O!CoresSound <=> OP!CoresSound
BY OneTasks, OneGuards
   DEF O!CoresSound, OP!CoresSound, O!OneCorePerTask, OP!OneCorePerTask,
       O!YieldsDelivered, OP!YieldsDelivered,
       O!FreedNotRunning, OP!FreedNotRunning, O!AffinityKept, OP!AffinityKept,
       O!Settled, OP!Settled, O!Current, OP!Current

\* The constants are those that SMPProofs asks for.
LEMMA OneConstants == OP!SMPAssumption
<1>1. OP!IdleTasks \subseteq {Idle0, Idle1} /\ IdleOf \in [Core -> OP!IdleTasks]
  BY DEF OP!IdleTasks, IdleOf
<1>2. \A c, d \in Core : IdleOf[c] = IdleOf[d] => c = d
  BY ServicesAssumption DEF ServicesAssumption, IdleOf
<1>3. (\E n \in Nat : Core = 0..n) /\ 0 \in Core
  BY ServicesAssumption DEF ServicesAssumption
<1>4. OP!IsFiniteSet(Worker)
  BY ServicesAssumption DEF ServicesAssumption, OP!IsFiniteSet, IsFiniteSet
<1> QED BY <1>1, <1>2, <1>3, <1>4, ServicesAssumption
        DEF ServicesAssumption, OP!SMPAssumption

\* Before the first step, and after each.
LEMMA OneStarts ==
  ASSUME O!Init
  PROVE  OP!Inv
BY OneStart, OneConstants, OP!InitInv

LEMMA OneSteps ==
  ASSUME OP!Inv, [O!Next]_(O!vars)
  PROVE  OP!Inv'
<1>1. [OP!Next]_(OP!vars)
  BY OneNext DEF O!vars, OP!vars
<1> QED BY <1>1, OneConstants, OP!NextKeeps

LEMMA OneCoresSound == OP!Inv => O!CoresSound
BY OneSound, OneConstants, OP!InvCoresSound
-----------------------------------------------------------------------------
(* The parts together.                                                       *)

\* Everything a behaviour is about.
servicesVars == << part, vars, shared, ofNotify, ofQueueSet, ofSemaphore, ofSMP >>

ServicesInv ==
  /\ part = "Notify" => NotifyInv
  /\ part = "Semaphore" => SemaphoreInv /\ P!TakersWoken
  /\ part = "QueueSet" /\ Q!WellUsed =>
       Q!Inv /\ S!EachItemAnnounced /\ S!SelectorsWoken
  /\ part = "SMP" => MP!Inv
  /\ part = "SMP, one priority" => OP!Inv

\* The initial state of whichever part.
LEMMA ServicesStarts == ServicesInit => ServicesInv
<1>1. ASSUME ServicesInit, part = "Notify" PROVE NotifyInv
  BY <1>1, NotifyStarts DEF ServicesInit
<1>2. ASSUME ServicesInit, part = "Semaphore" PROVE SemaphoreInv /\ P!TakersWoken
  BY <1>2, SemaphoreStarts, SemaphoreConstants DEF ServicesInit
<1>3. ASSUME ServicesInit, part = "QueueSet", Q!WellUsed
      PROVE  Q!Inv /\ S!EachItemAnnounced /\ S!SelectorsWoken
  <2>1. Q!Init
    BY <1>3, SameSetStart DEF ServicesInit
  <2>2. Q!Inv
    BY <1>3, <2>1, Q!Starts, QueueSetConstants
  <2> QED BY <2>2, SameAnnounced DEF Q!Inv
<1>4. ServicesInit /\ part = "SMP" => MP!Inv
  BY ManyStarts DEF ServicesInit
<1>5. ServicesInit /\ part = "SMP, one priority" => OP!Inv
  BY OneStarts DEF ServicesInit
<1> QED BY <1>1, <1>2, <1>3, <1>4, <1>5 DEF ServicesInv

\* A step is a step of one part.
LEMMA ServicesSteps == ServicesInv /\ [ServicesNext]_servicesVars => ServicesInv'
<1> SUFFICES ASSUME ServicesInv, [ServicesNext]_servicesVars PROVE ServicesInv'
  OBVIOUS
<1>1. part' = part
  BY DEF ServicesNext, servicesVars
<1>2. ASSUME part = "Notify" PROVE NotifyInv'
  <2>1. [N!Next]_(N!vars)
    BY <1>2 DEF ServicesNext, servicesVars, shared, ofNotify, N!vars, N!lists, N!slots, N!calls
  <2> QED BY <1>2, <2>1, NotifySteps DEF ServicesInv
<1>3. ASSUME part = "Semaphore" PROVE SemaphoreInv' /\ P!TakersWoken'
  <2>1. [P!Next]_(P!vars)
    BY <1>3 DEF ServicesNext, servicesVars, shared, ofSemaphore, P!vars, P!calls
  <2> QED BY <1>3, <2>1, SemaphoreSteps DEF ServicesInv
<1>4. ASSUME part = "QueueSet", Q!WellUsed'
      PROVE  Q!Inv' /\ S!EachItemAnnounced' /\ S!SelectorsWoken'
  <2>1. [S!Next]_(S!vars)
    BY <1>4 DEF ServicesNext, servicesVars, shared, ofQueueSet, S!vars, S!set, S!members,
                S!callers
  <2>2. Q!WellUsed
    BY <1>4 DEF Q!WellUsed, Q!Slots
  <2>3. Q!Inv'
    BY <1>4, <2>1, <2>2, Q!Steps, SameSetStep DEF ServicesInv
  <2>4. Q!EachItemAnnounced' /\ Q!SelectorsWoken'
    BY <2>3 DEF Q!Inv
  <2>5. /\ S!EachItemAnnounced' <=> Q!EachItemAnnounced'
        /\ S!SelectorsWoken' <=> Q!SelectorsWoken'
    BY SameAnnounced, PTL
  <2> QED BY <2>3, <2>4, <2>5
<1>5. ASSUME part = "SMP" PROVE MP!Inv'
  <2>1. [M!Next]_(M!vars)
    BY <1>5 DEF ServicesNext, servicesVars, ofSMP, M!vars
  <2> QED BY <1>5, <2>1, ManySteps DEF ServicesInv
<1>6. ASSUME part = "SMP, one priority" PROVE OP!Inv'
  <2>1. [O!Next]_(O!vars)
    BY <1>6 DEF ServicesNext, servicesVars, ofSMP, O!vars
  <2> QED BY <1>6, <2>1, OneSteps DEF ServicesInv
<1> QED BY <1>1, <1>2, <1>3, <1>4, <1>5, <1>6 DEF ServicesInv

\* No notification of a blocked task is lost, though an interrupt may notify
\* between the test of ulTaskGenericNotifyTake or xTaskGenericNotifyWait and the
\* block, and though other tasks abort, suspend and resume it; and vTaskResume
\* tells a suspended task from one that waits without an end.
THEOREM ServicesNotifySound == ServicesSpec => []NotifySound
<1>1. ServicesInv => NotifySound
  BY NotifyInvSound DEF ServicesInv, NotifySound
<1> QED BY <1>1, ServicesStarts, ServicesSteps, PTL DEF ServicesSpec, servicesVars

\* No give of a semaphore is lost: what SemaphoreTakersWoken says, of the
\* semaphore that is a part of MCServices.
THEOREM ServicesTakersWoken == ServicesSpec => []TakersWoken
<1>1. ServicesInv => TakersWoken
  BY DEF ServicesInv, TakersWoken
<1> QED BY <1>1, ServicesStarts, ServicesSteps, PTL DEF ServicesSpec, servicesVars

\* Each item of a member of the queue set is announced once, and who waits for
\* the handle of a member is woken for it: what SetItemsAnnounced says, of the
\* queue set that is a part of MCServices.
THEOREM ServicesItemsAnnounced ==
  ASSUME Q!WellUsed
  PROVE  ServicesSpec => []ItemsAnnounced
<1>1. ServicesInv => ItemsAnnounced
  BY DEF ServicesInv, ItemsAnnounced
<1> QED BY <1>1, ServicesStarts, ServicesSteps, PTL DEF ServicesSpec, servicesVars

\* A task runs on one core at most, a core that was asked to yield does, no task
\* is freed while a core runs it, and a settled core runs a task that may run on
\* it, in both builds of the scheduler for several cores: what CoresAreSound says,
\* of the two that are parts of MCServices.
THEOREM ServicesCoresSound == ServicesSpec => []CoresSound
<1>1. ServicesInv => CoresSound
  BY ManyCoresSound, OneCoresSound DEF ServicesInv, CoresSound
<1> QED BY <1>1, ServicesStarts, ServicesSteps, PTL DEF ServicesSpec, servicesVars
=============================================================================
