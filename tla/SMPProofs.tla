------------------------------ MODULE SMPProofs ------------------------------
(***************************************************************************)
(* Proofs about the scheduler for several cores, for any number of cores,  *)
(* tasks and priorities and in both builds.                                *)
(***************************************************************************)
EXTENDS SMP, ListRingProofs

\* What the kernel knows of the constants: the cores are numbered, each has an
\* idle task of its own, at the lowest priority, and the others are workers.
SMPAssumption ==
  /\ \E n \in Nat : Core = 0..n
  /\ NoCore \notin Core
  /\ Idle \in [Core -> IdleTasks] /\ \A c, d \in Core : Idle[c] = Idle[d] => c = d
  /\ IsFiniteSet(Worker) /\ Worker \cap IdleTasks = {}
  /\ Priorities \subseteq Nat
  /\ Affinities \subseteq SUBSET Core
  /\ configRUN_MULTIPLE_PRIORITIES \in BOOLEAN
  /\ MaxPendedTicks \in Nat

StateLists == {"none", "ready", "delayed", "suspended", "termination"}
RunStates == Core \cup {taskTASK_NOT_RUNNING, taskTASK_SCHEDULED_TO_YIELD}

Kernels ==
  [pxReadyTasksLists : [Levels -> Seq(Thread)],
   uxTopReadyPriority : Levels,
   pxCurrentTCBs : [Core -> Thread],
   xTaskRunState : [Thread -> RunStates],
   xYieldPendings : [Core -> BOOLEAN],
   irq : [Core -> BOOLEAN],
   uxPriority : [Thread -> Levels],
   uxCoreAffinityMask : [Thread -> SUBSET Core],
   xPreemptionDisable : [Thread -> BOOLEAN],
   xStateList : [Thread -> StateLists],
   xPendingReadyList : Seq(Worker),
   xTasksWaitingTermination : Seq(Worker)]

\* The lists hold tasks that are in the state that the lists say, each once;
\* the idle tasks are ready for ever, at the lowest priority, on any core.
ListsKept(k) ==
  /\ \A p \in Levels :
       /\ IsInjective(k.pxReadyTasksLists[p])
       /\ \A t \in ToSet(k.pxReadyTasksLists[p]) : k.xStateList[t] = "ready"
  /\ \A t \in IdleTasks :
       /\ t \in ToSet(k.pxReadyTasksLists[0])
       /\ k.uxPriority[t] = 0 /\ k.uxCoreAffinityMask[t] = Core
  /\ IsInjective(k.xPendingReadyList)
  /\ \A t \in ToSet(k.xPendingReadyList) : k.xStateList[t] = "suspended"
  /\ IsInjective(k.xTasksWaitingTermination)
  /\ \A t \in ToSet(k.xTasksWaitingTermination) : k.xStateList[t] = "termination"

\* The run states of the tasks and the tasks of the cores name each other.
RunsKept(k) ==
  /\ \A c \in Core : k.xTaskRunState[k.pxCurrentTCBs[c]] \in {c, taskTASK_SCHEDULED_TO_YIELD}
  /\ \A c, d \in Core : k.pxCurrentTCBs[c] = k.pxCurrentTCBs[d] => c = d
  /\ \A t \in Thread :
       \/ k.xTaskRunState[t] = taskTASK_NOT_RUNNING
       \/ k.xStateList[t] # "none" /\ \E c \in Core : k.pxCurrentTCBs[c] = t

\* A kernel whose lists and run states are sound.
Sound(k) == k \in Kernels /\ ListsKept(k) /\ RunsKept(k)

\* What a critical section of core self makes of the kernel: no core runs another
\* task, a core that is asked to yield gets the interrupt, no request is taken
\* back, and a core whose task may no longer run there, or is deleted, is asked.
Keeps(self, k, l) ==
  /\ Sound(l)
  /\ l.pxCurrentTCBs = k.pxCurrentTCBs
  /\ \A t \in Thread :
       \/ l.xTaskRunState[t] = k.xTaskRunState[t]
       \/ /\ l.xTaskRunState[t] = taskTASK_SCHEDULED_TO_YIELD
          /\ \E c \in Core \ {self} : k.pxCurrentTCBs[c] = t /\ l.irq[c]
  /\ \A c \in Core :
       /\ k.irq[c] => l.irq[c]
       /\ k.xYieldPendings[c] => l.xYieldPendings[c]
       /\ \/ c \in l.uxCoreAffinityMask[k.pxCurrentTCBs[c]]
          \/ l.irq[c] \/ l.xYieldPendings[c]
          \/ c \notin k.uxCoreAffinityMask[k.pxCurrentTCBs[c]]
          \/ k.xTaskRunState[k.pxCurrentTCBs[c]] = taskTASK_SCHEDULED_TO_YIELD
       /\ l.xStateList[k.pxCurrentTCBs[c]] = "termination" =>
            \/ k.xStateList[k.pxCurrentTCBs[c]] = "termination"
            \/ l.xTaskRunState[k.pxCurrentTCBs[c]] = taskTASK_SCHEDULED_TO_YIELD
            \/ c = self /\ l.xYieldPendings[c]

\* What core c has yet to do if it was asked to yield, if its task may not run
\* there or is deleted, or if it suspended the scheduler.
CoreKept(c) ==
  /\ kernel.xTaskRunState[Current(c)] = taskTASK_SCHEDULED_TO_YIELD =>
       \/ kernel.irq[c] \/ pc[Current(c)] = "yield"
       \/ uxSchedulerSuspended = c /\ kernel.xYieldPendings[c]
  /\ \/ c \in kernel.uxCoreAffinityMask[Current(c)]
     \/ kernel.irq[c] \/ kernel.xYieldPendings[c] \/ pc[Current(c)] = "yield"
  /\ kernel.xStateList[Current(c)] = "termination" =>
       \/ kernel.xTaskRunState[Current(c)] = taskTASK_SCHEDULED_TO_YIELD
       \/ pc[Current(c)] = "yield"
  /\ uxSchedulerSuspended = c => pc[Current(c)] = "resume"

\* The inductive invariant.
Inv ==
  /\ Sound(kernel)
  /\ uxSchedulerSuspended \in Core \cup {NoCore}
  /\ xPendedTicks \in 0..MaxPendedTicks
  /\ pc \in [Thread -> {"app", "yield", "resume"}]
  /\ \A c \in Core : CoreKept(c)
-----------------------------------------------------------------------------
(* The lists.                                                                *)

\* uxListRemove
LEMMA WithoutList ==
  ASSUME NEW S, NEW list \in Seq(S), IsInjective(list), NEW t
  PROVE  /\ Without(list, t) \in Seq(S) /\ IsInjective(Without(list, t))
         /\ ToSet(Without(list, t)) = ToSet(list) \ {t}
<1>1. CASE t \in ToSet(list)
  <2>1. Without(list, t) = uxListRemove(list, t)
    BY <1>1 DEF Without, uxListRemove
  <2> QED BY <1>1, <2>1, RemoveElement
<1>2. CASE t \notin ToSet(list)
  BY <1>2 DEF Without
<1> QED BY <1>1, <1>2

\* vListInsertEnd
LEMMA AppendList ==
  ASSUME NEW S, NEW list \in Seq(S), IsInjective(list), NEW t \in S, t \notin ToSet(list)
  PROVE  /\ Append(list, t) \in Seq(S) /\ IsInjective(Append(list, t))
         /\ ToSet(Append(list, t)) = ToSet(list) \cup {t}
<1> DEFINE e == Append(list, t)
<1>1. /\ e \in Seq(S) /\ Len(e) = Len(list) + 1 /\ Len(list) \in Nat
      /\ \A i \in 1..Len(e) : e[i] = IF i = Len(list) + 1 THEN t ELSE list[i]
      /\ DOMAIN e = 1..Len(e) /\ DOMAIN list = 1..Len(list)
  OBVIOUS
<1> HIDE DEF e
<1>2. \A i \in 1..Len(list) : list[i] # t /\ i \in 1..Len(e) /\ i # Len(list) + 1
  BY <1>1 DEF ToSet
<1>3. \A i \in 1..Len(e) : i = Len(list) + 1 \/ i \in 1..Len(list)
  BY <1>1
<1>4. IsInjective(e)
  BY <1>1, <1>2, <1>3 DEF IsInjective
<1>5. Len(e) \in 1..Len(e) /\ e[Len(e)] = t
  BY <1>1
<1>6. ToSet(e) = ToSet(list) \cup {t}
  BY <1>1, <1>2, <1>3, <1>5 DEF ToSet
<1> QED BY <1>1, <1>4, <1>6 DEF e

\* g is what the steps make of start, one after the other.
Computes(g, step, start, last) ==
  g = [n \in 0..last |-> IF n = 0 THEN start ELSE step[n][g[n - 1]]]

\* What is computed step by step is defined, and stays in S.
LEMMA Iteration ==
  ASSUME NEW S, NEW last \in Nat, NEW step \in [1..last -> [S -> S]], NEW start \in S
  PROVE  \E g \in [0..last -> S] : Computes(g, step, start, last)
<1> DEFINE Upto(m) ==
       \E g \in [0..m -> S] :
         \A n \in 0..m : g[n] = IF n = 0 THEN start ELSE step[n][g[n - 1]]
           Bad == {m \in 0..last : ~Upto(m)}
<1>1. Bad = {}
  <2>1. SUFFICES ASSUME Bad # {} PROVE FALSE
    OBVIOUS
  <2>2. Bad \subseteq Nat
    OBVIOUS
  <2>3. PICK m \in Bad : \A i \in Bad : m <= i
    <3> HIDE DEF Bad
    <3> QED BY <2>1, <2>2, MinIsLeast
  <2>4. m # 0
    <3> DEFINE g == [n \in 0..0 |-> start]
    <3>1. g \in [0..0 -> S] /\ \A n \in 0..0 : n = 0 /\ g[n] = start
      OBVIOUS
    <3> HIDE DEF g
    <3>2. Upto(0)
      BY <3>1
    <3> QED BY <3>2
  <2>5. m - 1 \in 0..last /\ m \in 1..last /\ Upto(m - 1)
    <3>1. m \in 0..last /\ m - 1 \in 0..last /\ m \in 1..last /\ ~(m <= m - 1)
      BY <2>3, <2>4
    <3>2. m - 1 \notin Bad
      <4> HIDE DEF Bad
      <4> QED BY <2>3, <3>1
    <3> HIDE DEF Upto
    <3> QED BY <3>1, <3>2
  <2>6. PICK g \in [0..(m - 1) -> S] :
          \A n \in 0..(m - 1) : g[n] = IF n = 0 THEN start ELSE step[n][g[n - 1]]
    BY <2>5
  <2> DEFINE h == [n \in 0..m |-> IF n = m THEN step[m][g[m - 1]] ELSE g[n]]
  <2>7. /\ g[m - 1] \in S /\ step[m][g[m - 1]] \in S
        /\ \A n \in 0..(m - 1) : n \in 0..m /\ n # m
        /\ \A n \in 0..m : n # m => n \in 0..(m - 1)
        /\ \A n \in 0..m : n # 0 => n - 1 \in 0..(m - 1)
    BY <2>5, <2>6
  <2>8. h \in [0..m -> S]
    BY <2>6, <2>7
  <2>9. \A n \in 0..m : h[n] = IF n = 0 THEN start ELSE step[n][h[n - 1]]
    <3> TAKE n \in 0..m
    <3>1. \A i \in 0..(m - 1) : h[i] = g[i]
      BY <2>7
    <3>2. CASE n = m
      BY <2>4, <2>7, <3>1, <3>2
    <3>3. CASE n # m
      <4>1. g[n] = IF n = 0 THEN start ELSE step[n][g[n - 1]]
        BY <2>6, <2>7, <3>3
      <4> HIDE DEF h
      <4> QED BY <2>7, <3>1, <3>3, <4>1
    <3> QED BY <3>2, <3>3
  <2> HIDE DEF h
  <2>10. Upto(m)
    BY <2>8, <2>9
  <2> HIDE DEF Upto
  <2> QED BY <2>3, <2>10
<1>2. Upto(last)
  <2> HIDE DEF Upto
  <2> QED BY <1>1
<1>3. PICK g \in [0..last -> S] :
        \A n \in 0..last : g[n] = IF n = 0 THEN start ELSE step[n][g[n - 1]]
  BY <1>2
<1>4. g = [n \in 0..last |-> g[n]]
  OBVIOUS
<1> QED BY <1>3, <1>4 DEF Computes
-----------------------------------------------------------------------------
(* Requests to yield.                                                        *)

\* The cores, and what distinguishes a core from the other run states.
LEMMA Numbers ==
  ASSUME SMPAssumption
  PROVE  /\ Core \subseteq Nat /\ IsFiniteSet(Core) /\ Core # {}
         /\ taskTASK_NOT_RUNNING \notin Core /\ taskTASK_SCHEDULED_TO_YIELD \notin Core
         /\ taskTASK_NOT_RUNNING # taskTASK_SCHEDULED_TO_YIELD
         /\ Levels \subseteq Nat /\ 0 \in Levels
         /\ Worker \subseteq Thread /\ IdleTasks \subseteq Thread
         /\ \A c \in Core : Idle[c] \in IdleTasks
<1>1. PICK n \in Nat : Core = 0..n
  BY DEF SMPAssumption
<1>2. IsFiniteSet(Core)
  BY <1>1, FS_Interval
<1>3. Core \subseteq Nat /\ Core # {}
  BY <1>1
<1> QED BY <1>2, <1>3 DEF SMPAssumption, taskTASK_NOT_RUNNING,
                         taskTASK_SCHEDULED_TO_YIELD, Levels, Thread, IdleTasks

\* A critical section that does nothing keeps everything.
LEMMA KeepsItself ==
  ASSUME NEW self, NEW k, Sound(k)
  PROVE  Keeps(self, k, k)
BY DEF Keeps

\* One piece of a critical section after another.
LEMMA KeepsOn ==
  ASSUME NEW self, NEW k, NEW l, NEW m, Sound(k),
         Keeps(self, k, l), Keeps(self, l, m)
  PROVE  Keeps(self, k, m)
<1>1. /\ l.pxCurrentTCBs = k.pxCurrentTCBs /\ m.pxCurrentTCBs = k.pxCurrentTCBs
      /\ \A c \in Core : k.pxCurrentTCBs[c] \in Thread
      /\ \A c, d \in Core : k.pxCurrentTCBs[c] = k.pxCurrentTCBs[d] => c = d
  BY DEF Keeps, Sound, Kernels, RunsKept
<1>2. ASSUME NEW t \in Thread
      PROVE  \/ m.xTaskRunState[t] = k.xTaskRunState[t]
             \/ /\ m.xTaskRunState[t] = taskTASK_SCHEDULED_TO_YIELD
                /\ \E c \in Core \ {self} : k.pxCurrentTCBs[c] = t /\ m.irq[c]
  BY <1>1 DEF Keeps
<1>3. ASSUME NEW c \in Core
      PROVE  /\ k.irq[c] => m.irq[c]
             /\ k.xYieldPendings[c] => m.xYieldPendings[c]
  BY <1>1 DEF Keeps
<1>4. ASSUME NEW c \in Core,
             c \notin m.uxCoreAffinityMask[k.pxCurrentTCBs[c]],
             ~m.irq[c], ~m.xYieldPendings[c],
             c \in k.uxCoreAffinityMask[k.pxCurrentTCBs[c]]
      PROVE  k.xTaskRunState[k.pxCurrentTCBs[c]] = taskTASK_SCHEDULED_TO_YIELD
  <2>1. ~l.irq[c] /\ ~l.xYieldPendings[c]
    BY <1>4 DEF Keeps
  <2>2. \/ c \notin l.uxCoreAffinityMask[k.pxCurrentTCBs[c]]
        \/ l.xTaskRunState[k.pxCurrentTCBs[c]] = taskTASK_SCHEDULED_TO_YIELD
    BY <1>1, <1>4 DEF Keeps
  <2>3. CASE c \notin l.uxCoreAffinityMask[k.pxCurrentTCBs[c]]
    BY <1>4, <2>1, <2>3 DEF Keeps
  <2>4. CASE l.xTaskRunState[k.pxCurrentTCBs[c]] = taskTASK_SCHEDULED_TO_YIELD
    BY <1>1, <2>1, <2>4 DEF Keeps
  <2> QED BY <2>2, <2>3, <2>4
<1>5. ASSUME NEW c \in Core, m.xStateList[k.pxCurrentTCBs[c]] = "termination"
      PROVE  \/ k.xStateList[k.pxCurrentTCBs[c]] = "termination"
             \/ m.xTaskRunState[k.pxCurrentTCBs[c]] = taskTASK_SCHEDULED_TO_YIELD
             \/ c = self /\ m.xYieldPendings[c]
  <2>1. CASE l.xStateList[k.pxCurrentTCBs[c]] = "termination"
    <3>1. CASE l.xTaskRunState[k.pxCurrentTCBs[c]] = taskTASK_SCHEDULED_TO_YIELD
      BY <1>1, <3>1 DEF Keeps
    <3> QED BY <1>1, <2>1, <3>1 DEF Keeps
  <2>2. CASE l.xStateList[k.pxCurrentTCBs[c]] # "termination"
    BY <1>1, <1>5, <2>2 DEF Keeps
  <2> QED BY <2>1, <2>2
<1> QED BY <1>1, <1>2, <1>3, <1>4, <1>5 DEF Keeps

\* What a request changes of a kernel.
LEMMA YieldFields ==
  ASSUME NEW k \in Kernels, NEW self, NEW S
  PROVE  LET l == YieldCores(k, self, S)
             asked == Unasked(k, self, S)
         IN /\ l \in Kernels
            /\ l.pxReadyTasksLists = k.pxReadyTasksLists
            /\ l.uxTopReadyPriority = k.uxTopReadyPriority
            /\ l.pxCurrentTCBs = k.pxCurrentTCBs
            /\ l.uxPriority = k.uxPriority
            /\ l.uxCoreAffinityMask = k.uxCoreAffinityMask
            /\ l.xStateList = k.xStateList
            /\ l.xPendingReadyList = k.xPendingReadyList
            /\ l.xTasksWaitingTermination = k.xTasksWaitingTermination
            /\ \A c \in Core :
                 /\ l.xYieldPendings[c] = (k.xYieldPendings[c] \/ (c = self /\ c \in S))
                 /\ l.irq[c] = (k.irq[c] \/ c \in asked)
            /\ \A t \in Thread : l.xTaskRunState[t] =
                 IF \E c \in asked : k.pxCurrentTCBs[c] = t
                 THEN taskTASK_SCHEDULED_TO_YIELD ELSE k.xTaskRunState[t]
<1> DEFINE l == YieldCores(k, self, S)
           asked == Unasked(k, self, S)
           yp == [c \in Core |-> k.xYieldPendings[c] \/ (c = self /\ c \in S)]
           irq == [c \in Core |-> k.irq[c] \/ c \in asked]
           rs == [t \in Thread |-> IF \E c \in asked : k.pxCurrentTCBs[c] = t
                                   THEN taskTASK_SCHEDULED_TO_YIELD ELSE k.xTaskRunState[t]]
<1>1. l = [k EXCEPT !.xYieldPendings = yp, !.irq = irq, !.xTaskRunState = rs]
  BY DEF YieldCores
<1>2. yp \in [Core -> BOOLEAN] /\ irq \in [Core -> BOOLEAN]
  BY DEF Kernels
<1>3. rs \in [Thread -> RunStates]
  BY DEF Kernels, RunStates
<1>4. \A c \in Core : /\ yp[c] = (k.xYieldPendings[c] \/ (c = self /\ c \in S))
                      /\ irq[c] = (k.irq[c] \/ c \in asked)
  OBVIOUS
<1>5. \A t \in Thread : rs[t] = IF \E c \in asked : k.pxCurrentTCBs[c] = t
              THEN taskTASK_SCHEDULED_TO_YIELD ELSE k.xTaskRunState[t]
  OBVIOUS
<1> HIDE DEF yp, irq, rs, l, asked
<1>6. l \in Kernels
  BY <1>1, <1>2, <1>3 DEF Kernels
<1>7. l.xYieldPendings = yp /\ l.irq = irq /\ l.xTaskRunState = rs
  BY <1>1 DEF Kernels
<1>8. /\ l.pxReadyTasksLists = k.pxReadyTasksLists
      /\ l.uxTopReadyPriority = k.uxTopReadyPriority
      /\ l.pxCurrentTCBs = k.pxCurrentTCBs
      /\ l.uxPriority = k.uxPriority
      /\ l.uxCoreAffinityMask = k.uxCoreAffinityMask
      /\ l.xStateList = k.xStateList
      /\ l.xPendingReadyList = k.xPendingReadyList
      /\ l.xTasksWaitingTermination = k.xTasksWaitingTermination
  BY <1>1 DEF Kernels
<1> QED BY <1>4, <1>5, <1>6, <1>7, <1>8 DEF l, asked

\* prvYieldCore of several cores.
LEMMA YieldKeeps ==
  ASSUME SMPAssumption, NEW k, Sound(k), NEW self \in Core, NEW S \in SUBSET Core
  PROVE  Keeps(self, k, YieldCores(k, self, S))
<1> DEFINE l == YieldCores(k, self, S)
           asked == Unasked(k, self, S)
<1>1. /\ l \in Kernels
      /\ l.pxReadyTasksLists = k.pxReadyTasksLists
      /\ l.uxTopReadyPriority = k.uxTopReadyPriority
      /\ l.pxCurrentTCBs = k.pxCurrentTCBs
      /\ l.uxPriority = k.uxPriority
      /\ l.uxCoreAffinityMask = k.uxCoreAffinityMask
      /\ l.xStateList = k.xStateList
      /\ l.xPendingReadyList = k.xPendingReadyList
      /\ l.xTasksWaitingTermination = k.xTasksWaitingTermination
      /\ \A c \in Core : /\ l.xYieldPendings[c] = (k.xYieldPendings[c] \/ (c = self /\ c \in S))
                         /\ l.irq[c] = (k.irq[c] \/ c \in asked)
      /\ \A t \in Thread : l.xTaskRunState[t] =
           IF \E c \in asked : k.pxCurrentTCBs[c] = t
           THEN taskTASK_SCHEDULED_TO_YIELD ELSE k.xTaskRunState[t]
  BY YieldFields DEF Sound
<1>2. asked \subseteq Core \ {self}
  BY DEF Unasked
<1> HIDE DEF l, asked
<1>3. ListsKept(l)
  BY <1>1 DEF Sound, ListsKept
<1>4. RunsKept(l)
  <2>1. RunsKept(k) /\ k \in Kernels
    BY DEF Sound
  <2>2. \A c \in Core : k.pxCurrentTCBs[c] \in Thread
    BY <2>1 DEF Kernels
  <2>3. ASSUME NEW c \in Core
        PROVE  l.xTaskRunState[k.pxCurrentTCBs[c]] \in {c, taskTASK_SCHEDULED_TO_YIELD}
    BY <1>1, <2>1, <2>2 DEF RunsKept
  <2>4. ASSUME NEW t \in Thread, l.xTaskRunState[t] # taskTASK_NOT_RUNNING
        PROVE  k.xStateList[t] # "none" /\ \E c \in Core : k.pxCurrentTCBs[c] = t
    <3>1. CASE \E c \in asked : k.pxCurrentTCBs[c] = t
      <4>1. PICK c \in Core : k.pxCurrentTCBs[c] = t
        BY <1>2, <3>1
      <4>2. k.xTaskRunState[t] # taskTASK_NOT_RUNNING
        BY <2>1, <4>1, Numbers DEF RunsKept
      <4> QED BY <2>1, <4>1, <4>2 DEF RunsKept
    <3>2. CASE ~\E c \in asked : k.pxCurrentTCBs[c] = t
      BY <1>1, <2>1, <2>4, <3>2 DEF RunsKept
    <3> QED BY <3>1, <3>2
  <2> QED BY <1>1, <2>1, <2>3, <2>4 DEF RunsKept
<1>5. ASSUME NEW t \in Thread, l.xTaskRunState[t] # k.xTaskRunState[t]
      PROVE  /\ l.xTaskRunState[t] = taskTASK_SCHEDULED_TO_YIELD
             /\ \E c \in Core \ {self} : k.pxCurrentTCBs[c] = t /\ l.irq[c]
  BY <1>1, <1>2, <1>5
<1>6. Keeps(self, k, l)
  BY <1>1, <1>3, <1>4, <1>5 DEF Keeps, Sound
<1> QED BY <1>6 DEF l

\* The core of the lowest priority is one of those that are considered.
LEMMA LowestIsOne ==
  ASSUME SMPAssumption, NEW k \in Kernels, NEW S \in SUBSET Core, S # {}
  PROVE  LowestCore(k, S) \in S
<1>1. PICK n \in Nat : Core = 0..n
  BY DEF SMPAssumption
<1> DEFINE rank == [c \in S |-> CorePriority(k, c) + 1]
           ranks == {rank[c] : c \in S}
<1>2. \A c \in S : rank[c] \in Nat /\ CorePriority(k, c) = rank[c] - 1
  <2> TAKE c \in S
  <2>1. k.uxPriority[k.pxCurrentTCBs[c]] \in Nat
    BY Numbers DEF Kernels
  <2>2. CorePriority(k, c) \in Int /\ CorePriority(k, c) + 1 \in Nat
    BY <2>1 DEF CorePriority
  <2> QED BY <2>2
<1> HIDE DEF rank
<1>3. ranks \subseteq Nat /\ ranks # {}
  BY <1>2
<1> HIDE DEF ranks
<1>4. Min(ranks) \in ranks /\ \A r \in ranks : Min(ranks) <= r
  BY <1>3, MinIsLeast
<1> DEFINE low == {c \in S : rank[c] = Min(ranks)}
<1>5. low \subseteq 0..n /\ low # {}
  BY <1>1, <1>4 DEF ranks
<1> HIDE DEF low
<1>6. Max(low) \in low /\ \A c \in low : c <= Max(low)
  BY <1>5, MaxIsGreatest
<1> DEFINE c == Max(low)
<1>7. c \in S /\ rank[c] = Min(ranks)
  BY <1>6 DEF low
<1>8. ASSUME NEW d \in S
      PROVE  \/ CorePriority(k, c) < CorePriority(k, d)
             \/ CorePriority(k, c) = CorePriority(k, d) /\ d <= c
  <2>1. rank[c] <= rank[d]
    BY <1>4, <1>7 DEF ranks
  <2>2. rank[c] = rank[d] => d \in low
    BY <1>7 DEF low
  <2> HIDE DEF c
  <2>3. rank[c] = rank[d] => d <= c
    BY <1>6, <2>2 DEF c
  <2> QED BY <1>2, <1>7, <2>1, <2>3
<1> HIDE DEF c
<1>9. \E e \in S : \A d \in S :
        \/ CorePriority(k, e) < CorePriority(k, d)
        \/ CorePriority(k, e) = CorePriority(k, d) /\ d <= e
  BY <1>7, <1>8
<1> QED BY <1>9 DEF LowestCore

-----------------------------------------------------------------------------
(* A task goes from one list to another.                                     *)

\* l is k, but that t is in another list.
Moves(k, l, t, list) ==
  /\ l \in Kernels /\ ListsKept(l)
  /\ l.pxCurrentTCBs = k.pxCurrentTCBs /\ l.xTaskRunState = k.xTaskRunState
  /\ l.xYieldPendings = k.xYieldPendings /\ l.irq = k.irq
  /\ l.uxCoreAffinityMask = k.uxCoreAffinityMask
  /\ l.xStateList = [k.xStateList EXCEPT ![t] = list]

\* Then everything is kept, unless the task is freed while a core runs it, or
\* deleted.
LEMMA MovesKeep ==
  ASSUME NEW self, NEW k, Sound(k), NEW l, NEW t, NEW list, Moves(k, l, t, list),
         list # "none" \/ k.xTaskRunState[t] = taskTASK_NOT_RUNNING,
         list = "termination" => k.xStateList[t] = "termination"
  PROVE  Keeps(self, k, l)
<1>1. k \in Kernels /\ RunsKept(k)
  BY DEF Sound
<1>2. \A u \in Thread : l.xStateList[u] = IF u = t THEN list ELSE k.xStateList[u]
  BY <1>1 DEF Moves, Kernels
<1>3. RunsKept(l)
  BY <1>1, <1>2 DEF RunsKept, Moves
<1>4. \A c \in Core : k.pxCurrentTCBs[c] \in Thread
  BY <1>1 DEF Kernels
<1> QED BY <1>2, <1>3, <1>4 DEF Keeps, Sound, Moves

\* The ready lists without t.
LEMMA ReadyRemoved ==
  ASSUME NEW k \in Kernels, NEW t,
         \A p \in Levels : IsInjective(k.pxReadyTasksLists[p])
  PROVE  LET l == RemoveReady(k, t)
         IN /\ l \in Kernels
            /\ l.uxTopReadyPriority = k.uxTopReadyPriority
            /\ l.pxCurrentTCBs = k.pxCurrentTCBs /\ l.xTaskRunState = k.xTaskRunState
            /\ l.xYieldPendings = k.xYieldPendings /\ l.irq = k.irq
            /\ l.uxPriority = k.uxPriority
            /\ l.uxCoreAffinityMask = k.uxCoreAffinityMask
            /\ l.xStateList = k.xStateList
            /\ l.xPendingReadyList = k.xPendingReadyList
            /\ l.xTasksWaitingTermination = k.xTasksWaitingTermination
            /\ \A p \in Levels :
                 /\ l.pxReadyTasksLists[p] \in Seq(Thread)
                 /\ IsInjective(l.pxReadyTasksLists[p])
                 /\ ToSet(l.pxReadyTasksLists[p]) = ToSet(k.pxReadyTasksLists[p]) \ {t}
<1> DEFINE l == RemoveReady(k, t)
           lists == [p \in Levels |-> Without(k.pxReadyTasksLists[p], t)]
<1>1. l = [k EXCEPT !.pxReadyTasksLists = lists]
  BY DEF RemoveReady
<1>2. ASSUME NEW p \in Levels
      PROVE  /\ lists[p] \in Seq(Thread) /\ IsInjective(lists[p])
             /\ ToSet(lists[p]) = ToSet(k.pxReadyTasksLists[p]) \ {t}
  <2>1. k.pxReadyTasksLists[p] \in Seq(Thread)
    BY DEF Kernels
  <2>2. lists[p] = Without(k.pxReadyTasksLists[p], t)
    OBVIOUS
  <2> HIDE DEF lists
  <2> QED BY <2>1, <2>2, WithoutList
<1>3. lists \in [Levels -> Seq(Thread)]
  BY <1>2
<1> HIDE DEF lists, l
<1>4. l \in Kernels /\ l.pxReadyTasksLists = lists
  BY <1>1, <1>3 DEF Kernels
<1>5. /\ l.uxTopReadyPriority = k.uxTopReadyPriority
      /\ l.pxCurrentTCBs = k.pxCurrentTCBs /\ l.xTaskRunState = k.xTaskRunState
      /\ l.xYieldPendings = k.xYieldPendings /\ l.irq = k.irq
      /\ l.uxPriority = k.uxPriority
      /\ l.uxCoreAffinityMask = k.uxCoreAffinityMask
      /\ l.xStateList = k.xStateList
      /\ l.xPendingReadyList = k.xPendingReadyList
      /\ l.xTasksWaitingTermination = k.xTasksWaitingTermination
  BY <1>1 DEF Kernels
<1> QED BY <1>2, <1>4, <1>5 DEF l

\* Workers are threads, idle tasks are not workers.
LEMMA Threads ==
  ASSUME SMPAssumption
  PROVE  /\ \A t \in Worker : t \in Thread /\ t \notin IdleTasks
         /\ \A t \in IdleTasks : t \in Thread
BY DEF SMPAssumption, Thread

\* A worker leaves the list it is in.
LEMMA MovedTo ==
  ASSUME SMPAssumption, NEW k \in Kernels, ListsKept(k), NEW t \in Worker,
         t \notin ToSet(k.xTasksWaitingTermination), NEW list \in StateLists
  PROVE  LET l == MoveTo(k, t, list)
         IN /\ Moves(k, l, t, list)
            /\ l.uxPriority = k.uxPriority
            /\ l.uxTopReadyPriority = k.uxTopReadyPriority
            /\ l.xTasksWaitingTermination = k.xTasksWaitingTermination
            /\ \A p \in Levels : t \notin ToSet(l.pxReadyTasksLists[p])
            /\ t \notin ToSet(l.xPendingReadyList)
            /\ ToSet(l.xPendingReadyList) \subseteq ToSet(k.xPendingReadyList)
<1> DEFINE r == RemoveReady(k, t)
           l == MoveTo(k, t, list)
           pending == Without(k.xPendingReadyList, t)
           state == [k.xStateList EXCEPT ![t] = list]
<1>1. /\ r \in Kernels
      /\ r.uxTopReadyPriority = k.uxTopReadyPriority
      /\ r.pxCurrentTCBs = k.pxCurrentTCBs /\ r.xTaskRunState = k.xTaskRunState
      /\ r.xYieldPendings = k.xYieldPendings /\ r.irq = k.irq
      /\ r.uxPriority = k.uxPriority
      /\ r.uxCoreAffinityMask = k.uxCoreAffinityMask
      /\ r.xStateList = k.xStateList
      /\ r.xPendingReadyList = k.xPendingReadyList
      /\ r.xTasksWaitingTermination = k.xTasksWaitingTermination
      /\ \A p \in Levels :
           /\ IsInjective(r.pxReadyTasksLists[p])
           /\ ToSet(r.pxReadyTasksLists[p]) = ToSet(k.pxReadyTasksLists[p]) \ {t}
  BY ReadyRemoved DEF ListsKept
<1>2. /\ pending \in Seq(Worker) /\ IsInjective(pending)
      /\ ToSet(pending) = ToSet(k.xPendingReadyList) \ {t}
  <2>1. k.xPendingReadyList \in Seq(Worker) /\ IsInjective(k.xPendingReadyList)
    BY DEF ListsKept, Kernels
  <2> QED BY <2>1, WithoutList
<1>3. l = [r EXCEPT !.xStateList = state, !.xPendingReadyList = pending]
  BY <1>1 DEF MoveTo
<1>4. /\ state \in [Thread -> StateLists] /\ state[t] = list
      /\ \A u \in Thread : u # t => state[u] = k.xStateList[u]
  BY Threads DEF Kernels
<1>5. state = [k.xStateList EXCEPT ![t] = list]
  OBVIOUS
<1> HIDE DEF l, r, pending, state
<1>6. l \in Kernels /\ l.xStateList = state /\ l.xPendingReadyList = pending
  BY <1>1, <1>2, <1>3, <1>4 DEF Kernels
<1>7. /\ l.pxReadyTasksLists = r.pxReadyTasksLists
      /\ l.uxTopReadyPriority = k.uxTopReadyPriority
      /\ l.pxCurrentTCBs = k.pxCurrentTCBs /\ l.xTaskRunState = k.xTaskRunState
      /\ l.xYieldPendings = k.xYieldPendings /\ l.irq = k.irq
      /\ l.uxPriority = k.uxPriority
      /\ l.uxCoreAffinityMask = k.uxCoreAffinityMask
      /\ l.xTasksWaitingTermination = k.xTasksWaitingTermination
  BY <1>1, <1>3 DEF Kernels
<1>8. ListsKept(l)
  <2>1. ASSUME NEW p \in Levels
        PROVE  /\ IsInjective(l.pxReadyTasksLists[p])
               /\ \A u \in ToSet(l.pxReadyTasksLists[p]) : l.xStateList[u] = "ready"
    <3>1. k.pxReadyTasksLists[p] \in Seq(Thread)
      BY DEF Kernels
    <3>2. \A u \in ToSet(k.pxReadyTasksLists[p]) : u \in Thread
      BY <3>1 DEF ToSet
    <3> QED BY <1>1, <1>4, <1>6, <1>7, <3>2 DEF ListsKept
  <2>2. ASSUME NEW u \in IdleTasks
        PROVE  /\ u \in ToSet(l.pxReadyTasksLists[0])
               /\ l.uxPriority[u] = 0 /\ l.uxCoreAffinityMask[u] = Core
    BY <1>1, <1>7, Threads, Numbers DEF ListsKept
  <2>3. \A u \in ToSet(l.xPendingReadyList) : l.xStateList[u] = "suspended"
    <3>1. k.xPendingReadyList \in Seq(Worker)
      BY DEF Kernels
    <3>2. \A u \in ToSet(k.xPendingReadyList) : u \in Thread
      BY <3>1, Threads DEF ToSet
    <3> QED BY <1>2, <1>4, <1>6, <3>2 DEF ListsKept
  <2>4. \A u \in ToSet(l.xTasksWaitingTermination) : l.xStateList[u] = "termination"
    <3>1. k.xTasksWaitingTermination \in Seq(Worker)
      BY DEF Kernels
    <3>2. \A u \in ToSet(k.xTasksWaitingTermination) : u \in Thread
      BY <3>1, Threads DEF ToSet
    <3> QED BY <1>4, <1>6, <1>7, <3>2 DEF ListsKept
  <2> QED BY <1>2, <1>6, <1>7, <2>1, <2>2, <2>3, <2>4 DEF ListsKept
<1>9. Moves(k, l, t, list)
  BY <1>5, <1>6, <1>7, <1>8 DEF Moves
<1>10. \A p \in Levels : t \notin ToSet(l.pxReadyTasksLists[p])
  BY <1>1, <1>7
<1>11. t \notin ToSet(l.xPendingReadyList) /\ ToSet(l.xPendingReadyList) \subseteq ToSet(k.xPendingReadyList)
  BY <1>2, <1>6
<1> QED BY <1>7, <1>9, <1>10, <1>11 DEF l

\* A worker that is in no list becomes ready.
LEMMA AddedReady ==
  ASSUME SMPAssumption, NEW k \in Kernels, ListsKept(k), NEW t \in Worker,
         \A p \in Levels : t \notin ToSet(k.pxReadyTasksLists[p]),
         t \notin ToSet(k.xPendingReadyList),
         t \notin ToSet(k.xTasksWaitingTermination)
  PROVE  LET l == prvAddTaskToReadyList(k, t)
         IN /\ Moves(k, l, t, "ready")
            /\ l.xPendingReadyList = k.xPendingReadyList
            /\ l.xTasksWaitingTermination = k.xTasksWaitingTermination
<1> DEFINE l == prvAddTaskToReadyList(k, t)
           level == k.uxPriority[t]
           list == Append(k.pxReadyTasksLists[level], t)
           lists == [k.pxReadyTasksLists EXCEPT ![level] = list]
           top == IF level > k.uxTopReadyPriority THEN level ELSE k.uxTopReadyPriority
           state == [k.xStateList EXCEPT ![t] = "ready"]
<1>1. t \in Thread /\ t \notin IdleTasks /\ level \in Levels /\ top \in Levels
  BY Threads DEF Kernels
<1>2. l = [k EXCEPT !.pxReadyTasksLists = lists, !.uxTopReadyPriority = top,
                    !.xStateList = state]
  BY DEF prvAddTaskToReadyList
<1>3. /\ list \in Seq(Thread) /\ IsInjective(list)
      /\ ToSet(list) = ToSet(k.pxReadyTasksLists[level]) \cup {t}
  <2>1. /\ k.pxReadyTasksLists[level] \in Seq(Thread)
        /\ IsInjective(k.pxReadyTasksLists[level])
        /\ t \notin ToSet(k.pxReadyTasksLists[level])
    BY <1>1 DEF Kernels, ListsKept
  <2> HIDE DEF level
  <2> QED BY <1>1, <2>1, AppendList
<1>4. /\ state \in [Thread -> StateLists] /\ state[t] = "ready"
      /\ \A u \in Thread : u # t => state[u] = k.xStateList[u]
  BY <1>1 DEF Kernels, StateLists
<1>5. state = [k.xStateList EXCEPT ![t] = "ready"]
  OBVIOUS
<1> HIDE DEF level, top, list
<1>6. /\ lists \in [Levels -> Seq(Thread)] /\ lists[level] = list
      /\ \A p \in Levels : p # level => lists[p] = k.pxReadyTasksLists[p]
  BY <1>1, <1>3 DEF Kernels
<1> HIDE DEF l, lists, state
<1>7. /\ l \in Kernels /\ l.pxReadyTasksLists = lists /\ l.xStateList = state
  BY <1>1, <1>2, <1>4, <1>6 DEF Kernels
<1>8. /\ l.pxCurrentTCBs = k.pxCurrentTCBs /\ l.xTaskRunState = k.xTaskRunState
      /\ l.xYieldPendings = k.xYieldPendings /\ l.irq = k.irq
      /\ l.uxPriority = k.uxPriority
      /\ l.uxCoreAffinityMask = k.uxCoreAffinityMask
      /\ l.xPendingReadyList = k.xPendingReadyList
      /\ l.xTasksWaitingTermination = k.xTasksWaitingTermination
  BY <1>2 DEF Kernels
<1>9. ListsKept(l)
  <2>1. ASSUME NEW p \in Levels
        PROVE  /\ IsInjective(lists[p])
               /\ \A u \in ToSet(lists[p]) : state[u] = "ready"
               /\ ToSet(k.pxReadyTasksLists[p]) \subseteq ToSet(lists[p])
    <3>1. k.pxReadyTasksLists[p] \in Seq(Thread)
      BY DEF Kernels
    <3>2. \A u \in ToSet(k.pxReadyTasksLists[p]) : u \in Thread /\ k.xStateList[u] = "ready"
      BY <3>1 DEF ToSet, ListsKept
    <3>3. CASE p = level
      BY <1>1, <1>3, <1>4, <1>6, <3>2, <3>3 DEF ListsKept
    <3>4. CASE p # level
      BY <1>4, <1>6, <3>2, <3>4 DEF ListsKept
    <3> QED BY <3>3, <3>4
  <2>2. ASSUME NEW u \in IdleTasks
        PROVE  /\ u \in ToSet(l.pxReadyTasksLists[0])
               /\ l.uxPriority[u] = 0 /\ l.uxCoreAffinityMask[u] = Core
    BY <1>7, <1>8, <2>1, Numbers DEF ListsKept
  <2>3. \A u \in ToSet(l.xPendingReadyList) : l.xStateList[u] = "suspended"
    <3>1. k.xPendingReadyList \in Seq(Worker)
      BY DEF Kernels
    <3>2. \A u \in ToSet(k.xPendingReadyList) : u \in Thread
      BY <3>1, Threads DEF ToSet
    <3> QED BY <1>4, <1>7, <1>8, <3>2 DEF ListsKept
  <2>4. \A u \in ToSet(l.xTasksWaitingTermination) : l.xStateList[u] = "termination"
    <3>1. k.xTasksWaitingTermination \in Seq(Worker)
      BY DEF Kernels
    <3>2. \A u \in ToSet(k.xTasksWaitingTermination) : u \in Thread
      BY <3>1, Threads DEF ToSet
    <3> QED BY <1>4, <1>7, <1>8, <3>2 DEF ListsKept
  <2> QED BY <1>7, <1>8, <2>1, <2>2, <2>3, <2>4 DEF ListsKept
<1>10. Moves(k, l, t, "ready")
  BY <1>5, <1>7, <1>8, <1>9 DEF Moves
<1> QED BY <1>8, <1>10 DEF l
-----------------------------------------------------------------------------
(* Tasks become ready, and ticks.                                            *)

\* What a critical section of core self that deletes no task may reach.
Reach(self, k) ==
  {l \in Kernels :
     /\ Keeps(self, k, l)
     /\ \A t \in Thread :
          l.xStateList[t] = "termination" => k.xStateList[t] = "termination"}

LEMMA ReachesItself ==
  ASSUME NEW self, NEW k, Sound(k)
  PROVE  k \in Reach(self, k)
BY KeepsItself DEF Reach, Sound

LEMMA ReachesOn ==
  ASSUME NEW self, NEW k, Sound(k), NEW l \in Reach(self, k), NEW m \in Reach(self, l)
  PROVE  m \in Reach(self, k)
<1>1. Keeps(self, k, m)
  BY KeepsOn DEF Reach
<1> QED BY <1>1 DEF Reach

\* prvYieldCore, and the moves of a task that is not deleted, reach.
LEMMA YieldReaches ==
  ASSUME SMPAssumption, NEW k, Sound(k), NEW self \in Core, NEW S \in SUBSET Core
  PROVE  YieldCores(k, self, S) \in Reach(self, k)
<1> DEFINE l == YieldCores(k, self, S)
<1>1. Keeps(self, k, l)
  BY YieldKeeps
<1>2. l \in Kernels /\ l.xStateList = k.xStateList
  BY YieldFields DEF Sound
<1> QED BY <1>1, <1>2 DEF Reach

LEMMA YieldForTaskReaches ==
  ASSUME SMPAssumption, NEW k, Sound(k), NEW self \in Core, NEW t \in Thread
  PROVE  prvYieldForTask(k, self, t) \in Reach(self, k)
<1> DEFINE wanted == IF configRUN_MULTIPLE_PRIORITIES THEN ~Running(k, t)
                     ELSE k.uxPriority[t] >= k.uxTopReadyPriority
           eligible == {c \in k.uxCoreAffinityMask[t] :
                          /\ Preemptible(k, c) /\ ~Running(k, t)
                          /\ CorePriority(k, c) < k.uxPriority[t]}
           lower == {c \in Core :
                       /\ ~configRUN_MULTIPLE_PRIORITIES
                       /\ Running(k, k.pxCurrentTCBs[c]) /\ ~k.xYieldPendings[c]
                       /\ CorePriority(k, c) \in 0 .. k.uxPriority[t] - 1}
           l == prvYieldForTask(k, self, t)
<1>1. eligible \in SUBSET Core /\ lower \in SUBSET Core /\ k \in Kernels
  BY DEF Sound, Kernels
<1>2. l = IF ~wanted THEN k
          ELSE IF lower # {} THEN YieldCores(k, self, lower)
          ELSE IF eligible # {} THEN prvYieldCore(k, self, LowestCore(k, eligible))
          ELSE k
  BY DEF prvYieldForTask
<1> HIDE DEF wanted, eligible, lower, l
<1>3. CASE l = k
  BY <1>3, ReachesItself DEF l
<1>4. CASE l = YieldCores(k, self, lower)
  BY <1>1, <1>4, YieldReaches DEF l
<1>5. CASE eligible # {} /\ l = prvYieldCore(k, self, LowestCore(k, eligible))
  <2>1. {LowestCore(k, eligible)} \in SUBSET Core
    BY <1>1, <1>5, LowestIsOne
  <2> QED BY <1>5, <2>1, YieldReaches DEF prvYieldCore, l
<1> QED BY <1>2, <1>3, <1>4, <1>5

LEMMA MovesReach ==
  ASSUME NEW self, NEW k, Sound(k), NEW l, NEW t, NEW list, Moves(k, l, t, list),
         list \notin {"none", "termination"}
  PROVE  l \in Reach(self, k)
<1>1. Keeps(self, k, l)
  BY MovesKeep
<1> QED BY <1>1 DEF Reach, Moves, Sound, Kernels

\* A task of a list of deleted tasks is deleted.
LEMMA NotListed ==
  ASSUME NEW k, ListsKept(k), NEW t, k.xStateList[t] # "termination"
  PROVE  t \notin ToSet(k.xTasksWaitingTermination)
BY DEF ListsKept

\* A task goes to the ready list from the list it is in.
LEMMA ReadiedReaches ==
  ASSUME SMPAssumption, NEW k, Sound(k), NEW self, NEW t \in Worker,
         k.xStateList[t] # "termination"
  PROVE  prvAddTaskToReadyList(MoveTo(k, t, "ready"), t) \in Reach(self, k)
<1> DEFINE m == MoveTo(k, t, "ready")
           l == prvAddTaskToReadyList(m, t)
<1>1. k \in Kernels /\ ListsKept(k)
  BY DEF Sound
<1>2. t \notin ToSet(k.xTasksWaitingTermination)
  BY <1>1, NotListed
<1>3. "ready" \in StateLists
  BY DEF StateLists
<1>4. /\ Moves(k, m, t, "ready")
      /\ m.xTasksWaitingTermination = k.xTasksWaitingTermination
      /\ \A p \in Levels : t \notin ToSet(m.pxReadyTasksLists[p])
      /\ t \notin ToSet(m.xPendingReadyList)
  BY <1>1, <1>2, <1>3, MovedTo
<1> HIDE DEF m
<1>5. m \in Kernels /\ ListsKept(m)
  BY <1>4 DEF Moves
<1>6. Moves(m, l, t, "ready")
  BY <1>2, <1>4, <1>5, AddedReady
<1> HIDE DEF l
<1>7. m \in Reach(self, k)
  BY <1>4, MovesReach
<1>8. Sound(m)
  BY <1>7 DEF Reach, Keeps
<1>9. l \in Reach(self, m)
  BY <1>6, <1>8, MovesReach
<1>10. l \in Reach(self, k)
  BY <1>7, <1>9, ReachesOn
<1> QED BY <1>10 DEF l, m

LEMMA UnblockReaches ==
  ASSUME SMPAssumption, NEW k, Sound(k), NEW self \in Core, NEW t \in Worker,
         k.xStateList[t] # "termination"
  PROVE  Unblock(k, self, t) \in Reach(self, k)
<1> DEFINE m == prvAddTaskToReadyList(MoveTo(k, t, "ready"), t)
<1>1. m \in Reach(self, k)
  BY ReadiedReaches
<1> HIDE DEF m
<1>2. Sound(m) /\ t \in Thread
  BY <1>1, Threads DEF Reach, Keeps
<1>3. prvYieldForTask(m, self, t) \in Reach(self, m)
  BY <1>2, YieldForTaskReaches
<1>4. prvYieldForTask(m, self, t) \in Reach(self, k)
  BY <1>1, <1>3, ReachesOn
<1> QED BY <1>4 DEF Unblock, m

\* Whatever holds at first and after each step holds at last.
LEMMA StepByStep ==
  ASSUME NEW last \in Nat, NEW Good, 0 \in Good,
         \A n \in Good : n < last => n + 1 \in Good
  PROVE  last \in Good
<1> DEFINE Bad == {n \in 0..last : n \notin Good}
<1>1. Bad = {}
  <2>1. SUFFICES ASSUME Bad # {} PROVE FALSE
    OBVIOUS
  <2>2. Bad \subseteq Nat
    OBVIOUS
  <2>3. PICK n \in Bad : \A i \in Bad : n <= i
    <3> HIDE DEF Bad
    <3> QED BY <2>1, <2>2, MinIsLeast
  <2>4. n - 1 \in Good /\ n - 1 < last /\ (n - 1) + 1 = n
    BY <2>3
  <2> QED BY <2>3, <2>4
<1> QED BY <1>1

\* The tasks of W wake, one after another.
LEMMA UnblockingReaches ==
  ASSUME SMPAssumption, NEW k, Sound(k), NEW self \in Core, NEW W \in Seq(Worker),
         \A i \in 1..Len(W) : k.xStateList[W[i]] # "termination"
  PROVE  AfterUnblocking(k, self, W) \in Reach(self, k)
<1> DEFINE last == Len(W)
           S == Reach(self, k)
           after == CHOOSE g : g = [n \in 0..last |->
                                      IF n = 0 THEN k ELSE Unblock(g[n - 1], self, W[n])]
           step == [n \in 1..last |-> [l \in S |-> Unblock(l, self, W[n])]]
           Good == {n \in 0..last : after[n] \in S}
<1>0. AfterUnblocking(k, self, W) = after[last]
  BY DEF AfterUnblocking
<1>1. last \in Nat /\ k \in S
  BY ReachesItself
<1>2. ASSUME NEW n \in 1..last, NEW l \in S
      PROVE  Unblock(l, self, W[n]) \in S
  <2>1. Sound(l) /\ W[n] \in Worker /\ l.xStateList[W[n]] # "termination"
    BY <1>2, Threads DEF Reach, Keeps
  <2>2. Unblock(l, self, W[n]) \in Reach(self, l)
    BY <2>1, UnblockReaches
  <2> QED BY <2>2, ReachesOn
<1>3. step \in [1..last -> [S -> S]]
  BY <1>2
<1>4. \A n \in 1..last : \A l \in S : step[n][l] = Unblock(l, self, W[n])
  OBVIOUS
<1> HIDE DEF last, S, step
<1>5. PICK g \in [0..last -> S] : Computes(g, step, k, last)
  BY <1>1, <1>3, Iteration
<1>6. g = [n \in 0..last |-> IF n = 0 THEN k ELSE Unblock(g[n - 1], self, W[n])]
  <2>1. \A n \in 0..last : n # 0 => n \in 1..last /\ n - 1 \in 0..last
    BY <1>1
  <2>2. \A n \in 0..last : n # 0 => step[n][g[n - 1]] = Unblock(g[n - 1], self, W[n])
    BY <1>4, <1>5, <2>1
  <2> QED BY <1>5, <2>2 DEF Computes
<1>7. after = [n \in 0..last |-> IF n = 0 THEN k ELSE Unblock(after[n - 1], self, W[n])]
  BY <1>6
<1> HIDE DEF after
<1>8. 0 \in Good
  BY <1>1, <1>7
<1>9. ASSUME NEW n \in Good, n < last PROVE n + 1 \in Good
  <2>1. n + 1 \in 1..last /\ n + 1 \in 0..last /\ n + 1 # 0 /\ (n + 1) - 1 = n
    BY <1>1, <1>9
  <2>2. after[n + 1] = Unblock(after[n], self, W[n + 1])
    BY <1>7, <2>1
  <2> QED BY <1>2, <2>1, <2>2
<1>10. last \in Good
  <2> HIDE DEF Good
  <2> QED BY <1>1, <1>8, <1>9, StepByStep
<1> QED BY <1>0, <1>10 DEF S

\* The tasks that interrupts readied.
LEMMA MoveReadiedReaches ==
  ASSUME SMPAssumption, NEW k, Sound(k), NEW self \in Core
  PROVE  MoveReadied(k) \in Reach(self, k)
<1> DEFINE list == k.xPendingReadyList
           last == Len(list)
           S == Reach(self, k)
           Next1(l, t) == prvAddTaskToReadyList(MoveTo(l, t, "ready"), t)
           after == CHOOSE g : g = [n \in 0..last |->
                                      IF n = 0 THEN k ELSE Next1(g[n - 1], list[n])]
           step == [n \in 1..last |-> [l \in S |-> Next1(l, list[n])]]
           Good == {n \in 0..last : after[n] \in S}
<1>0. MoveReadied(k) = after[last]
  BY DEF MoveReadied
<1>1. last \in Nat /\ k \in S /\ list \in Seq(Worker)
  <2>1. list \in Seq(Worker)
    BY DEF Sound, Kernels
  <2> HIDE DEF list
  <2> QED BY <2>1, ReachesItself
<1>2. ASSUME NEW n \in 1..last, NEW l \in S
      PROVE  Next1(l, list[n]) \in S
  <2>1. list[n] \in Worker /\ list[n] \in ToSet(list)
    BY <1>1 DEF ToSet
  <2>2. k.xStateList[list[n]] # "termination"
    BY <2>1 DEF Sound, ListsKept
  <2>3. Sound(l) /\ l.xStateList[list[n]] # "termination"
    BY <2>1, <2>2, Threads DEF Reach, Keeps
  <2>4. Next1(l, list[n]) \in Reach(self, l)
    BY <2>1, <2>3, ReadiedReaches
  <2> QED BY <2>4, ReachesOn
<1> HIDE DEF Next1
<1>3. step \in [1..last -> [S -> S]]
  BY <1>2
<1>4. \A n \in 1..last : \A l \in S : step[n][l] = Next1(l, list[n])
  OBVIOUS
<1> HIDE DEF last, S, step, list
<1>5. PICK g \in [0..last -> S] : Computes(g, step, k, last)
  BY <1>1, <1>3, Iteration
<1>6. g = [n \in 0..last |-> IF n = 0 THEN k ELSE Next1(g[n - 1], list[n])]
  <2>1. \A n \in 0..last : n # 0 => n \in 1..last /\ n - 1 \in 0..last
    BY <1>1
  <2>2. \A n \in 0..last : n # 0 => step[n][g[n - 1]] = Next1(g[n - 1], list[n])
    BY <1>4, <1>5, <2>1
  <2> QED BY <1>5, <2>2 DEF Computes
<1>7. after = [n \in 0..last |-> IF n = 0 THEN k ELSE Next1(after[n - 1], list[n])]
  BY <1>6
<1> HIDE DEF after
<1>8. 0 \in Good
  BY <1>1, <1>7
<1>9. ASSUME NEW n \in Good, n < last PROVE n + 1 \in Good
  <2>1. n + 1 \in 1..last /\ n + 1 \in 0..last /\ n + 1 # 0 /\ (n + 1) - 1 = n
    BY <1>1, <1>9
  <2>2. after[n + 1] = Next1(after[n], list[n + 1])
    BY <1>7, <2>1
  <2> QED BY <1>2, <2>1, <2>2
<1>10. last \in Good
  <2> HIDE DEF Good
  <2> QED BY <1>1, <1>8, <1>9, StepByStep
<1> QED BY <1>0, <1>10 DEF S

\* xTaskIncrementTick, where tasks wake in the order of W.
LEMMA TickReaches ==
  ASSUME SMPAssumption, NEW k, Sound(k), NEW self \in Core, NEW W \in Seq(Worker),
         \A i \in 1..Len(W) : k.xStateList[W[i]] # "termination"
  PROVE  xTaskIncrementTick(k, self, W) \in Reach(self, k)
<1> DEFINE m == AfterUnblocking(k, self, W)
           S == SwitchRequired(m) \ {self}
<1>1. m \in Reach(self, k) /\ S \in SUBSET Core
  BY UnblockingReaches DEF SwitchRequired
<1> HIDE DEF m, S
<1>2. Sound(m)
  BY <1>1 DEF Reach, Keeps
<1>3. YieldCores(m, self, S) \in Reach(self, m)
  BY <1>1, <1>2, YieldReaches
<1>4. YieldCores(m, self, S) \in Reach(self, k)
  BY <1>1, <1>3, ReachesOn
<1> QED BY <1>4 DEF xTaskIncrementTick, m, S

\* A core notes that it has to yield, or the interrupt comes.
LEMMA NotedReaches ==
  ASSUME NEW k, Sound(k), NEW self \in Core, NEW b \in BOOLEAN
  PROVE  /\ [k EXCEPT !.xYieldPendings[self] = TRUE] \in Reach(self, k)
         /\ [k EXCEPT !.irq[self] = @ \/ b] \in Reach(self, k)
<1>1. k \in Kernels /\ ListsKept(k) /\ RunsKept(k)
  BY DEF Sound
<1>2. ASSUME NEW yp \in [Core -> BOOLEAN], NEW irq \in [Core -> BOOLEAN], NEW l,
             \/ l = [k EXCEPT !.xYieldPendings = yp] /\ irq = k.irq
             \/ l = [k EXCEPT !.irq = irq] /\ yp = k.xYieldPendings,
             \A c \in Core : /\ k.xYieldPendings[c] => yp[c]
                             /\ k.irq[c] => irq[c]
      PROVE  l \in Reach(self, k)
  <2>1. l \in Kernels /\ l.xYieldPendings = yp /\ l.irq = irq
    BY <1>1, <1>2 DEF Kernels
  <2>2. /\ l.pxReadyTasksLists = k.pxReadyTasksLists
        /\ l.pxCurrentTCBs = k.pxCurrentTCBs
        /\ l.xTaskRunState = k.xTaskRunState
        /\ l.uxPriority = k.uxPriority
        /\ l.uxCoreAffinityMask = k.uxCoreAffinityMask
        /\ l.xStateList = k.xStateList
        /\ l.xPendingReadyList = k.xPendingReadyList
        /\ l.xTasksWaitingTermination = k.xTasksWaitingTermination
    BY <1>1, <1>2 DEF Kernels
  <2>3. ListsKept(l)
    BY <1>1, <2>2 DEF ListsKept
  <2>4. RunsKept(l)
    BY <1>1, <2>2 DEF RunsKept
  <2> QED BY <1>2, <2>1, <2>2, <2>3, <2>4 DEF Reach, Keeps, Sound
<1>3. [k EXCEPT !.xYieldPendings[self] = TRUE] \in Reach(self, k)
  <2> DEFINE yp == [k.xYieldPendings EXCEPT ![self] = TRUE]
             l == [k EXCEPT !.xYieldPendings = yp]
  <2>1. yp \in [Core -> BOOLEAN] /\ \A c \in Core : k.xYieldPendings[c] => yp[c]
    BY <1>1 DEF Kernels
  <2>2. [k EXCEPT !.xYieldPendings[self] = TRUE] = l
    OBVIOUS
  <2>3. k.irq \in [Core -> BOOLEAN]
    BY <1>1 DEF Kernels
  <2> HIDE DEF yp
  <2> QED BY <1>2, <2>1, <2>2, <2>3
<1>4. [k EXCEPT !.irq[self] = @ \/ b] \in Reach(self, k)
  <2> DEFINE irq == [k.irq EXCEPT ![self] = @ \/ b]
             l == [k EXCEPT !.irq = irq]
  <2>1. irq \in [Core -> BOOLEAN] /\ \A c \in Core : k.irq[c] => irq[c]
    BY <1>1 DEF Kernels
  <2>2. [k EXCEPT !.irq[self] = @ \/ b] = l
    OBVIOUS
  <2>3. k.xYieldPendings \in [Core -> BOOLEAN]
    BY <1>1 DEF Kernels
  <2> HIDE DEF irq
  <2> QED BY <1>2, <2>1, <2>2, <2>3
<1> QED BY <1>3, <1>4

\* A pended tick.
LEMMA ReplayedReaches ==
  ASSUME SMPAssumption, NEW k, Sound(k), NEW self \in Core, NEW W \in Seq(Worker),
         \A i \in 1..Len(W) : k.xStateList[W[i]] # "termination"
  PROVE  Replayed(k, self, W) \in Reach(self, k)
<1> DEFINE m == xTaskIncrementTick(k, self, W)
           l == [m EXCEPT !.xYieldPendings[self] = TRUE]
<1>1. m \in Reach(self, k)
  BY TickReaches
<1> HIDE DEF m
<1>2. l \in Reach(self, m)
  <2>1. Sound(m)
    BY <1>1 DEF Reach, Keeps
  <2> QED BY <2>1, NotedReaches
<1>3. l \in Reach(self, k)
  BY <1>1, <1>2, ReachesOn
<1>4. Replayed(k, self, W) \in {l, m}
  BY DEF Replayed, m
<1> QED BY <1>1, <1>3, <1>4

\* The pended ticks, at the first of which the tasks of W wake.
LEMMA ReplayReaches ==
  ASSUME SMPAssumption, NEW k, Sound(k), NEW self \in Core, NEW W \in Seq(Worker),
         \A i \in 1..Len(W) : k.xStateList[W[i]] # "termination",
         NEW last \in Nat
  PROVE  ReplayTicks(k, self, last, W) \in Reach(self, k)
<1> DEFINE S == Reach(self, k)
           Wake(n) == IF n = 1 THEN W ELSE << >>
           after == CHOOSE g : g = [n \in 0..last |->
                                      IF n = 0 THEN k ELSE Replayed(g[n - 1], self, Wake(n))]
           step == [n \in 1..last |-> [l \in S |-> Replayed(l, self, Wake(n))]]
           Good == {n \in 0..last : after[n] \in S}
<1>0. ReplayTicks(k, self, last, W) = after[last]
  BY DEF ReplayTicks
<1>1. k \in S
  BY ReachesItself
<1>2. ASSUME NEW n \in 1..last, NEW l \in S
      PROVE  Replayed(l, self, Wake(n)) \in S
  <2>1. /\ Sound(l) /\ Wake(n) \in Seq(Worker)
        /\ \A i \in 1..Len(Wake(n)) : Wake(n)[i] \in Thread /\ k.xStateList[Wake(n)[i]] # "termination"
    BY <1>2, Threads DEF Reach, Keeps
  <2> HIDE DEF Wake
  <2>2. \A i \in 1..Len(Wake(n)) : l.xStateList[Wake(n)[i]] # "termination"
    BY <2>1 DEF Reach
  <2>3. Replayed(l, self, Wake(n)) \in Reach(self, l)
    BY <2>1, <2>2, ReplayedReaches
  <2> QED BY <2>3, ReachesOn
<1> HIDE DEF Wake
<1>3. step \in [1..last -> [S -> S]]
  BY <1>2
<1>4. \A n \in 1..last : \A l \in S : step[n][l] = Replayed(l, self, Wake(n))
  OBVIOUS
<1> HIDE DEF S, step
<1>5. PICK g \in [0..last -> S] : Computes(g, step, k, last)
  BY <1>1, <1>3, Iteration
<1>6. g = [n \in 0..last |-> IF n = 0 THEN k ELSE Replayed(g[n - 1], self, Wake(n))]
  <2>1. \A n \in 0..last : n # 0 => n \in 1..last /\ n - 1 \in 0..last
    OBVIOUS
  <2>2. \A n \in 0..last : n # 0 => step[n][g[n - 1]] = Replayed(g[n - 1], self, Wake(n))
    BY <1>4, <1>5, <2>1
  <2> QED BY <1>5, <2>2 DEF Computes
<1>7. after = [n \in 0..last |-> IF n = 0 THEN k ELSE Replayed(after[n - 1], self, Wake(n))]
  BY <1>6
<1> HIDE DEF after
<1>8. 0 \in Good
  BY <1>1, <1>7
<1>9. ASSUME NEW n \in Good, n < last PROVE n + 1 \in Good
  <2>1. n + 1 \in 1..last /\ n + 1 \in 0..last /\ n + 1 # 0 /\ (n + 1) - 1 = n
    BY <1>9
  <2>2. after[n + 1] = Replayed(after[n], self, Wake(n + 1))
    BY <1>7, <2>1
  <2> QED BY <1>2, <2>1, <2>2
<1>10. last \in Good
  <2> HIDE DEF Good
  <2> QED BY <1>8, <1>9, StepByStep
<1> QED BY <1>0, <1>10 DEF S
-----------------------------------------------------------------------------
(* The choice of the next task of a core.                                    *)

\* The running task goes to the end of its list.
LEMMA RequeueMoves ==
  ASSUME SMPAssumption, NEW k, Sound(k), NEW c \in Core
  PROVE  LET t == k.pxCurrentTCBs[c] IN Moves(k, Requeue(k, c), t, k.xStateList[t])
<1> DEFINE t == k.pxCurrentTCBs[c]
           r == RemoveReady(k, t)
           l == Requeue(k, c)
           level == k.uxPriority[t]
           list == Append(r.pxReadyTasksLists[level], t)
           lists == [r.pxReadyTasksLists EXCEPT ![level] = list]
<1>0. k \in Kernels /\ ListsKept(k) /\ t \in Thread
  BY DEF Sound, Kernels
<1>1. k.xStateList = [k.xStateList EXCEPT ![t] = k.xStateList[t]]
  BY <1>0 DEF Kernels
<1>2. CASE k.xStateList[t] # "ready"
  <2>1. l = k
    BY <1>2 DEF Requeue
  <2> HIDE DEF l, t
  <2>2. Moves(k, l, t, k.xStateList[t])
    BY <1>0, <1>1, <2>1 DEF Moves
  <2> QED BY <2>2 DEF l, t
<1>3. CASE k.xStateList[t] = "ready"
  <2>1. l = [r EXCEPT !.pxReadyTasksLists = lists]
    BY <1>0, <1>3, ReadyRemoved DEF Requeue, ListsKept
  <2>2. /\ r \in Kernels
        /\ r.uxTopReadyPriority = k.uxTopReadyPriority
        /\ r.pxCurrentTCBs = k.pxCurrentTCBs /\ r.xTaskRunState = k.xTaskRunState
        /\ r.xYieldPendings = k.xYieldPendings /\ r.irq = k.irq
        /\ r.uxPriority = k.uxPriority
        /\ r.uxCoreAffinityMask = k.uxCoreAffinityMask
        /\ r.xStateList = k.xStateList
        /\ r.xPendingReadyList = k.xPendingReadyList
        /\ r.xTasksWaitingTermination = k.xTasksWaitingTermination
        /\ \A p \in Levels :
             /\ r.pxReadyTasksLists[p] \in Seq(Thread)
             /\ IsInjective(r.pxReadyTasksLists[p])
             /\ ToSet(r.pxReadyTasksLists[p]) = ToSet(k.pxReadyTasksLists[p]) \ {t}
    <3> HIDE DEF t
    <3> QED BY <1>0, ReadyRemoved DEF ListsKept
  <2>3. level \in Levels /\ (t \in IdleTasks => level = 0)
    BY <1>0 DEF Kernels, ListsKept
  <2> HIDE DEF r, t, level
  <2>4. /\ list \in Seq(Thread) /\ IsInjective(list)
        /\ ToSet(list) = (ToSet(k.pxReadyTasksLists[level]) \ {t}) \cup {t}
    <3>1. t \notin ToSet(r.pxReadyTasksLists[level])
      BY <2>2, <2>3
    <3> QED BY <1>0, <2>2, <2>3, <3>1, AppendList
  <2> HIDE DEF list
  <2>5. /\ lists \in [Levels -> Seq(Thread)] /\ lists[level] = list
        /\ \A p \in Levels : p # level => lists[p] = r.pxReadyTasksLists[p]
    BY <2>2, <2>3, <2>4 DEF Kernels
  <2> HIDE DEF l, lists
  <2>6. l \in Kernels /\ l.pxReadyTasksLists = lists
    BY <2>1, <2>2, <2>5 DEF Kernels
  <2>7. /\ l.pxCurrentTCBs = k.pxCurrentTCBs /\ l.xTaskRunState = k.xTaskRunState
        /\ l.xYieldPendings = k.xYieldPendings /\ l.irq = k.irq
        /\ l.uxPriority = k.uxPriority
        /\ l.uxCoreAffinityMask = k.uxCoreAffinityMask
        /\ l.xStateList = k.xStateList
        /\ l.xPendingReadyList = k.xPendingReadyList
        /\ l.xTasksWaitingTermination = k.xTasksWaitingTermination
    BY <2>1, <2>2 DEF Kernels
  <2>8. ASSUME NEW p \in Levels
        PROVE  /\ IsInjective(lists[p])
               /\ \A u \in ToSet(lists[p]) : u = t \/ u \in ToSet(k.pxReadyTasksLists[p])
               /\ \A u \in ToSet(k.pxReadyTasksLists[p]) : u # t => u \in ToSet(lists[p])
    <3>1. CASE p = level
      BY <2>3, <2>4, <2>5, <3>1
    <3>2. CASE p # level
      BY <2>2, <2>5, <3>2
    <3> QED BY <3>1, <3>2
  <2>9. ASSUME NEW u \in IdleTasks PROVE u \in ToSet(lists[0])
    <3>1. CASE u = t
      BY <2>3, <2>4, <2>5, <3>1
    <3>2. CASE u # t
      BY <1>0, <2>8, <3>2, Numbers DEF ListsKept
    <3> QED BY <3>1, <3>2
  <2>10. ListsKept(l)
    BY <1>0, <1>3, <2>6, <2>7, <2>8, <2>9 DEF ListsKept
  <2>11. Moves(k, l, t, k.xStateList[t])
    BY <1>1, <2>6, <2>7, <2>10 DEF Moves
  <2> QED BY <2>11 DEF l, t
<1> QED BY <1>2, <1>3

\* There is a highest level with a ready task: the idle tasks are ready.
LEMMA TopIsLevel ==
  ASSUME SMPAssumption, NEW k \in Kernels, ListsKept(k)
  PROVE  TopLevel(k) \in Levels
<1> DEFINE ready == {p \in Levels : p <= k.uxTopReadyPriority /\ k.pxReadyTasksLists[p] # << >>}
<1>1. k.uxTopReadyPriority \in Nat /\ Levels \subseteq Nat
  BY Numbers DEF Kernels
<1>2. 0 \in ready
  <2>1. PICK t \in IdleTasks : t \in ToSet(k.pxReadyTasksLists[0])
    BY Numbers DEF ListsKept
  <2>2. k.pxReadyTasksLists[0] # << >>
    BY <2>1 DEF ToSet
  <2> QED BY <1>1, <2>2, Numbers
<1>3. ready \subseteq 0..k.uxTopReadyPriority
  <2>1. ASSUME NEW p \in ready PROVE p \in 0..k.uxTopReadyPriority
    BY <1>1, <2>1
  <2> QED BY <2>1
<1>4. TopLevel(k) = Max(ready)
  <2>1. \A p, q \in ready : q <= p <=> p >= q
    BY <1>1
  <2>2. TopLevel(k) = CHOOSE p \in ready : \A q \in ready : q <= p
    BY DEF TopLevel
  <2>3. Max(ready) \in ready /\ \A q \in ready : q <= Max(ready)
    <3> HIDE DEF ready
    <3> QED BY <1>1, <1>2, <1>3, MaxIsGreatest
  <2> HIDE DEF ready
  <2>4. TopLevel(k) \in ready /\ \A q \in ready : q <= TopLevel(k)
    BY <2>2, <2>3
  <2>5. TopLevel(k) \in Nat /\ Max(ready) \in Nat
    BY <1>1, <2>3, <2>4 DEF ready
  <2> QED BY <2>3, <2>4, <2>5
<1>5. Max(ready) \in ready
  <2> HIDE DEF ready
  <2> QED BY <1>1, <1>2, <1>3, MaxIsGreatest
<1> QED BY <1>4, <1>5

\* Not all idle tasks run on other cores: there are as many as cores.
LEMMA IdleLeft ==
  ASSUME SMPAssumption, NEW k, Sound(k), NEW c \in Core
  PROVE  \E t \in IdleTasks : \/ k.xTaskRunState[t] = taskTASK_NOT_RUNNING
                              \/ t = k.pxCurrentTCBs[c]
<1>1. SUFFICES ASSUME \A t \in IdleTasks : /\ k.xTaskRunState[t] # taskTASK_NOT_RUNNING
                                           /\ t # k.pxCurrentTCBs[c]
               PROVE  FALSE
  OBVIOUS
<1> DEFINE rest == Core \ {c}
           f == [d \in Core |-> CHOOSE e \in rest : k.pxCurrentTCBs[e] = Idle[d]]
<1>2. \A d \in Core : \E e \in rest : k.pxCurrentTCBs[e] = Idle[d]
  BY <1>1, Threads, Numbers DEF Sound, RunsKept
<1>3. \A d \in Core : f[d] \in rest /\ k.pxCurrentTCBs[f[d]] = Idle[d]
  BY <1>2
<1> HIDE DEF f
<1>4. \A d, e \in Core : f[d] = f[e] => d = e
  BY <1>3 DEF SMPAssumption
<1>5. IsFiniteSet(Core) /\ Cardinality(rest) = Cardinality(Core) - 1 /\ Cardinality(Core) \in Nat
  BY Numbers, FS_RemoveElement, FS_CardinalityType
<1>6. IsFiniteSet(rest)
  BY <1>5, FS_Subset
<1>7. Cardinality(Core) <= Cardinality(rest)
  <2> DEFINE g == [d \in Core |-> f[d]]
  <2>1. g \in [Core -> rest] /\ \A d, e \in Core : g[d] = g[e] => d = e
    BY <1>3, <1>4
  <2> HIDE DEF g, rest
  <2>2. g \in Injection(Core, rest)
    BY <2>1 DEF Injection, IsInjective
  <2> QED BY <1>6, <2>2, FS_Injection
<1> QED BY <1>5, <1>7

\* The core finds a ready task that may run on it and that no other core runs.
LEMMA ChosenMayRun ==
  ASSUME SMPAssumption, NEW k, Sound(k), NEW c \in Core
  PROVE  /\ Candidates(k, c) # {}
         /\ Chosen(k, c) \in Thread
         /\ k.xStateList[Chosen(k, c)] = "ready"
         /\ \/ k.xTaskRunState[Chosen(k, c)] = taskTASK_NOT_RUNNING
            \/ Chosen(k, c) = k.pxCurrentTCBs[c]
         /\ c \in k.uxCoreAffinityMask[Chosen(k, c)]
<1> DEFINE levels == Candidates(k, c)
           p == CHOOSE p \in levels : \A q \in levels : q <= p
           list == k.pxReadyTasksLists[p]
           places == {i \in 1..Len(list) : MayRun(k, c, p, list[i])}
<1>1. k \in Kernels /\ ListsKept(k) /\ TopLevel(k) \in Levels /\ TopLevel(k) \in Nat
  BY TopIsLevel, Numbers DEF Sound
<1>2. 0 \in levels
  <2>1. PICK t \in IdleTasks : \/ k.xTaskRunState[t] = taskTASK_NOT_RUNNING
                               \/ t = k.pxCurrentTCBs[c]
    BY IdleLeft
  <2>2. t \in ToSet(k.pxReadyTasksLists[0]) /\ MayRun(k, c, 0, t)
    BY <1>1, <2>1 DEF ListsKept, MayRun
  <2> QED BY <1>1, <2>2, Numbers DEF Candidates
<1>3. levels \subseteq 0..TopLevel(k) /\ levels \subseteq Levels
  BY <1>1, Numbers DEF Candidates
<1>4. \A q \in levels : \E t \in ToSet(k.pxReadyTasksLists[q]) : MayRun(k, c, q, t)
  BY DEF Candidates
<1>5. Chosen(k, c) = list[Min(places)]
  BY DEF Chosen
<1> HIDE DEF levels
<1>6. Max(levels) \in levels /\ \A q \in levels : q <= Max(levels)
  BY <1>1, <1>2, <1>3, MaxIsGreatest
<1>7. p \in levels
  BY <1>6
<1> HIDE DEF p
<1>8. /\ list \in Seq(Thread)
      /\ \E t \in ToSet(list) : MayRun(k, c, p, t)
  BY <1>1, <1>3, <1>4, <1>7 DEF Kernels
<1> HIDE DEF list
<1>9. places # {} /\ places \subseteq Nat
  BY <1>8 DEF ToSet
<1> HIDE DEF places
<1>10. Min(places) \in places
  BY <1>9, MinIsLeast
<1>11. /\ Chosen(k, c) \in ToSet(list) /\ MayRun(k, c, p, Chosen(k, c))
       /\ Chosen(k, c) \in Thread
  <2>1. PICK i \in 1..Len(list) : Chosen(k, c) = list[i] /\ MayRun(k, c, p, list[i])
    BY <1>5, <1>10 DEF places
  <2>2. list[i] \in Thread /\ i \in DOMAIN list
    BY <1>8
  <2>3. Chosen(k, c) \in ToSet(list)
    BY <2>1, <2>2 DEF ToSet
  <2> QED BY <2>1, <2>2, <2>3
<1>12. k.xStateList[Chosen(k, c)] = "ready"
  BY <1>1, <1>3, <1>7, <1>11 DEF list, ListsKept
<1> QED BY <1>2, <1>11, <1>12 DEF levels, MayRun

\* Core c runs t from now on.
Starts(c, k, d) ==
  /\ Sound(d)
  /\ d.pxCurrentTCBs = [k.pxCurrentTCBs EXCEPT ![c] = d.pxCurrentTCBs[c]]
  /\ d.xTaskRunState[d.pxCurrentTCBs[c]] = c
  /\ c \in d.uxCoreAffinityMask[d.pxCurrentTCBs[c]]
  /\ d.uxCoreAffinityMask = k.uxCoreAffinityMask
  /\ d.irq = k.irq /\ d.xYieldPendings = k.xYieldPendings
  /\ d.xStateList = k.xStateList /\ d.xStateList[d.pxCurrentTCBs[c]] = "ready"
  /\ \A e \in Core \ {c} :
       d.xTaskRunState[k.pxCurrentTCBs[e]] = k.xTaskRunState[k.pxCurrentTCBs[e]]

LEMMA DispatchStarts ==
  ASSUME SMPAssumption, NEW k, Sound(k), NEW c \in Core, NEW t \in Thread,
         k.xStateList[t] = "ready",
         k.xTaskRunState[t] = taskTASK_NOT_RUNNING \/ t = k.pxCurrentTCBs[c],
         c \in k.uxCoreAffinityMask[t]
  PROVE  Starts(c, k, Dispatch(k, c, t))
<1> DEFINE d == Dispatch(k, c, t)
           old == k.pxCurrentTCBs[c]
           rs == [k.xTaskRunState EXCEPT ![old] = taskTASK_NOT_RUNNING, ![t] = c]
           cur == [k.pxCurrentTCBs EXCEPT ![c] = t]
<1>1. k \in Kernels /\ ListsKept(k) /\ RunsKept(k) /\ old \in Thread
  BY DEF Sound, Kernels
<1>2. d = [k EXCEPT !.xTaskRunState = rs, !.pxCurrentTCBs = cur]
  BY DEF Dispatch
<1>3. /\ rs \in [Thread -> RunStates] /\ rs[t] = c
      /\ old # t => rs[old] = taskTASK_NOT_RUNNING
      /\ \A u \in Thread : u # old /\ u # t => rs[u] = k.xTaskRunState[u]
  BY <1>1 DEF Kernels, RunStates
<1>4. /\ cur \in [Core -> Thread] /\ cur[c] = t
      /\ \A e \in Core : e # c => cur[e] = k.pxCurrentTCBs[e]
  BY <1>1 DEF Kernels
<1>5. \A e \in Core : e # c => k.pxCurrentTCBs[e] \in Thread /\ k.pxCurrentTCBs[e] # old
                               /\ k.pxCurrentTCBs[e] # t
  BY <1>1, Numbers DEF RunsKept, Kernels
<1>6. cur = [k.pxCurrentTCBs EXCEPT ![c] = t]
  OBVIOUS
<1> HIDE DEF d, rs, cur
<1>7. d \in Kernels /\ d.xTaskRunState = rs /\ d.pxCurrentTCBs = cur
  BY <1>1, <1>2, <1>3, <1>4 DEF Kernels
<1>8. /\ d.pxReadyTasksLists = k.pxReadyTasksLists
      /\ d.xYieldPendings = k.xYieldPendings /\ d.irq = k.irq
      /\ d.uxPriority = k.uxPriority
      /\ d.uxCoreAffinityMask = k.uxCoreAffinityMask
      /\ d.xStateList = k.xStateList
      /\ d.xPendingReadyList = k.xPendingReadyList
      /\ d.xTasksWaitingTermination = k.xTasksWaitingTermination
  BY <1>1, <1>2 DEF Kernels
<1>9. ListsKept(d)
  BY <1>1, <1>8 DEF ListsKept
<1> HIDE DEF old
<1>10. \A e \in Core : e # c => rs[k.pxCurrentTCBs[e]] = k.xTaskRunState[k.pxCurrentTCBs[e]]
  BY <1>3, <1>5
<1>11. RunsKept(d)
  <2>1. \A e \in Core : rs[cur[e]] \in {e, taskTASK_SCHEDULED_TO_YIELD}
    BY <1>1, <1>3, <1>4, <1>10 DEF RunsKept
  <2>2. \A e, f \in Core : cur[e] = cur[f] => e = f
    BY <1>1, <1>4, <1>5 DEF RunsKept
  <2>3. ASSUME NEW u \in Thread, rs[u] # taskTASK_NOT_RUNNING
        PROVE  k.xStateList[u] # "none" /\ \E e \in Core : cur[e] = u
    <3>1. CASE u = t
      BY <1>4, <3>1
    <3>2. CASE u # t
      <4>1. u # old /\ k.xTaskRunState[u] # taskTASK_NOT_RUNNING
        BY <1>3, <2>3, <3>2
      <4>2. PICK e \in Core : k.pxCurrentTCBs[e] = u /\ k.xStateList[u] # "none"
        BY <1>1, <4>1 DEF RunsKept
      <4>3. e # c
        BY <4>1, <4>2 DEF old
      <4> QED BY <1>4, <4>2, <4>3
    <3> QED BY <3>1, <3>2
  <2> QED BY <1>7, <1>8, <2>1, <2>2, <2>3 DEF RunsKept
<1>12. Starts(c, k, d)
  BY <1>3, <1>4, <1>6, <1>7, <1>8, <1>9, <1>10, <1>11 DEF Starts, Sound
<1> QED BY <1>12 DEF d

\* prvSelectHighestPriorityTask
LEMMA SelectStarts ==
  ASSUME SMPAssumption, NEW k, Sound(k), NEW c \in Core
  PROVE  \E d \in Kernels : /\ Starts(c, k, d)
                            /\ prvSelectHighestPriorityTask(k, c) \in Reach(c, d)
<1> DEFINE old == k.pxCurrentTCBs[c]
           r == Requeue(k, c)
           found == [r EXCEPT !.uxTopReadyPriority = TopLevel(r)]
           t == Chosen(r, c)
           d == Dispatch(found, c, t)
           dropped == TopLevel(r) < k.uxTopReadyPriority
           woken == WakeIdleCores(d, c, dropped)
           lower == {e \in MayTakeOver(woken, c, old) :
                       Preemptible(woken, e) /\ CorePriority(woken, e) < PriorityOf(woken, old)}
           l == PassOn(woken, c, old)
<1>1. Moves(k, r, old, k.xStateList[old])
  BY RequeueMoves
<1>2. /\ k \in Kernels /\ RunsKept(k) /\ old \in Thread
      /\ k.xStateList = [k.xStateList EXCEPT ![old] = k.xStateList[old]]
  BY DEF Sound, Kernels
<1> HIDE DEF r, old
<1>3. /\ r \in Kernels /\ ListsKept(r)
      /\ r.pxCurrentTCBs = k.pxCurrentTCBs /\ r.xTaskRunState = k.xTaskRunState
      /\ r.xYieldPendings = k.xYieldPendings /\ r.irq = k.irq
      /\ r.uxCoreAffinityMask = k.uxCoreAffinityMask
      /\ r.xStateList = k.xStateList
  BY <1>1, <1>2 DEF Moves
<1>4. RunsKept(r)
  BY <1>2, <1>3 DEF RunsKept
<1>5. Sound(r)
  BY <1>3, <1>4 DEF Sound
<1>6. /\ Candidates(r, c) # {} /\ t \in Thread /\ r.xStateList[t] = "ready"
      /\ r.xTaskRunState[t] = taskTASK_NOT_RUNNING \/ t = r.pxCurrentTCBs[c]
      /\ c \in r.uxCoreAffinityMask[t]
  BY <1>5, ChosenMayRun
<1>7. prvSelectHighestPriorityTask(k, c) = l
  BY <1>6 DEF prvSelectHighestPriorityTask, r, old
<1>8. TopLevel(r) \in Levels
  BY <1>3, TopIsLevel
<1> HIDE DEF t
<1>9. /\ found \in Kernels
      /\ found.pxReadyTasksLists = r.pxReadyTasksLists
      /\ found.pxCurrentTCBs = r.pxCurrentTCBs /\ found.xTaskRunState = r.xTaskRunState
      /\ found.xYieldPendings = r.xYieldPendings /\ found.irq = r.irq
      /\ found.uxPriority = r.uxPriority
      /\ found.uxCoreAffinityMask = r.uxCoreAffinityMask
      /\ found.xStateList = r.xStateList
      /\ found.xPendingReadyList = r.xPendingReadyList
      /\ found.xTasksWaitingTermination = r.xTasksWaitingTermination
  BY <1>3, <1>8 DEF Kernels
<1> HIDE DEF found
<1>10. ListsKept(found)
  BY <1>3, <1>9 DEF ListsKept
<1>11. RunsKept(found)
  BY <1>4, <1>9 DEF RunsKept
<1>12. Sound(found)
  BY <1>9, <1>10, <1>11 DEF Sound
<1>13. Starts(c, found, d)
  BY <1>6, <1>9, <1>12, DispatchStarts
<1> HIDE DEF d
<1>14. Starts(c, k, d)
  BY <1>3, <1>9, <1>13 DEF Starts
<1>15. Sound(d) /\ d \in Kernels
  BY <1>14 DEF Starts, Sound
<1>16. woken \in Reach(c, d)
  <2> DEFINE S == {e \in Core : d.pxCurrentTCBs[e] \in IdleTasks}
  <2>1. S \in SUBSET Core
    OBVIOUS
  <2>2. woken \in {d, YieldCores(d, c, S)}
    BY DEF WakeIdleCores
  <2> HIDE DEF S
  <2> QED BY <1>15, <2>1, <2>2, YieldReaches, ReachesItself
<1> HIDE DEF woken
<1>17. Sound(woken) /\ woken \in Kernels
  BY <1>16 DEF Reach, Keeps
<1>18. lower \in SUBSET Core
  BY <1>2, <1>17 DEF MayTakeOver, Kernels
<1>19. \/ l = woken
       \/ lower # {} /\ l = prvYieldCore(woken, c, LowestCore(woken, lower))
  BY DEF PassOn
<1> HIDE DEF lower, l
<1>20. l \in Reach(c, woken)
  <2>1. CASE l = woken
    BY <1>17, <2>1, ReachesItself
  <2>2. CASE lower # {} /\ l = prvYieldCore(woken, c, LowestCore(woken, lower))
    <3>1. {LowestCore(woken, lower)} \in SUBSET Core
      BY <1>17, <1>18, <2>2, LowestIsOne
    <3> QED BY <1>17, <2>2, <3>1, YieldReaches DEF prvYieldCore
  <2> QED BY <1>19, <2>1, <2>2
<1>21. l \in Reach(c, d)
  BY <1>15, <1>16, <1>20, ReachesOn
<1> QED BY <1>7, <1>14, <1>15, <1>21
-----------------------------------------------------------------------------
(* The invariant holds at first.                                             *)

\* The tasks that wake are workers, and not deleted.
LEMMA WakingsOfWorkers ==
  ASSUME SMPAssumption, NEW k, Sound(k), NEW W \in Wakings(k)
  PROVE  W \in Seq(Worker) /\ \A i \in 1..Len(W) : k.xStateList[W[i]] # "termination"
<1>1. \A t \in Delayed(k) : t \in Worker /\ k.xStateList[t] # "termination"
  <2>1. \A t \in IdleTasks : k.xStateList[t] = "ready"
    BY Numbers DEF Sound, ListsKept
  <2> QED BY <2>1 DEF Delayed, Thread
<1>2. Cardinality(Delayed(k)) \in Nat
  <2>1. IsFiniteSet(Delayed(k))
    BY <1>1, FS_Subset DEF SMPAssumption
  <2> QED BY <2>1, FS_CardinalityType
<1>3. PICK n \in 0..Cardinality(Delayed(k)) : W \in [1..n -> Delayed(k)]
  BY DEF Wakings
<1>4. n \in Nat
  BY <1>2, <1>3
<1>5. W \in Seq(Worker) /\ Len(W) = n
  BY <1>1, <1>3, <1>4
<1> QED BY <1>1, <1>3, <1>5

\* The idle tasks in an order.
LEMMA IdleListed ==
  ASSUME SMPAssumption
  PROVE  /\ SetToSeq(IdleTasks) \in Seq(IdleTasks) /\ IsInjective(SetToSeq(IdleTasks))
         /\ \A t \in IdleTasks : t \in ToSet(SetToSeq(IdleTasks))
<1> DEFINE n == Cardinality(IdleTasks)
           list == SetToSeq(IdleTasks)
<1>1. IsFiniteSet(IdleTasks)
  <2>1. Idle \in Surjection(Core, IdleTasks)
    <3>1. Idle \in [Core -> IdleTasks]
      BY DEF SMPAssumption
    <3>2. \A t \in IdleTasks : \E c \in Core : Idle[c] = t
      BY DEF IdleTasks
    <3> QED BY <3>1, <3>2 DEF Surjection
  <2>2. IsFiniteSet(Core)
    BY Numbers
  <2> QED BY <2>1, <2>2, FS_Surjection
<1>2. n \in Nat
  BY <1>1, FS_CardinalityType
<1>3. IsFiniteSet(1..n) /\ Cardinality(1..n) = n
  BY <1>2, FS_Interval
<1>4. ExistsBijection(1..n, IdleTasks)
  BY <1>1, <1>3, FS_SameCardinalityBij
<1>5. \E f \in [1..n -> IdleTasks] : IsInjective(f)
  BY <1>4 DEF ExistsBijection, Bijection, Injection
<1>6. list \in [1..n -> IdleTasks] /\ IsInjective(list)
  BY <1>5 DEF SetToSeq
<1> HIDE DEF list
<1>7. list \in Injection(1..n, IdleTasks)
  BY <1>6 DEF Injection
<1>8. list \in Surjection(1..n, IdleTasks)
  BY <1>1, <1>3, <1>7, FS_Injection
<1>9. \A t \in IdleTasks : t \in ToSet(list)
  BY <1>6, <1>8 DEF Surjection, ToSet
<1>10. list \in Seq(IdleTasks)
  BY <1>2, <1>6
<1> QED BY <1>6, <1>9, <1>10 DEF list

LEMMA InitInv ==
  ASSUME SMPAssumption, Init
  PROVE  Inv
<1> DEFINE k == kernel
<1>1. /\ \A p \in Levels : k.pxReadyTasksLists[p] = IF p = 0 THEN SetToSeq(IdleTasks) ELSE << >>
      /\ k.uxTopReadyPriority = 0 /\ k.pxCurrentTCBs = Idle
      /\ \A t \in Thread : k.xTaskRunState[t] = IF t \in Worker THEN taskTASK_NOT_RUNNING
                                                ELSE CHOOSE c \in Core : Idle[c] = t
      /\ \A c \in Core : ~k.xYieldPendings[c] /\ ~k.irq[c]
      /\ \A t \in Thread : /\ k.uxPriority[t] = 0 /\ k.uxCoreAffinityMask[t] = Core
                           /\ ~k.xPreemptionDisable[t]
                           /\ k.xStateList[t] = IF t \in Worker THEN "none" ELSE "ready"
      /\ k.xPendingReadyList = << >> /\ k.xTasksWaitingTermination = << >>
  BY DEF Init
<1>2. \A t \in IdleTasks : t \in Thread /\ t \notin Worker /\ \E c \in Core : Idle[c] = t
  BY Threads DEF IdleTasks
<1>3. \A t \in Thread : t \in Worker \/ t \in IdleTasks
  BY DEF Thread
<1>4. \A c \in Core : /\ Idle[c] \in IdleTasks
                      /\ k.xTaskRunState[Idle[c]] = c
  <2> TAKE c \in Core
  <2>1. (CHOOSE d \in Core : Idle[d] = Idle[c]) = c
    BY DEF SMPAssumption
  <2>2. Idle[c] \in IdleTasks
    BY DEF IdleTasks
  <2> QED BY <1>1, <1>2, <2>1, <2>2
<1>5. k \in Kernels
  <2>1. \A p \in Levels : k.pxReadyTasksLists[p] \in Seq(Thread)
    <3>1. SetToSeq(IdleTasks) \in Seq(Thread)
      BY IdleListed, <1>2
    <3>2. << >> \in Seq(Thread)
      OBVIOUS
    <3> QED BY <1>1, <3>1, <3>2
  <2>2. \A t \in Thread : k.xTaskRunState[t] \in RunStates
    BY <1>1, <1>2, <1>3 DEF RunStates
  <2>3. k.pxReadyTasksLists \in [Levels -> Seq(Thread)]
    <3>1. k.pxReadyTasksLists = [p \in Levels |-> k.pxReadyTasksLists[p]]
      BY DEF Init
    <3> HIDE DEF k
    <3> QED BY <2>1, <3>1
  <2>4. k.xTaskRunState \in [Thread -> RunStates]
    <3>1. k.xTaskRunState = [t \in Thread |-> k.xTaskRunState[t]]
      BY DEF Init
    <3> HIDE DEF k
    <3> QED BY <2>2, <3>1
  <2>5. /\ Idle \in [Core -> Thread] /\ 0 \in Levels
        /\ << >> \in Seq(Worker)
    BY <1>2, Numbers DEF SMPAssumption
  <2> DEFINE lists == [p \in Levels |-> IF p = 0 THEN SetToSeq(IdleTasks) ELSE << >>]
             states == [t \in Thread |-> IF t \in Worker THEN taskTASK_NOT_RUNNING
                                         ELSE CHOOSE c \in Core : Idle[c] = t]
  <2>6. k = [pxReadyTasksLists |-> lists,
             uxTopReadyPriority |-> 0,
             pxCurrentTCBs |-> Idle,
             xTaskRunState |-> states,
             xYieldPendings |-> [c \in Core |-> FALSE],
             irq |-> [c \in Core |-> FALSE],
             uxPriority |-> [t \in Thread |-> 0],
             uxCoreAffinityMask |-> [t \in Thread |-> Core],
             xPreemptionDisable |-> [t \in Thread |-> FALSE],
             xStateList |-> [t \in Thread |-> IF t \in Worker THEN "none" ELSE "ready"],
             xPendingReadyList |-> << >>,
             xTasksWaitingTermination |-> << >>]
    BY DEF Init
  <2> HIDE DEF k, lists, states
  <2>7. k.pxReadyTasksLists = lists /\ k.xTaskRunState = states
    BY <2>6
  <2> QED BY <2>3, <2>4, <2>5, <2>6, <2>7 DEF Kernels, StateLists
<1> HIDE DEF k
<1>6. ListsKept(k)
  <2>1. IsInjective(<< >>) /\ ToSet(<< >>) = {}
    BY DEF IsInjective, ToSet
  <2>2. \A t \in ToSet(SetToSeq(IdleTasks)) : t \in IdleTasks
    BY IdleListed DEF ToSet
  <2> QED BY <1>1, <1>2, <2>1, <2>2, IdleListed, Numbers DEF ListsKept
<1>7. RunsKept(k)
  <2>1. \A t \in Thread : k.xTaskRunState[t] # taskTASK_NOT_RUNNING =>
          k.xStateList[t] # "none" /\ \E c \in Core : k.pxCurrentTCBs[c] = t
    BY <1>1, <1>2, <1>3
  <2>2. \A c, d \in Core : Idle[c] = Idle[d] => c = d
    BY DEF SMPAssumption
  <2> QED BY <1>1, <1>4, <2>1, <2>2 DEF RunsKept
<1>8. Sound(kernel)
  BY <1>5, <1>6, <1>7 DEF Sound, k
<1>9. \A c \in Core : CoreKept(c)
  <2> TAKE c \in Core
  <2>1. Current(c) = Idle[c] /\ Idle[c] \in Thread /\ Idle[c] \notin Worker
    BY <1>1, <1>2, <1>4 DEF Current, k
  <2>2. /\ kernel.xTaskRunState[Current(c)] = c /\ kernel.uxCoreAffinityMask[Current(c)] = Core
        /\ kernel.xStateList[Current(c)] = "ready"
    BY <1>1, <1>4, <2>1 DEF k
  <2>3. uxSchedulerSuspended # c
    BY DEF Init, SMPAssumption
  <2> QED BY <2>2, <2>3, Numbers DEF CoreKept
<1>10. /\ uxSchedulerSuspended \in Core \cup {NoCore} /\ xPendedTicks \in 0..MaxPendedTicks
       /\ pc \in [Thread -> {"app", "yield", "resume"}]
  BY DEF Init, SMPAssumption
<1> QED BY <1>8, <1>9, <1>10 DEF Inv
-----------------------------------------------------------------------------
(* The steps.                                                                *)

\* A critical section that keeps the kernel keeps the invariant, if no task
\* forgets that it is about to yield.
LEMMA SectionKeeps ==
  ASSUME SMPAssumption, Inv, NEW c \in Core, Keeps(c, kernel, kernel'),
         uxSchedulerSuspended' \in Core \cup {NoCore},
         xPendedTicks' \in 0..MaxPendedTicks,
         pc' \in [Thread -> {"app", "yield", "resume"}],
         \A d \in Core : pc[Current(d)] = "yield" => pc'[Current(d)] = "yield",
         \A d \in Core : uxSchedulerSuspended = d =>
           uxSchedulerSuspended' = d \/ pc'[Current(d)] = "yield",
         \A d \in Core : uxSchedulerSuspended' = d => pc'[Current(d)] = "resume",
         \/ pc'[Current(c)] = "yield"
         \/ ~kernel'.xYieldPendings[c]
         \/ \A t \in Thread :
              kernel'.xStateList[t] = "termination" => kernel.xStateList[t] = "termination"
  PROVE  Inv'
<1>1. /\ Sound(kernel) /\ kernel \in Kernels /\ RunsKept(kernel)
      /\ \A d \in Core : CoreKept(d) /\ Current(d) \in Thread
  BY DEF Inv, Sound, Kernels, Current
<1>2. /\ Sound(kernel') /\ kernel'.pxCurrentTCBs = kernel.pxCurrentTCBs
      /\ \A d \in Core : Current(d)' = Current(d)
  BY DEF Keeps, Current
<1>3. ASSUME NEW d \in Core PROVE CoreKept(d)'
  <2>1. /\ kernel.irq[d] => kernel'.irq[d]
        /\ kernel.xYieldPendings[d] => kernel'.xYieldPendings[d]
        /\ \/ d \in kernel'.uxCoreAffinityMask[Current(d)]
           \/ kernel'.irq[d] \/ kernel'.xYieldPendings[d]
           \/ d \notin kernel.uxCoreAffinityMask[Current(d)]
           \/ kernel.xTaskRunState[Current(d)] = taskTASK_SCHEDULED_TO_YIELD
        /\ kernel'.xStateList[Current(d)] = "termination" =>
             \/ kernel.xStateList[Current(d)] = "termination"
             \/ kernel'.xTaskRunState[Current(d)] = taskTASK_SCHEDULED_TO_YIELD
             \/ d = c /\ kernel'.xYieldPendings[d]
    BY DEF Keeps, Current
  <2>2. \/ kernel'.xTaskRunState[Current(d)] = kernel.xTaskRunState[Current(d)]
        \/ /\ kernel'.xTaskRunState[Current(d)] = taskTASK_SCHEDULED_TO_YIELD
           /\ kernel'.irq[d]
    <3>1. \A e \in Core : kernel.pxCurrentTCBs[e] = Current(d) => e = d
      BY <1>1 DEF RunsKept, Current
    <3> QED BY <1>1, <3>1 DEF Keeps
  <2>3. kernel'.xTaskRunState[Current(d)] = taskTASK_SCHEDULED_TO_YIELD =>
          \/ kernel'.irq[d] \/ pc'[Current(d)] = "yield"
          \/ uxSchedulerSuspended' = d /\ kernel'.xYieldPendings[d]
    BY <1>1, <2>1, <2>2 DEF CoreKept
  <2>4. \/ d \in kernel'.uxCoreAffinityMask[Current(d)]
        \/ kernel'.irq[d] \/ kernel'.xYieldPendings[d] \/ pc'[Current(d)] = "yield"
    BY <1>1, <2>1 DEF CoreKept
  <2>5. kernel'.xStateList[Current(d)] = "termination" =>
          \/ kernel'.xTaskRunState[Current(d)] = taskTASK_SCHEDULED_TO_YIELD
          \/ pc'[Current(d)] = "yield"
    BY <1>1, <2>1, <2>2 DEF CoreKept
  <2> QED BY <1>2, <2>3, <2>4, <2>5 DEF CoreKept
<1> QED BY <1>2, <1>3 DEF Inv

\* A core leaves a critical section.
LEMMA ExitKeeps ==
  ASSUME SMPAssumption, Inv, NEW c \in Core, Enters(c), NEW k, Keeps(c, kernel, k),
         Exits(c, k), UNCHANGED suspension
  PROVE  Inv'
<1>1. /\ kernel' = k /\ pc \in [Thread -> {"app", "yield", "resume"}]
      /\ pc' = [pc EXCEPT ![Current(c)] = IF k.xYieldPendings[c] THEN "yield" ELSE "app"]
      /\ pc[Current(c)] = "app" /\ \A d \in Core : Current(d) \in Thread
      /\ uxSchedulerSuspended' = uxSchedulerSuspended /\ xPendedTicks' = xPendedTicks
      /\ uxSchedulerSuspended \in Core \cup {NoCore} /\ xPendedTicks \in 0..MaxPendedTicks
  BY DEF Exits, Enters, Inv, Sound, Kernels, Current, suspension
<1>2. /\ pc' \in [Thread -> {"app", "yield", "resume"}]
      /\ \A d \in Core : pc[Current(d)] = "yield" => pc'[Current(d)] = "yield"
      /\ k.xYieldPendings[c] => pc'[Current(c)] = "yield"
  BY <1>1
<1>3. \A d \in Core : uxSchedulerSuspended # d
  BY DEF Enters, SMPAssumption
<1> QED BY <1>1, <1>2, <1>3, SectionKeeps

\* An interrupt on a core ends.
LEMMA InterruptKeeps ==
  ASSUME SMPAssumption, Inv, NEW c \in Core, NEW k \in Reach(c, kernel), NEW b \in BOOLEAN,
         kernel' = [k EXCEPT !.irq[c] = @ \/ b], UNCHANGED pc, UNCHANGED suspension
  PROVE  Inv'
<1>1. Sound(k) /\ Sound(kernel)
  BY DEF Reach, Keeps, Inv
<1>2. kernel' \in Reach(c, k)
  BY <1>1, NotedReaches
<1>3. kernel' \in Reach(c, kernel)
  BY <1>1, <1>2, ReachesOn
<1>4. Keeps(c, kernel, kernel') /\ \A t \in Thread :
        kernel'.xStateList[t] = "termination" => kernel.xStateList[t] = "termination"
  BY <1>3 DEF Reach
<1>5. \A d \in Core : uxSchedulerSuspended = d => pc[Current(d)] = "resume"
  BY DEF Inv, CoreKept
<1> QED BY <1>4, <1>5, SectionKeeps DEF Inv, suspension

\* What a worker that is not deleted may be.
LEMMA AliveWorker ==
  ASSUME SMPAssumption, Inv, NEW t \in Worker, kernel.xStateList[t] # "termination"
  PROVE  /\ Sound(kernel) /\ kernel \in Kernels /\ ListsKept(kernel) /\ RunsKept(kernel)
         /\ t \in Thread /\ t \notin IdleTasks
         /\ t \notin ToSet(kernel.xTasksWaitingTermination)
         /\ kernel.xTaskRunState[t] \in RunStates
         /\ kernel.xTaskRunState[t] \in Core =>
              kernel.pxCurrentTCBs[kernel.xTaskRunState[t]] = t
         /\ \A d \in Core : kernel.pxCurrentTCBs[d] = t =>
              kernel.xTaskRunState[t] \in {d, taskTASK_SCHEDULED_TO_YIELD}
<1>1. Sound(kernel) /\ kernel \in Kernels /\ ListsKept(kernel) /\ RunsKept(kernel)
  BY DEF Inv, Sound
<1>2. t \in Thread /\ t \notin IdleTasks /\ kernel.xTaskRunState[t] \in RunStates
  BY <1>1, Threads DEF Kernels
<1>3. t \notin ToSet(kernel.xTasksWaitingTermination)
  BY <1>1, NotListed
<1>4. kernel.xTaskRunState[t] \in Core =>
        kernel.pxCurrentTCBs[kernel.xTaskRunState[t]] = t
  BY <1>1, <1>2, Numbers DEF RunsKept
<1>5. \A d \in Core : kernel.pxCurrentTCBs[d] = t =>
        kernel.xTaskRunState[t] \in {d, taskTASK_SCHEDULED_TO_YIELD}
  BY <1>1 DEF RunsKept
<1> QED BY <1>1, <1>2, <1>3, <1>4, <1>5

LEMMA SuspendKeeps ==
  ASSUME SMPAssumption, Inv, NEW c \in Core, NEW t \in Worker, vTaskSuspend(c, t)
  PROVE  Inv'
<1> DEFINE k == MoveTo(kernel, t, "suspended")
           l == IF Running(k, t) THEN prvYieldCore(k, c, k.xTaskRunState[t]) ELSE k
<1>1. /\ Enters(c) /\ kernel.xStateList[t] # "termination" /\ Exits(c, l)
      /\ UNCHANGED suspension
  BY DEF vTaskSuspend, Calls, Alive
<1>2. Sound(kernel) /\ kernel \in Kernels /\ ListsKept(kernel)
      /\ t \notin ToSet(kernel.xTasksWaitingTermination) /\ "suspended" \in StateLists
  BY <1>1, AliveWorker DEF StateLists
<1>3. Moves(kernel, k, t, "suspended")
  BY <1>2, MovedTo
<1> HIDE DEF k
<1>4. k \in Reach(c, kernel)
  BY <1>2, <1>3, MovesReach
<1>5. Sound(k)
  BY <1>4 DEF Reach, Keeps
<1>6. l \in Reach(c, k)
  <2>1. CASE Running(k, t)
    <3>1. {k.xTaskRunState[t]} \in SUBSET Core
      BY <2>1 DEF Running
    <3> QED BY <1>5, <2>1, <3>1, YieldReaches DEF prvYieldCore
  <2>2. CASE ~Running(k, t)
    BY <1>5, <2>2, ReachesItself
  <2> QED BY <2>1, <2>2
<1> HIDE DEF l
<1>7. Keeps(c, kernel, l)
  BY <1>2, <1>4, <1>6, ReachesOn DEF Reach
<1> QED BY <1>1, <1>7, ExitKeeps

LEMMA ResumeKeeps ==
  ASSUME SMPAssumption, Inv, NEW c \in Core, NEW t \in Worker, vTaskResume(c, t)
  PROVE  Inv'
<1>1. /\ Enters(c) /\ kernel.xStateList[t] # "termination" /\ Exits(c, Unblock(kernel, c, t))
      /\ UNCHANGED suspension
  BY DEF vTaskResume, Calls, prvTaskIsTaskSuspended
<1>2. Sound(kernel)
  BY DEF Inv
<1>3. Keeps(c, kernel, Unblock(kernel, c, t))
  BY <1>1, <1>2, UnblockReaches DEF Reach
<1> QED BY <1>1, <1>3, ExitKeeps

LEMMA ResumeFromISRKeeps ==
  ASSUME SMPAssumption, Inv, NEW c \in Core, NEW t \in Worker, xTaskResumeFromISR(c, t)
  PROVE  Inv'
<1> DEFINE p == [kernel EXCEPT !.xPendingReadyList = Append(@, t)]
           l == IF uxSchedulerSuspended = NoCore THEN Unblock(kernel, c, t)
                ELSE prvYieldForTask(p, c, t)
<1>1. /\ kernel.xStateList[t] = "suspended" /\ ~Contains(kernel.xPendingReadyList, t)
      /\ kernel' = [l EXCEPT !.irq[c] = @ \/ l.xYieldPendings[c]]
      /\ UNCHANGED pc /\ UNCHANGED suspension
  BY DEF xTaskResumeFromISR, prvTaskIsTaskSuspended, ReturnsFromISR
<1>2. Sound(kernel) /\ kernel \in Kernels /\ ListsKept(kernel) /\ t \in Thread
  BY <1>1, AliveWorker
<1>3. Unblock(kernel, c, t) \in Reach(c, kernel)
  BY <1>1, <1>2, UnblockReaches
<1>4. prvYieldForTask(p, c, t) \in Reach(c, kernel)
  <2> DEFINE list == Append(kernel.xPendingReadyList, t)
  <2>1. /\ list \in Seq(Worker) /\ IsInjective(list)
        /\ ToSet(list) = ToSet(kernel.xPendingReadyList) \cup {t}
    <3>1. kernel.xPendingReadyList \in Seq(Worker) /\ IsInjective(kernel.xPendingReadyList)
      BY <1>2 DEF Kernels, ListsKept
    <3>2. t \notin ToSet(kernel.xPendingReadyList)
      BY <1>1, <3>1 DEF Contains, ToSet
    <3> QED BY <3>1, <3>2, AppendList
  <2> HIDE DEF list
  <2>2. p = [kernel EXCEPT !.xPendingReadyList = list]
    BY DEF list
  <2> HIDE DEF p
  <2>3. p \in Kernels /\ p.xPendingReadyList = list
    BY <1>2, <2>1, <2>2 DEF Kernels
  <2>4. /\ p.pxReadyTasksLists = kernel.pxReadyTasksLists
        /\ p.pxCurrentTCBs = kernel.pxCurrentTCBs /\ p.xTaskRunState = kernel.xTaskRunState
        /\ p.xYieldPendings = kernel.xYieldPendings /\ p.irq = kernel.irq
        /\ p.uxPriority = kernel.uxPriority
        /\ p.uxCoreAffinityMask = kernel.uxCoreAffinityMask
        /\ p.xStateList = kernel.xStateList
        /\ p.xTasksWaitingTermination = kernel.xTasksWaitingTermination
    BY <1>2, <2>2 DEF Kernels
  <2>5. ListsKept(p)
    BY <1>1, <1>2, <2>1, <2>3, <2>4 DEF ListsKept
  <2>6. p.xStateList = [kernel.xStateList EXCEPT ![t] = "suspended"]
    BY <1>1, <1>2, <2>4 DEF Kernels
  <2>7. Moves(kernel, p, t, "suspended")
    BY <2>3, <2>4, <2>5, <2>6 DEF Moves
  <2>8. p \in Reach(c, kernel)
    BY <1>2, <2>7, MovesReach
  <2>9. Sound(p)
    BY <2>8 DEF Reach, Keeps
  <2>10. prvYieldForTask(p, c, t) \in Reach(c, p)
    BY <1>2, <2>9, YieldForTaskReaches
  <2> QED BY <1>2, <2>8, <2>10, ReachesOn
<1>5. l \in Reach(c, kernel)
  BY <1>3, <1>4
<1> HIDE DEF l
<1>6. l.xYieldPendings[c] \in BOOLEAN
  BY <1>5 DEF Reach, Kernels
<1> QED BY <1>1, <1>5, <1>6, InterruptKeeps
-----------------------------------------------------------------------------
(* What is set of a task.                                                    *)

\* l is k, but for priorities, masks and whether tasks may be preempted.
Sets(k, l) ==
  /\ l \in Kernels
  /\ l.pxReadyTasksLists = k.pxReadyTasksLists
  /\ l.pxCurrentTCBs = k.pxCurrentTCBs /\ l.xTaskRunState = k.xTaskRunState
  /\ l.xYieldPendings = k.xYieldPendings /\ l.irq = k.irq
  /\ l.xStateList = k.xStateList
  /\ l.xPendingReadyList = k.xPendingReadyList
  /\ l.xTasksWaitingTermination = k.xTasksWaitingTermination
  /\ \A t \in IdleTasks : /\ l.uxPriority[t] = k.uxPriority[t]
                          /\ l.uxCoreAffinityMask[t] = k.uxCoreAffinityMask[t]

LEMMA SetsSound ==
  ASSUME NEW k, Sound(k), NEW l, Sets(k, l)
  PROVE  Sound(l)
<1>1. ListsKept(l)
  BY DEF Sets, Sound, ListsKept
<1>2. RunsKept(l)
  BY DEF Sets, Sound, RunsKept
<1> QED BY <1>1, <1>2 DEF Sound, Sets

LEMMA SetsReach ==
  ASSUME NEW self, NEW k, Sound(k), NEW l, Sets(k, l),
         \A c \in Core :
           \/ c \in l.uxCoreAffinityMask[k.pxCurrentTCBs[c]]
           \/ c \notin k.uxCoreAffinityMask[k.pxCurrentTCBs[c]]
           \/ k.xTaskRunState[k.pxCurrentTCBs[c]] = taskTASK_SCHEDULED_TO_YIELD
  PROVE  l \in Reach(self, k)
<1>1. Sound(l)
  BY SetsSound
<1>2. \A c \in Core : k.pxCurrentTCBs[c] \in Thread
  BY DEF Sound, Kernels
<1>3. Keeps(self, k, l)
  BY <1>1, <1>2 DEF Keeps, Sets
<1> QED BY <1>3 DEF Reach, Sets

LEMMA PrioritySetKeeps ==
  ASSUME SMPAssumption, Inv, NEW c \in Core, NEW t \in Worker, NEW p \in Priorities,
         vTaskPrioritySet(c, t, p)
  PROVE  Inv'
<1> DEFINE ready == kernel.xStateList[t] = "ready"
           raised == p > kernel.uxPriority[t]
           k == [kernel EXCEPT !.uxPriority[t] = p]
           r == RemoveReady(k, t)
           moved == IF ready THEN prvAddTaskToReadyList(r, t) ELSE k
           l == IF ~raised /\ Running(k, t) /\ ~k.xPreemptionDisable[t]
                THEN prvYieldCore(moved, c, k.xTaskRunState[t])
                ELSE IF raised /\ ready THEN prvYieldForTask(moved, c, t)
                ELSE moved
<1>1. /\ Enters(c) /\ kernel.xStateList[t] # "termination" /\ Exits(c, l)
      /\ UNCHANGED suspension
  BY DEF vTaskPrioritySet, Calls, Alive
<1>2. /\ Sound(kernel) /\ kernel \in Kernels /\ ListsKept(kernel)
      /\ t \in Thread /\ t \notin IdleTasks
      /\ t \notin ToSet(kernel.xTasksWaitingTermination)
  BY <1>1, AliveWorker
<1>3. Sets(kernel, k)
  <2> DEFINE priority == [kernel.uxPriority EXCEPT ![t] = p]
  <2>1. /\ priority \in [Thread -> Levels]
        /\ \A u \in IdleTasks : priority[u] = kernel.uxPriority[u]
    BY <1>2, Threads DEF Kernels, Levels
  <2>2. k = [kernel EXCEPT !.uxPriority = priority]
    OBVIOUS
  <2> HIDE DEF priority, k
  <2>3. k \in Kernels /\ k.uxPriority = priority
    BY <1>2, <2>1, <2>2 DEF Kernels
  <2>4. /\ k.pxReadyTasksLists = kernel.pxReadyTasksLists
        /\ k.pxCurrentTCBs = kernel.pxCurrentTCBs /\ k.xTaskRunState = kernel.xTaskRunState
        /\ k.xYieldPendings = kernel.xYieldPendings /\ k.irq = kernel.irq
        /\ k.uxCoreAffinityMask = kernel.uxCoreAffinityMask
        /\ k.xStateList = kernel.xStateList
        /\ k.xPendingReadyList = kernel.xPendingReadyList
        /\ k.xTasksWaitingTermination = kernel.xTasksWaitingTermination
    BY <1>2, <2>2 DEF Kernels
  <2> QED BY <2>1, <2>3, <2>4 DEF Sets
<1>4. k.uxCoreAffinityMask = kernel.uxCoreAffinityMask
  BY <1>2 DEF Kernels
<1> HIDE DEF k
<1>5. k \in Reach(c, kernel)
  BY <1>2, <1>3, <1>4, SetsReach
<1>6. Sound(k) /\ k \in Kernels /\ ListsKept(k) /\ k.xStateList = kernel.xStateList
      /\ k.xTasksWaitingTermination = kernel.xTasksWaitingTermination
  BY <1>3, <1>5 DEF Reach, Keeps, Sound, Sets
<1>7. moved \in Reach(c, k)
  <2>1. CASE ~ready
    BY <1>6, <2>1, ReachesItself
  <2>2. CASE ready
    <3>1. /\ r \in Kernels
          /\ r.pxCurrentTCBs = k.pxCurrentTCBs /\ r.xTaskRunState = k.xTaskRunState
          /\ r.xYieldPendings = k.xYieldPendings /\ r.irq = k.irq
          /\ r.uxPriority = k.uxPriority
          /\ r.uxCoreAffinityMask = k.uxCoreAffinityMask
          /\ r.xStateList = k.xStateList
          /\ r.xPendingReadyList = k.xPendingReadyList
          /\ r.xTasksWaitingTermination = k.xTasksWaitingTermination
          /\ \A q \in Levels :
               /\ IsInjective(r.pxReadyTasksLists[q])
               /\ ToSet(r.pxReadyTasksLists[q]) = ToSet(k.pxReadyTasksLists[q]) \ {t}
      <4>1. \A q \in Levels : IsInjective(k.pxReadyTasksLists[q])
        BY <1>6 DEF ListsKept
      <4> QED BY <1>6, <4>1, ReadyRemoved
    <3> HIDE DEF r
    <3>2. ListsKept(r)
      BY <1>2, <1>6, <3>1, Numbers DEF ListsKept
    <3>3. t \notin ToSet(r.xPendingReadyList)
      BY <1>6, <2>2, <3>1 DEF ListsKept
    <3>4. Moves(r, moved, t, "ready")
      BY <1>2, <1>6, <2>2, <3>1, <3>2, <3>3, AddedReady
    <3>5. Moves(k, moved, t, "ready")
      BY <3>1, <3>4 DEF Moves
    <3> HIDE DEF moved
    <3> QED BY <1>6, <3>5, MovesReach
  <2> QED BY <2>1, <2>2
<1> HIDE DEF moved, ready, raised
<1>8. Sound(moved)
  BY <1>7 DEF Reach, Keeps
<1>9. l \in Reach(c, moved)
  <2>1. Running(k, t) => prvYieldCore(moved, c, k.xTaskRunState[t]) \in Reach(c, moved)
    <3>1. SUFFICES ASSUME Running(k, t)
                   PROVE  prvYieldCore(moved, c, k.xTaskRunState[t]) \in Reach(c, moved)
      OBVIOUS
    <3>2. {k.xTaskRunState[t]} \in SUBSET Core
      BY <3>1 DEF Running
    <3> QED BY <1>8, <3>2, YieldReaches DEF prvYieldCore
  <2>2. prvYieldForTask(moved, c, t) \in Reach(c, moved)
    BY <1>2, <1>8, YieldForTaskReaches
  <2>3. moved \in Reach(c, moved)
    BY <1>8, ReachesItself
  <2> QED BY <2>1, <2>2, <2>3
<1> HIDE DEF l
<1>10. l \in Reach(c, k)
  BY <1>6, <1>7, <1>9, ReachesOn
<1>11. Keeps(c, kernel, l)
  BY <1>2, <1>5, <1>10, ReachesOn DEF Reach
<1> QED BY <1>1, <1>11, ExitKeeps

\* A core yields whose task was moved or restricted.
LEMMA YieldingKeeps ==
  ASSUME SMPAssumption, NEW self \in Core, NEW k, Sound(k), NEW m, Sound(m),
         m.pxCurrentTCBs = k.pxCurrentTCBs, m.xTaskRunState = k.xTaskRunState,
         m.xYieldPendings = k.xYieldPendings, m.irq = k.irq,
         NEW d \in Core, k.xTaskRunState[k.pxCurrentTCBs[d]] = d,
         \A u \in Thread : u # k.pxCurrentTCBs[d] =>
           /\ m.uxCoreAffinityMask[u] = k.uxCoreAffinityMask[u]
           /\ m.xStateList[u] = k.xStateList[u]
  PROVE  Keeps(self, k, prvYieldCore(m, self, d))
<1> DEFINE S == {d}
           l == YieldCores(m, self, S)
           asked == Unasked(m, self, S)
<1>1. /\ k \in Kernels /\ m \in Kernels /\ RunsKept(k)
      /\ \A c \in Core : k.pxCurrentTCBs[c] \in Thread
  BY DEF Sound, Kernels
<1>2. S \in SUBSET Core /\ \A c \in Core : c \in S <=> c = d
  OBVIOUS
<1>3. asked = {d} \ {self}
  BY Numbers DEF Unasked
<1> HIDE DEF S
<1>4. Keeps(self, m, l)
  BY <1>2, YieldKeeps
<1>5. /\ l.uxCoreAffinityMask = m.uxCoreAffinityMask
      /\ l.xStateList = m.xStateList
      /\ \A c \in Core : /\ l.xYieldPendings[c] = (k.xYieldPendings[c] \/ (c = self /\ c \in S))
                         /\ l.irq[c] = (k.irq[c] \/ c \in asked)
      /\ \A t \in Thread : l.xTaskRunState[t] =
           IF \E c \in asked : k.pxCurrentTCBs[c] = t
           THEN taskTASK_SCHEDULED_TO_YIELD ELSE k.xTaskRunState[t]
  <2>1. /\ l.uxCoreAffinityMask = m.uxCoreAffinityMask
        /\ l.xStateList = m.xStateList
        /\ \A c \in Core : /\ l.xYieldPendings[c] = (m.xYieldPendings[c] \/ (c = self /\ c \in S))
                           /\ l.irq[c] = (m.irq[c] \/ c \in asked)
        /\ \A t \in Thread : l.xTaskRunState[t] =
             IF \E c \in asked : m.pxCurrentTCBs[c] = t
             THEN taskTASK_SCHEDULED_TO_YIELD ELSE m.xTaskRunState[t]
    BY <1>1, YieldFields
  <2> HIDE DEF l, asked
  <2> QED BY <2>1
<1> HIDE DEF l, asked
<1>6. IF d = self THEN l.xYieldPendings[d]
      ELSE l.irq[d] /\ l.xTaskRunState[k.pxCurrentTCBs[d]] = taskTASK_SCHEDULED_TO_YIELD
  BY <1>2, <1>1, <1>5, <1>3
<1>7. \A c \in Core : c # d => k.pxCurrentTCBs[c] # k.pxCurrentTCBs[d]
  BY <1>1 DEF RunsKept
<1>8. ASSUME NEW t \in Thread
      PROVE  \/ l.xTaskRunState[t] = k.xTaskRunState[t]
             \/ /\ l.xTaskRunState[t] = taskTASK_SCHEDULED_TO_YIELD
                /\ \E c \in Core \ {self} : k.pxCurrentTCBs[c] = t /\ l.irq[c]
  BY <1>4 DEF Keeps
<1>9. ASSUME NEW c \in Core
      PROVE  /\ k.irq[c] => l.irq[c]
             /\ k.xYieldPendings[c] => l.xYieldPendings[c]
             /\ \/ c \in l.uxCoreAffinityMask[k.pxCurrentTCBs[c]]
                \/ l.irq[c] \/ l.xYieldPendings[c]
                \/ c \notin k.uxCoreAffinityMask[k.pxCurrentTCBs[c]]
             /\ l.xStateList[k.pxCurrentTCBs[c]] = "termination" =>
                  \/ k.xStateList[k.pxCurrentTCBs[c]] = "termination"
                  \/ l.xTaskRunState[k.pxCurrentTCBs[c]] = taskTASK_SCHEDULED_TO_YIELD
                  \/ c = self /\ l.xYieldPendings[c]
  <2>1. CASE c = d
    BY <1>5, <1>6, <2>1
  <2>2. CASE c # d
    BY <1>1, <1>5, <1>7, <2>2
  <2> QED BY <2>1, <2>2
<1>10. Sound(l) /\ l.pxCurrentTCBs = k.pxCurrentTCBs
  BY <1>4 DEF Keeps
<1>11. Keeps(self, k, l)
  BY <1>8, <1>9, <1>10 DEF Keeps
<1> QED BY <1>11 DEF prvYieldCore, l, S

LEMMA AffinitySetKeeps ==
  ASSUME SMPAssumption, Inv, NEW c \in Core, NEW t \in Worker, NEW S \in Affinities,
         vTaskCoreAffinitySet(c, t, S)
  PROVE  Inv'
<1> DEFINE k == [kernel EXCEPT !.uxCoreAffinityMask[t] = S]
           l == IF Running(k, t)
                THEN IF k.xTaskRunState[t] \in S THEN k
                     ELSE prvYieldCore(k, c, k.xTaskRunState[t])
                ELSE IF S \subseteq kernel.uxCoreAffinityMask[t] THEN k
                ELSE prvYieldForTask(k, c, t)
<1>1. /\ Enters(c) /\ kernel.xStateList[t] # "termination" /\ Exits(c, l)
      /\ UNCHANGED suspension /\ S \in SUBSET Core
  BY DEF vTaskCoreAffinitySet, Calls, Alive, SMPAssumption
<1>2. /\ Sound(kernel) /\ kernel \in Kernels /\ t \in Thread /\ t \notin IdleTasks
      /\ kernel.xTaskRunState[t] \in Core =>
           kernel.pxCurrentTCBs[kernel.xTaskRunState[t]] = t
      /\ \A d \in Core : kernel.pxCurrentTCBs[d] = t =>
           kernel.xTaskRunState[t] \in {d, taskTASK_SCHEDULED_TO_YIELD}
  BY <1>1, AliveWorker
<1> DEFINE mask == [kernel.uxCoreAffinityMask EXCEPT ![t] = S]
<1>3. /\ mask \in [Thread -> SUBSET Core] /\ mask[t] = S
      /\ \A u \in Thread : u # t => mask[u] = kernel.uxCoreAffinityMask[u]
  BY <1>1, <1>2 DEF Kernels
<1>4. k = [kernel EXCEPT !.uxCoreAffinityMask = mask]
  OBVIOUS
<1> HIDE DEF mask, k
<1>5. /\ k \in Kernels /\ k.uxCoreAffinityMask = mask
      /\ k.pxReadyTasksLists = kernel.pxReadyTasksLists
      /\ k.pxCurrentTCBs = kernel.pxCurrentTCBs /\ k.xTaskRunState = kernel.xTaskRunState
      /\ k.xYieldPendings = kernel.xYieldPendings /\ k.irq = kernel.irq
      /\ k.uxPriority = kernel.uxPriority
      /\ k.xStateList = kernel.xStateList
      /\ k.xPendingReadyList = kernel.xPendingReadyList
      /\ k.xTasksWaitingTermination = kernel.xTasksWaitingTermination
  <2>1. k \in Kernels /\ k.uxCoreAffinityMask = mask
    BY <1>2, <1>3, <1>4 DEF Kernels
  <2> QED BY <1>2, <1>4, <2>1 DEF Kernels
<1>6. Sets(kernel, k)
  BY <1>2, <1>3, <1>5, Threads DEF Sets
<1>7. Sound(k)
  BY <1>2, <1>6, SetsSound
<1>8. CASE Running(k, t) /\ k.xTaskRunState[t] \notin S
  <2> DEFINE d == k.xTaskRunState[t]
  <2>1. /\ d \in Core /\ kernel.pxCurrentTCBs[d] = t
        /\ kernel.xTaskRunState[kernel.pxCurrentTCBs[d]] = d
    BY <1>2, <1>5, <1>8 DEF Running
  <2>2. l = prvYieldCore(k, c, d)
    BY <1>8
  <2> HIDE DEF l, d
  <2>3. Keeps(c, kernel, prvYieldCore(k, c, d))
    BY <1>2, <1>3, <1>5, <1>7, <2>1, YieldingKeeps
  <2> QED BY <1>1, <2>2, <2>3, ExitKeeps
<1>9. CASE ~(Running(k, t) /\ k.xTaskRunState[t] \notin S)
  <2>1. ASSUME NEW d \in Core
        PROVE  \/ d \in mask[kernel.pxCurrentTCBs[d]]
               \/ d \notin kernel.uxCoreAffinityMask[kernel.pxCurrentTCBs[d]]
               \/ kernel.xTaskRunState[kernel.pxCurrentTCBs[d]] = taskTASK_SCHEDULED_TO_YIELD
    <3>1. CASE kernel.pxCurrentTCBs[d] = t
      BY <1>2, <1>3, <1>5, <1>9, <3>1 DEF Running
    <3>2. CASE kernel.pxCurrentTCBs[d] # t
      <4>1. kernel.pxCurrentTCBs[d] \in Thread
        BY <1>2 DEF Kernels
      <4> QED BY <1>3, <3>2, <4>1
    <3> QED BY <3>1, <3>2
  <2>2. k \in Reach(c, kernel)
    BY <1>2, <1>5, <1>6, <2>1, SetsReach
  <2>3. l \in Reach(c, k)
    <3>1. prvYieldForTask(k, c, t) \in Reach(c, k)
      BY <1>2, <1>7, YieldForTaskReaches
    <3>2. k \in Reach(c, k)
      BY <1>7, ReachesItself
    <3> QED BY <1>9, <3>1, <3>2
  <2> HIDE DEF l
  <2>4. Keeps(c, kernel, l)
    BY <1>2, <2>2, <2>3, ReachesOn DEF Reach
  <2> QED BY <1>1, <2>4, ExitKeeps
<1> QED BY <1>8, <1>9

\* Preemption of a task is disabled or enabled.
LEMMA PreemptionSets ==
  ASSUME NEW k \in Kernels, NEW t, NEW b \in BOOLEAN
  PROVE  LET l == [k EXCEPT !.xPreemptionDisable[t] = b]
         IN Sets(k, l) /\ l.uxCoreAffinityMask = k.uxCoreAffinityMask
<1> DEFINE disabled == [k.xPreemptionDisable EXCEPT ![t] = b]
           l == [k EXCEPT !.xPreemptionDisable[t] = b]
<1>1. disabled \in [Thread -> BOOLEAN]
  BY DEF Kernels
<1>2. l = [k EXCEPT !.xPreemptionDisable = disabled]
  OBVIOUS
<1> HIDE DEF disabled, l
<1>3. l \in Kernels
  BY <1>1, <1>2 DEF Kernels
<1>4. /\ l.pxReadyTasksLists = k.pxReadyTasksLists
      /\ l.pxCurrentTCBs = k.pxCurrentTCBs /\ l.xTaskRunState = k.xTaskRunState
      /\ l.xYieldPendings = k.xYieldPendings /\ l.irq = k.irq
      /\ l.uxPriority = k.uxPriority /\ l.uxCoreAffinityMask = k.uxCoreAffinityMask
      /\ l.xStateList = k.xStateList
      /\ l.xPendingReadyList = k.xPendingReadyList
      /\ l.xTasksWaitingTermination = k.xTasksWaitingTermination
  BY <1>2 DEF Kernels
<1>5. Sets(k, l) /\ l.uxCoreAffinityMask = k.uxCoreAffinityMask
  BY <1>3, <1>4 DEF Sets
<1> QED BY <1>5 DEF l

LEMMA PreemptionKeeps ==
  ASSUME SMPAssumption, Inv, NEW c \in Core, NEW t \in Worker,
         vTaskPreemptionDisable(c, t) \/ vTaskPreemptionEnable(c, t)
  PROVE  Inv'
<1>1. Sound(kernel) /\ kernel \in Kernels
  BY DEF Inv, Sound
<1>2. PICK b \in BOOLEAN :
        LET k == [kernel EXCEPT !.xPreemptionDisable[t] = b]
        IN /\ Enters(c) /\ UNCHANGED suspension
           /\ \/ Exits(c, k)
              \/ Running(k, t) /\ Exits(c, prvYieldCore(k, c, k.xTaskRunState[t]))
  BY DEF vTaskPreemptionDisable, vTaskPreemptionEnable, Calls
<1> DEFINE k == [kernel EXCEPT !.xPreemptionDisable[t] = b]
<1>3. Sets(kernel, k) /\ k.uxCoreAffinityMask = kernel.uxCoreAffinityMask
  BY <1>1, PreemptionSets
<1>4. PICK l : /\ Enters(c) /\ UNCHANGED suspension /\ Exits(c, l)
               /\ \/ l = k
                  \/ Running(k, t) /\ l = prvYieldCore(k, c, k.xTaskRunState[t])
  BY <1>2
<1> HIDE DEF k
<1>5. k \in Reach(c, kernel)
  BY <1>1, <1>3, SetsReach
<1>6. Sound(k)
  BY <1>5 DEF Reach, Keeps
<1>7. l \in Reach(c, k)
  <2>1. CASE l = k
    BY <1>6, <2>1, ReachesItself
  <2>2. CASE Running(k, t) /\ l = prvYieldCore(k, c, k.xTaskRunState[t])
    <3>1. {k.xTaskRunState[t]} \in SUBSET Core
      BY <2>2 DEF Running
    <3> QED BY <1>6, <2>2, <3>1, YieldReaches DEF prvYieldCore
  <2> QED BY <1>4, <2>1, <2>2
<1>8. Keeps(c, kernel, l)
  BY <1>1, <1>5, <1>7, ReachesOn DEF Reach
<1> QED BY <1>4, <1>8, ExitKeeps

LEMMA DeleteKeeps ==
  ASSUME SMPAssumption, Inv, NEW c \in Core, NEW t \in Worker, vTaskDelete(c, t)
  PROVE  Inv'
<1> DEFINE m == MoveTo(kernel, t, "termination")
           list == Append(m.xTasksWaitingTermination, t)
           k == [m EXCEPT !.xTasksWaitingTermination = list]
           l == IF kernel.xTaskRunState[t] = taskTASK_NOT_RUNNING
                THEN MoveTo(kernel, t, "none")
                ELSE IF Running(kernel, t) THEN prvYieldCore(k, c, k.xTaskRunState[t])
                ELSE k
<1>1. /\ Enters(c) /\ kernel.xStateList[t] # "termination" /\ Exits(c, l)
      /\ UNCHANGED suspension
  BY DEF vTaskDelete, Calls, Alive
<1>2. /\ Sound(kernel) /\ kernel \in Kernels /\ ListsKept(kernel) /\ RunsKept(kernel)
      /\ t \in Thread /\ t \notin IdleTasks
      /\ t \notin ToSet(kernel.xTasksWaitingTermination)
      /\ kernel.xTaskRunState[t] \in RunStates
      /\ kernel.xTaskRunState[t] \in Core =>
           kernel.pxCurrentTCBs[kernel.xTaskRunState[t]] = t
      /\ "termination" \in StateLists /\ "none" \in StateLists
  BY <1>1, AliveWorker DEF StateLists
<1>3. CASE kernel.xTaskRunState[t] = taskTASK_NOT_RUNNING
  <2>1. Moves(kernel, MoveTo(kernel, t, "none"), t, "none")
    BY <1>2, MovedTo
  <2>2. Keeps(c, kernel, MoveTo(kernel, t, "none"))
    BY <1>2, <1>3, <2>1, MovesKeep
  <2> QED BY <1>1, <1>3, <2>2, ExitKeeps
<1>4. CASE kernel.xTaskRunState[t] # taskTASK_NOT_RUNNING
  <2>1. /\ Moves(kernel, m, t, "termination")
        /\ m.xTasksWaitingTermination = kernel.xTasksWaitingTermination
    BY <1>2, MovedTo
  <2>2. l = IF Running(kernel, t) THEN prvYieldCore(k, c, k.xTaskRunState[t]) ELSE k
    BY <1>4
  <2> HIDE DEF m, l
  <2>3. /\ list \in Seq(Worker) /\ IsInjective(list)
        /\ ToSet(list) = ToSet(kernel.xTasksWaitingTermination) \cup {t}
    <3>1. kernel.xTasksWaitingTermination \in Seq(Worker) /\ IsInjective(kernel.xTasksWaitingTermination)
      BY <1>2 DEF Kernels, ListsKept
    <3> QED BY <1>2, <2>1, <3>1, AppendList
  <2> HIDE DEF list
  <2>4. /\ m \in Kernels /\ ListsKept(m) /\ m.xTaskRunState = kernel.xTaskRunState
        /\ m.pxCurrentTCBs = kernel.pxCurrentTCBs
        /\ m.xYieldPendings = kernel.xYieldPendings /\ m.irq = kernel.irq
        /\ m.uxCoreAffinityMask = kernel.uxCoreAffinityMask
        /\ m.xStateList = [kernel.xStateList EXCEPT ![t] = "termination"]
    BY <2>1 DEF Moves
  <2>5. /\ m.xStateList[t] = "termination"
        /\ \A u \in Thread : u # t => m.xStateList[u] = kernel.xStateList[u]
    BY <1>2, <2>4 DEF Kernels
  <2> HIDE DEF k
  <2>6. k = [m EXCEPT !.xTasksWaitingTermination = list]
    BY DEF k
  <2>7. k \in Kernels /\ k.xTasksWaitingTermination = list
    BY <2>3, <2>4, <2>6 DEF Kernels
  <2>8. /\ k.pxReadyTasksLists = m.pxReadyTasksLists
        /\ k.pxCurrentTCBs = m.pxCurrentTCBs /\ k.xTaskRunState = m.xTaskRunState
        /\ k.xYieldPendings = m.xYieldPendings /\ k.irq = m.irq
        /\ k.uxPriority = m.uxPriority
        /\ k.uxCoreAffinityMask = m.uxCoreAffinityMask
        /\ k.xStateList = m.xStateList
        /\ k.xPendingReadyList = m.xPendingReadyList
    BY <2>4, <2>6 DEF Kernels
  <2>9. ListsKept(k)
    BY <2>1, <2>3, <2>4, <2>5, <2>7, <2>8 DEF ListsKept
  <2>10. RunsKept(k)
    <3>1. \A u \in Thread : \/ k.xTaskRunState[u] = taskTASK_NOT_RUNNING
                            \/ k.xStateList[u] # "none" /\ \E d \in Core : k.pxCurrentTCBs[d] = u
      BY <1>2, <2>4, <2>5, <2>8 DEF RunsKept
    <3> QED BY <1>2, <2>4, <2>8, <3>1 DEF RunsKept
  <2>11. Sound(k)
    BY <2>7, <2>9, <2>10 DEF Sound
  <2>12. CASE Running(kernel, t)
    <3> DEFINE d == kernel.xTaskRunState[t]
    <3>1. d \in Core /\ kernel.pxCurrentTCBs[d] = t
      BY <1>2, <2>12 DEF Running
    <3>2. l = prvYieldCore(k, c, d)
      BY <2>2, <2>4, <2>8, <2>12
    <3> HIDE DEF d
    <3>3. kernel.xTaskRunState[kernel.pxCurrentTCBs[d]] = d
      BY <3>1 DEF d
    <3>4. Keeps(c, kernel, prvYieldCore(k, c, d))
      <4>1. /\ k.pxCurrentTCBs = kernel.pxCurrentTCBs
            /\ k.xTaskRunState = kernel.xTaskRunState
            /\ k.xYieldPendings = kernel.xYieldPendings /\ k.irq = kernel.irq
            /\ \A u \in Thread : u # kernel.pxCurrentTCBs[d] =>
                 /\ k.uxCoreAffinityMask[u] = kernel.uxCoreAffinityMask[u]
                 /\ k.xStateList[u] = kernel.xStateList[u]
        BY <2>4, <2>5, <2>8, <3>1
      <4>2. Sound(kernel) /\ Sound(k) /\ d \in Core
        BY <1>2, <2>11, <3>1
      <4> QED BY <3>3, <4>1, <4>2, YieldingKeeps
    <3> QED BY <1>1, <3>2, <3>4, ExitKeeps
  <2>13. CASE ~Running(kernel, t)
    <3>1. kernel.xTaskRunState[t] = taskTASK_SCHEDULED_TO_YIELD
      BY <1>2, <1>4, <2>13 DEF Running, RunStates
    <3>2. \A d \in Core : kernel.pxCurrentTCBs[d] \in Thread
      BY <1>2 DEF Kernels
    <3>3. Keeps(c, kernel, k)
      BY <2>4, <2>5, <2>8, <2>11, <3>1, <3>2 DEF Keeps
    <3> QED BY <1>1, <2>2, <2>13, <3>3, ExitKeeps
  <2> QED BY <2>12, <2>13
<1> QED BY <1>3, <1>4

\* A task is created where a deleted one was freed.
LEMMA AddNewKeeps ==
  ASSUME SMPAssumption, Inv, NEW c \in Core, NEW t \in Worker, NEW p \in Priorities,
         NEW S \in Affinities, prvAddNewTaskToReadyList(c, t, p, S)
  PROVE  Inv'
<1> DEFINE priority == [kernel.uxPriority EXCEPT ![t] = p]
           mask == [kernel.uxCoreAffinityMask EXCEPT ![t] = S]
           states == [kernel.xTaskRunState EXCEPT ![t] = taskTASK_NOT_RUNNING]
           disabled == [kernel.xPreemptionDisable EXCEPT ![t] = FALSE]
           new == [kernel EXCEPT !.uxPriority = priority, !.uxCoreAffinityMask = mask,
                                 !.xTaskRunState = states, !.xPreemptionDisable = disabled]
           l == Unblock(new, c, t)
<1>1. /\ Enters(c) /\ kernel.xStateList[t] = "none" /\ kernel' = l
      /\ pc' = [pc EXCEPT ![t] = "app",
                          ![Current(c)] = IF kernel'.xYieldPendings[c] THEN "yield" ELSE "app"]
      /\ uxSchedulerSuspended' = uxSchedulerSuspended /\ xPendedTicks' = xPendedTicks
      /\ S \in SUBSET Core
  BY DEF prvAddNewTaskToReadyList, suspension, SMPAssumption
<1>2. /\ Sound(kernel) /\ kernel \in Kernels /\ RunsKept(kernel)
      /\ t \in Thread /\ t \notin IdleTasks
  BY <1>1, AliveWorker
<1>3. kernel.xTaskRunState[t] = taskTASK_NOT_RUNNING
  BY <1>1, <1>2 DEF RunsKept
<1>4. \A d \in Core : kernel.pxCurrentTCBs[d] # t /\ kernel.pxCurrentTCBs[d] \in Thread
  BY <1>2, <1>3, Numbers DEF RunsKept, Kernels
<1>5. /\ priority \in [Thread -> Levels] /\ mask \in [Thread -> SUBSET Core]
      /\ disabled \in [Thread -> BOOLEAN] /\ states = kernel.xTaskRunState
      /\ \A u \in Thread : u # t => /\ priority[u] = kernel.uxPriority[u]
                                    /\ mask[u] = kernel.uxCoreAffinityMask[u]
  BY <1>1, <1>2, <1>3 DEF Kernels, Levels
<1> HIDE DEF priority, mask, states, disabled, new, l
<1>6. /\ new \in Kernels /\ new.uxPriority = priority /\ new.uxCoreAffinityMask = mask
      /\ new.xTaskRunState = kernel.xTaskRunState
      /\ new.pxReadyTasksLists = kernel.pxReadyTasksLists
      /\ new.pxCurrentTCBs = kernel.pxCurrentTCBs
      /\ new.xYieldPendings = kernel.xYieldPendings /\ new.irq = kernel.irq
      /\ new.xStateList = kernel.xStateList
      /\ new.xPendingReadyList = kernel.xPendingReadyList
      /\ new.xTasksWaitingTermination = kernel.xTasksWaitingTermination
  BY <1>2, <1>5 DEF Kernels, new
<1>7. Sets(kernel, new)
  BY <1>2, <1>5, <1>6, Threads DEF Sets
<1>8. new \in Reach(c, kernel)
  BY <1>2, <1>4, <1>5, <1>6, <1>7, SetsReach
<1>9. Sound(new)
  BY <1>8 DEF Reach, Keeps
<1>10. l \in Reach(c, new)
  BY <1>1, <1>6, <1>9, UnblockReaches DEF l
<1>11. Keeps(c, kernel, l)
  BY <1>2, <1>8, <1>10, ReachesOn DEF Reach
<1>12. /\ pc \in [Thread -> {"app", "yield", "resume"}] /\ pc[Current(c)] = "app"
       /\ \A d \in Core : Current(d) \in Thread /\ Current(d) # t
       /\ uxSchedulerSuspended \in Core \cup {NoCore} /\ xPendedTicks \in 0..MaxPendedTicks
  BY <1>1, <1>4 DEF Inv, Enters, Current
<1>13. /\ pc' \in [Thread -> {"app", "yield", "resume"}]
       /\ \A d \in Core : pc[Current(d)] = "yield" => pc'[Current(d)] = "yield"
       /\ kernel'.xYieldPendings[c] => pc'[Current(c)] = "yield"
  BY <1>1, <1>2, <1>12
<1>14. \A d \in Core : uxSchedulerSuspended # d
  BY <1>1 DEF Enters, SMPAssumption
<1> QED BY <1>1, <1>11, <1>12, <1>13, <1>14, SectionKeeps

\* The idle task frees a task that no core runs.
LEMMA FreeKeeps ==
  ASSUME SMPAssumption, Inv, NEW c \in Core, prvCheckTasksWaitingTermination(c)
  PROVE  Inv'
<1> DEFINE list == kernel.xTasksWaitingTermination
           t == Head(list)
           state == [kernel.xStateList EXCEPT ![t] = "none"]
           l == [kernel EXCEPT !.xTasksWaitingTermination = Tail(list), !.xStateList = state]
<1>1. /\ Enters(c) /\ list # << >> /\ kernel.xTaskRunState[t] = taskTASK_NOT_RUNNING
      /\ Exits(c, l) /\ UNCHANGED suspension
  BY DEF prvCheckTasksWaitingTermination
<1>2. Sound(kernel) /\ kernel \in Kernels /\ ListsKept(kernel)
  BY DEF Inv, Sound
<1>3. /\ list \in Seq(Worker) /\ Tail(list) \in Seq(Worker) /\ IsInjective(Tail(list))
      /\ t \in ToSet(list) /\ ToSet(Tail(list)) = ToSet(list) \ {t}
  <2>1. list \in Seq(Worker) /\ IsInjective(list)
    BY <1>2 DEF Kernels, ListsKept
  <2> HIDE DEF list
  <2> QED BY <1>1, <2>1, DropHead
<1>4. /\ kernel.xStateList[t] = "termination"
      /\ \A u \in ToSet(list) : u \in Thread
      /\ t \in Thread /\ t \notin IdleTasks
  BY <1>2, <1>3, Threads DEF ListsKept, ToSet
<1> HIDE DEF list, t
<1>5. /\ state \in [Thread -> StateLists]
      /\ \A u \in Thread : u # t => state[u] = kernel.xStateList[u]
  BY <1>2, <1>4 DEF Kernels, StateLists
<1>6. state = [kernel.xStateList EXCEPT ![t] = "none"]
  OBVIOUS
<1> HIDE DEF state, l
<1>7. l \in Kernels /\ l.xStateList = state /\ l.xTasksWaitingTermination = Tail(list)
  BY <1>2, <1>3, <1>5 DEF Kernels, l
<1>8. /\ l.pxReadyTasksLists = kernel.pxReadyTasksLists
      /\ l.pxCurrentTCBs = kernel.pxCurrentTCBs /\ l.xTaskRunState = kernel.xTaskRunState
      /\ l.xYieldPendings = kernel.xYieldPendings /\ l.irq = kernel.irq
      /\ l.uxPriority = kernel.uxPriority
      /\ l.uxCoreAffinityMask = kernel.uxCoreAffinityMask
      /\ l.xPendingReadyList = kernel.xPendingReadyList
  BY <1>2 DEF Kernels, l
<1>9. ListsKept(l)
  <2>1. ASSUME NEW q \in Levels
        PROVE  \A u \in ToSet(kernel.pxReadyTasksLists[q]) : state[u] = "ready"
    <3>1. kernel.pxReadyTasksLists[q] \in Seq(Thread)
      BY <1>2 DEF Kernels
    <3>2. \A u \in ToSet(kernel.pxReadyTasksLists[q]) : u \in Thread
      BY <3>1 DEF ToSet
    <3> QED BY <1>2, <1>4, <1>5, <3>2 DEF ListsKept
  <2>2. \A u \in ToSet(kernel.xPendingReadyList) : state[u] = "suspended"
    <3>1. kernel.xPendingReadyList \in Seq(Worker)
      BY <1>2 DEF Kernels
    <3>2. \A u \in ToSet(kernel.xPendingReadyList) : u \in Thread
      BY <3>1, Threads DEF ToSet
    <3> QED BY <1>2, <1>4, <1>5, <3>2 DEF ListsKept
  <2>3. \A u \in ToSet(Tail(list)) : state[u] = "termination"
    BY <1>2, <1>3, <1>4, <1>5 DEF ListsKept, list
  <2> QED BY <1>2, <1>3, <1>7, <1>8, <2>1, <2>2, <2>3 DEF ListsKept
<1>10. Moves(kernel, l, t, "none")
  BY <1>6, <1>7, <1>8, <1>9 DEF Moves
<1>11. Keeps(c, kernel, l)
  BY <1>1, <1>2, <1>10, MovesKeep
<1> QED BY <1>1, <1>11, ExitKeeps DEF l

LEMMA IdleYieldsKeeps ==
  ASSUME SMPAssumption, Inv, NEW c \in Core, IdleYields(c)
  PROVE  Inv'
<1>1. /\ kernel' = kernel /\ pc' = [pc EXCEPT ![Current(c)] = "yield"]
      /\ uxSchedulerSuspended' = uxSchedulerSuspended /\ xPendedTicks' = xPendedTicks
  BY DEF IdleYields, suspension
<1>2. /\ Sound(kernel) /\ pc \in [Thread -> {"app", "yield", "resume"}]
      /\ \A d \in Core : Current(d) \in Thread
      /\ uxSchedulerSuspended \in Core \cup {NoCore} /\ xPendedTicks \in 0..MaxPendedTicks
  BY DEF Inv, Sound, Kernels, Current
<1>3. Keeps(c, kernel, kernel')
  BY <1>1, <1>2, KeepsItself
<1>4. /\ pc' \in [Thread -> {"app", "yield", "resume"}]
      /\ \A d \in Core : pc[Current(d)] = "yield" => pc'[Current(d)] = "yield"
      /\ pc'[Current(c)] = "yield"
  BY <1>1, <1>2
<1>5. \A d \in Core : uxSchedulerSuspended' = d => pc'[Current(d)] = "resume"
  <2>1. pc[Current(c)] = "app"
    BY DEF IdleYields
  <2> QED BY <1>1, <1>2, <2>1 DEF Inv, CoreKept
<1> QED BY <1>1, <1>2, <1>3, <1>4, <1>5, SectionKeeps

LEMMA TickPendsKeeps ==
  ASSUME SMPAssumption, Inv, TickPends
  PROVE  Inv'
<1>1. /\ kernel' = kernel /\ pc' = pc /\ uxSchedulerSuspended' = uxSchedulerSuspended
      /\ xPendedTicks < MaxPendedTicks /\ xPendedTicks' = xPendedTicks + 1
  BY DEF TickPends
<1>2. /\ Sound(kernel) /\ pc \in [Thread -> {"app", "yield", "resume"}]
      /\ uxSchedulerSuspended \in Core \cup {NoCore}
      /\ xPendedTicks \in 0..MaxPendedTicks /\ MaxPendedTicks \in Nat
  BY DEF Inv, SMPAssumption
<1>3. PICK c \in Core : TRUE
  BY Numbers
<1>4. Keeps(c, kernel, kernel')
  BY <1>1, <1>2, KeepsItself
<1>5. xPendedTicks' \in 0..MaxPendedTicks
  BY <1>1, <1>2
<1>6. \A d \in Core : uxSchedulerSuspended = d => pc[Current(d)] = "resume"
  BY DEF Inv, CoreKept
<1> QED BY <1>1, <1>2, <1>4, <1>5, <1>6, SectionKeeps

LEMMA DelayKeeps ==
  ASSUME SMPAssumption, Inv, NEW c \in Core, vTaskDelay(c)
  PROVE  Inv'
<1> DEFINE t == Current(c)
           l == MoveTo(kernel, t, "delayed")
<1>1. /\ pc[t] = "app" /\ kernel.xTaskRunState[t] # taskTASK_SCHEDULED_TO_YIELD
      /\ t \in Worker /\ uxSchedulerSuspended = NoCore /\ uxSchedulerSuspended' = c
      /\ kernel' = l /\ pc' = [pc EXCEPT ![t] = "resume"] /\ xPendedTicks' = xPendedTicks
  BY DEF vTaskDelay, Enters, MayProceed, SuspendsAll
<1>2. kernel.xStateList[t] # "termination"
  BY <1>1 DEF Inv, CoreKept
<1>3. /\ Sound(kernel) /\ kernel \in Kernels /\ ListsKept(kernel) /\ t \in Thread
      /\ t \notin ToSet(kernel.xTasksWaitingTermination)
      /\ pc \in [Thread -> {"app", "yield", "resume"}]
      /\ xPendedTicks \in 0..MaxPendedTicks /\ "delayed" \in StateLists
  BY <1>1, <1>2, AliveWorker DEF Inv, StateLists
<1>4. Moves(kernel, l, t, "delayed")
  BY <1>1, <1>3, MovedTo
<1> HIDE DEF l
<1>5. l \in Reach(c, kernel)
  BY <1>3, <1>4, MovesReach
<1>6. Keeps(c, kernel, kernel') /\ \A u \in Thread :
        kernel'.xStateList[u] = "termination" => kernel.xStateList[u] = "termination"
  BY <1>1, <1>5 DEF Reach
<1>7. \A d \in Core : Current(d) \in Thread
  BY <1>3 DEF Kernels, Current
<1> HIDE DEF t
<1>8. /\ pc' \in [Thread -> {"app", "yield", "resume"}]
      /\ \A d \in Core : pc[Current(d)] = "yield" => pc'[Current(d)] = "yield"
      /\ pc'[Current(c)] = "resume"
  BY <1>1, <1>3, <1>7 DEF t
<1>9. \A d \in Core : uxSchedulerSuspended # d
  BY <1>1 DEF SMPAssumption
<1> QED BY <1>1, <1>3, <1>6, <1>8, <1>9, SectionKeeps

LEMMA ResumeAllKeeps ==
  ASSUME SMPAssumption, Inv, NEW c \in Core, xTaskResumeAll(c)
  PROVE  Inv'
<1>1. PICK W \in Wakings(kernel) :
        kernel' = ReplayTicks(MoveReadied(kernel), c, xPendedTicks, W)
  BY DEF xTaskResumeAll
<1>2. /\ uxSchedulerSuspended = c /\ uxSchedulerSuspended' = NoCore /\ xPendedTicks' = 0
      /\ pc' = [pc EXCEPT ![Current(c)] = "yield"]
  BY DEF xTaskResumeAll
<1>3. /\ Sound(kernel) /\ pc \in [Thread -> {"app", "yield", "resume"}]
      /\ \A d \in Core : Current(d) \in Thread
      /\ xPendedTicks \in Nat /\ 0 \in 0..MaxPendedTicks
  BY DEF Inv, Sound, Kernels, Current, SMPAssumption
<1>4. W \in Seq(Worker) /\ \A i \in 1..Len(W) : kernel.xStateList[W[i]] # "termination"
  BY <1>3, WakingsOfWorkers
<1> DEFINE m == MoveReadied(kernel)
<1>5. m \in Reach(c, kernel)
  BY <1>3, MoveReadiedReaches
<1> HIDE DEF m
<1>6. Sound(m) /\ \A i \in 1..Len(W) : m.xStateList[W[i]] # "termination"
  BY <1>4, <1>5, Threads DEF Reach, Keeps
<1>7. kernel' \in Reach(c, m)
  BY <1>1, <1>3, <1>4, <1>6, ReplayReaches DEF m
<1>8. Keeps(c, kernel, kernel')
  BY <1>3, <1>5, <1>7, ReachesOn DEF Reach
<1>9. /\ pc' \in [Thread -> {"app", "yield", "resume"}]
      /\ \A d \in Core : pc[Current(d)] = "yield" => pc'[Current(d)] = "yield"
      /\ pc'[Current(c)] = "yield"
  BY <1>2, <1>3
<1>10. \A d \in Core : uxSchedulerSuspended' # d
  BY <1>2 DEF SMPAssumption
<1> QED BY <1>2, <1>3, <1>8, <1>9, <1>10, SectionKeeps

LEMMA TickKeeps ==
  ASSUME SMPAssumption, Inv, NEW c \in Core, Tick(c)
  PROVE  Inv'
<1>1. PICK W \in Wakings(kernel) :
        kernel' = [xTaskIncrementTick(kernel, c, W) EXCEPT
                     !.irq[c] = @ \/ TickSwitches(kernel, c, W)]
  BY DEF Tick
<1>2. UNCHANGED pc /\ UNCHANGED suspension
  BY DEF Tick
<1>3. Sound(kernel)
  BY DEF Inv
<1>4. W \in Seq(Worker) /\ \A i \in 1..Len(W) : kernel.xStateList[W[i]] # "termination"
  BY <1>3, WakingsOfWorkers
<1>5. xTaskIncrementTick(kernel, c, W) \in Reach(c, kernel)
  BY <1>3, <1>4, TickReaches
<1>6. TickSwitches(kernel, c, W) \in BOOLEAN
  BY DEF TickSwitches
<1> QED BY <1>1, <1>2, <1>5, <1>6, InterruptKeeps

\* A core goes on with the task that it chose.
LEMMA SwitchKeeps ==
  ASSUME SMPAssumption, Inv, NEW c \in Core, vTaskSwitchContext(c)
  PROVE  Inv'
<1> DEFINE irq == [kernel.irq EXCEPT ![c] = FALSE]
           yp(b) == [kernel.xYieldPendings EXCEPT ![c] = b]
           k(b) == [kernel EXCEPT !.irq = irq, !.xYieldPendings = yp(b)]
<1>1. /\ Sound(kernel) /\ kernel \in Kernels /\ ListsKept(kernel) /\ RunsKept(kernel)
      /\ pc \in [Thread -> {"app", "yield", "resume"}]
      /\ xPendedTicks \in 0..MaxPendedTicks
      /\ \A d \in Core : Current(d) \in Thread /\ CoreKept(d)
      /\ \A d \in Core : Current(d) = Current(c) => d = c
  BY DEF Inv, Sound, Kernels, RunsKept, Current
<1>2. /\ pc' = [pc EXCEPT ![Current(c)] = IF @ = "yield" THEN "app" ELSE @]
      /\ uxSchedulerSuspended' = uxSchedulerSuspended /\ xPendedTicks' = xPendedTicks
      /\ uxSchedulerSuspended = NoCore \/ uxSchedulerSuspended = c
  BY DEF vTaskSwitchContext, suspension
<1>3. /\ pc' \in [Thread -> {"app", "yield", "resume"}]
      /\ \A t \in Thread : t # Current(c) \/ pc[t] # "yield" => pc'[t] = pc[t]
  BY <1>1, <1>2
<1>4. ASSUME NEW b \in BOOLEAN
      PROVE  /\ Sound(k(b))
             /\ k(b).pxCurrentTCBs = kernel.pxCurrentTCBs
             /\ k(b).xTaskRunState = kernel.xTaskRunState
             /\ k(b).uxCoreAffinityMask = kernel.uxCoreAffinityMask
             /\ k(b).xStateList = kernel.xStateList
             /\ k(b).xYieldPendings[c] = b
             /\ \A d \in Core : d # c =>
                  /\ k(b).irq[d] = kernel.irq[d]
                  /\ k(b).xYieldPendings[d] = kernel.xYieldPendings[d]
  <2> DEFINE l == k(b)
  <2>1. /\ irq \in [Core -> BOOLEAN] /\ yp(b) \in [Core -> BOOLEAN] /\ yp(b)[c] = b
        /\ \A d \in Core : d # c => /\ irq[d] = kernel.irq[d]
                                    /\ yp(b)[d] = kernel.xYieldPendings[d]
    BY <1>1 DEF Kernels
  <2>2. l = [kernel EXCEPT !.irq = irq, !.xYieldPendings = yp(b)]
    OBVIOUS
  <2> HIDE DEF irq, yp, l
  <2>3. l \in Kernels /\ l.irq = irq /\ l.xYieldPendings = yp(b)
    BY <1>1, <2>1, <2>2 DEF Kernels
  <2>4. /\ l.pxReadyTasksLists = kernel.pxReadyTasksLists
        /\ l.pxCurrentTCBs = kernel.pxCurrentTCBs /\ l.xTaskRunState = kernel.xTaskRunState
        /\ l.uxPriority = kernel.uxPriority
        /\ l.uxCoreAffinityMask = kernel.uxCoreAffinityMask
        /\ l.xStateList = kernel.xStateList
        /\ l.xPendingReadyList = kernel.xPendingReadyList
        /\ l.xTasksWaitingTermination = kernel.xTasksWaitingTermination
    BY <1>1, <2>2 DEF Kernels
  <2>5. ListsKept(l)
    BY <1>1, <2>4 DEF ListsKept
  <2>6. RunsKept(l)
    BY <1>1, <2>4 DEF RunsKept
  <2>7. Sound(l)
    BY <2>3, <2>5, <2>6 DEF Sound
  <2>8. /\ l.xYieldPendings[c] = b
        /\ \A d \in Core : d # c => /\ l.irq[d] = kernel.irq[d]
                                    /\ l.xYieldPendings[d] = kernel.xYieldPendings[d]
    BY <2>1, <2>3
  <2> QED BY <2>4, <2>7, <2>8 DEF l
<1>5. CASE uxSchedulerSuspended = c
  <2> DEFINE l == k(TRUE)
  <2>1. kernel' = l
    BY <1>5 DEF vTaskSwitchContext
  <2>2. /\ Sound(l)
        /\ l.pxCurrentTCBs = kernel.pxCurrentTCBs /\ l.xTaskRunState = kernel.xTaskRunState
        /\ l.uxCoreAffinityMask = kernel.uxCoreAffinityMask
        /\ l.xStateList = kernel.xStateList
        /\ l.xYieldPendings[c]
        /\ \A d \in Core : d # c => /\ l.irq[d] = kernel.irq[d]
                                    /\ l.xYieldPendings[d] = kernel.xYieldPendings[d]
    BY <1>4
  <2> HIDE DEF l
  <2>3. \A t \in Thread : pc'[t] = pc[t]
    <3>1. pc[Current(c)] = "resume"
      BY <1>1, <1>5 DEF CoreKept
    <3> QED BY <1>3, <3>1
  <2>4. ASSUME NEW d \in Core PROVE CoreKept(d)'
    <3>1. Current(d)' = Current(d) /\ pc'[Current(d)] = pc[Current(d)]
      BY <1>1, <2>1, <2>2, <2>3 DEF Current
    <3> QED BY <1>1, <1>2, <1>5, <2>1, <2>2, <3>1 DEF CoreKept
  <2> QED BY <1>1, <1>2, <1>3, <2>1, <2>2, <2>4 DEF Inv
<1>6. CASE uxSchedulerSuspended # c
  <2>1. kernel' = prvSelectHighestPriorityTask(k(FALSE), c)
    <3>1. kernel' = prvSelectHighestPriorityTask(
                      [[kernel EXCEPT !.irq[c] = FALSE] EXCEPT !.xYieldPendings[c] = FALSE], c)
      BY <1>6 DEF vTaskSwitchContext
    <3>2. [[kernel EXCEPT !.irq[c] = FALSE] EXCEPT !.xYieldPendings[c] = FALSE] = k(FALSE)
      BY <1>1 DEF Kernels
    <3> QED BY <3>1, <3>2
  <2> DEFINE l == k(FALSE)
  <2>2. /\ Sound(l)
        /\ l.pxCurrentTCBs = kernel.pxCurrentTCBs /\ l.xTaskRunState = kernel.xTaskRunState
        /\ l.uxCoreAffinityMask = kernel.uxCoreAffinityMask
        /\ l.xStateList = kernel.xStateList
        /\ \A d \in Core : d # c => /\ l.irq[d] = kernel.irq[d]
                                    /\ l.xYieldPendings[d] = kernel.xYieldPendings[d]
    BY <1>4
  <2> HIDE DEF l
  <2>3. PICK d \in Kernels : Starts(c, l, d) /\ kernel' \in Reach(c, d)
    BY <2>1, <2>2, SelectStarts DEF l
  <2>4. /\ kernel'.pxCurrentTCBs = d.pxCurrentTCBs /\ Sound(kernel') /\ RunsKept(d)
        /\ \A t \in Thread :
             kernel'.xStateList[t] = "termination" => d.xStateList[t] = "termination"
    BY <2>3 DEF Starts, Reach, Keeps, Sound
  <2>5. /\ Current(c)' = d.pxCurrentTCBs[c] /\ Current(c)' \in Thread
        /\ \A e \in Core : e # c => Current(e)' = Current(e) /\ d.pxCurrentTCBs[e] = Current(e)
    BY <1>1, <2>2, <2>3, <2>4 DEF Current, Starts, Kernels
  <2>6. ASSUME NEW e \in Core PROVE CoreKept(e)'
    <3> DEFINE t == d.pxCurrentTCBs[e]
    <3>1. /\ t = Current(e)' /\ t \in Thread
          /\ \/ kernel'.xTaskRunState[t] = d.xTaskRunState[t]
             \/ /\ kernel'.xTaskRunState[t] = taskTASK_SCHEDULED_TO_YIELD
                /\ e # c /\ kernel'.irq[e]
          /\ d.irq[e] => kernel'.irq[e]
          /\ d.xYieldPendings[e] => kernel'.xYieldPendings[e]
          /\ \/ e \in kernel'.uxCoreAffinityMask[t]
             \/ kernel'.irq[e] \/ kernel'.xYieldPendings[e]
             \/ e \notin d.uxCoreAffinityMask[t]
             \/ d.xTaskRunState[t] = taskTASK_SCHEDULED_TO_YIELD
          /\ kernel'.xStateList[t] = "termination" => d.xStateList[t] = "termination"
      <4>1. t = Current(e)' /\ t \in Thread
        BY <2>3, <2>4 DEF Current, Kernels
      <4>2. \A f \in Core : d.pxCurrentTCBs[f] = t => f = e
        BY <2>4 DEF RunsKept
      <4> HIDE DEF t
      <4>3. \/ kernel'.xTaskRunState[t] = d.xTaskRunState[t]
            \/ /\ kernel'.xTaskRunState[t] = taskTASK_SCHEDULED_TO_YIELD
               /\ e # c /\ kernel'.irq[e]
        BY <2>3, <4>1, <4>2 DEF Reach, Keeps
      <4>4. /\ d.irq[e] => kernel'.irq[e]
            /\ d.xYieldPendings[e] => kernel'.xYieldPendings[e]
            /\ \/ e \in kernel'.uxCoreAffinityMask[t]
               \/ kernel'.irq[e] \/ kernel'.xYieldPendings[e]
               \/ e \notin d.uxCoreAffinityMask[t]
               \/ d.xTaskRunState[t] = taskTASK_SCHEDULED_TO_YIELD
        BY <2>3 DEF Reach, Keeps, t
      <4> QED BY <2>4, <4>1, <4>3, <4>4
    <3>2. uxSchedulerSuspended' # e
      BY <1>2, <1>6 DEF SMPAssumption
    <3>3. CASE e = c
      <4>1. /\ d.xTaskRunState[t] = c /\ c \in d.uxCoreAffinityMask[t]
            /\ d.xStateList[t] = "ready"
        BY <2>3, <3>3 DEF Starts
      <4> HIDE DEF t
      <4>2. /\ kernel'.xTaskRunState[t] # taskTASK_SCHEDULED_TO_YIELD
            /\ kernel'.xStateList[t] # "termination"
            /\ \/ e \in kernel'.uxCoreAffinityMask[t]
               \/ kernel'.irq[e] \/ kernel'.xYieldPendings[e]
        BY <3>1, <3>3, <4>1, Numbers
      <4> QED BY <3>1, <3>2, <4>2 DEF CoreKept
    <3>4. CASE e # c
      <4>1. /\ d.xTaskRunState[t] = kernel.xTaskRunState[t]
            /\ d.uxCoreAffinityMask[t] = kernel.uxCoreAffinityMask[t]
            /\ d.irq[e] = kernel.irq[e] /\ d.xYieldPendings[e] = kernel.xYieldPendings[e]
            /\ d.xStateList[t] = kernel.xStateList[t]
            /\ t = Current(e)
        BY <2>2, <2>3, <2>5, <3>4 DEF Starts, Current
      <4> HIDE DEF t
      <4>2. pc'[t] = pc[t]
        BY <1>1, <1>3, <3>1, <3>4, <4>1
      <4>3. /\ kernel.xTaskRunState[t] = taskTASK_SCHEDULED_TO_YIELD =>
                 \/ kernel.irq[e] \/ pc[t] = "yield"
            /\ \/ e \in kernel.uxCoreAffinityMask[t]
               \/ kernel.irq[e] \/ kernel.xYieldPendings[e] \/ pc[t] = "yield"
            /\ kernel.xStateList[t] = "termination" =>
                 \/ kernel.xTaskRunState[t] = taskTASK_SCHEDULED_TO_YIELD
                 \/ pc[t] = "yield"
        BY <1>1, <1>2, <3>2, <4>1 DEF CoreKept
      <4> QED BY <3>1, <3>2, <4>1, <4>2, <4>3 DEF CoreKept
    <3> QED BY <3>3, <3>4
  <2> QED BY <1>1, <1>2, <1>3, <2>4, <2>6 DEF Inv
<1> QED BY <1>5, <1>6
-----------------------------------------------------------------------------
(* The properties.                                                           *)

LEMMA NextKeeps ==
  ASSUME SMPAssumption, Inv, [Next]_vars
  PROVE  Inv'
<1>1. CASE TickPends
  BY <1>1, TickPendsKeeps
<1>2. ASSUME NEW c \in Core,
             \/ prvCheckTasksWaitingTermination(c) \/ IdleYields(c) \/ vTaskDelay(c)
             \/ xTaskResumeAll(c) \/ Tick(c) \/ vTaskSwitchContext(c)
      PROVE  Inv'
  BY <1>2, FreeKeeps, IdleYieldsKeeps, DelayKeeps, ResumeAllKeeps, TickKeeps, SwitchKeeps
<1>3. ASSUME NEW c \in Core, NEW t \in Worker,
             \/ vTaskSuspend(c, t) \/ vTaskResume(c, t) \/ xTaskResumeFromISR(c, t)
             \/ vTaskPreemptionDisable(c, t) \/ vTaskPreemptionEnable(c, t)
             \/ vTaskDelete(c, t)
             \/ \E p \in Priorities : vTaskPrioritySet(c, t, p)
             \/ \E S \in Affinities :
                  \/ vTaskCoreAffinitySet(c, t, S)
                  \/ \E p \in Priorities : prvAddNewTaskToReadyList(c, t, p, S)
      PROVE  Inv'
  BY <1>3, SuspendKeeps, ResumeKeeps, ResumeFromISRKeeps, PreemptionKeeps, DeleteKeeps,
     PrioritySetKeeps, AffinitySetKeeps, AddNewKeeps
<1>4. CASE UNCHANGED vars
  BY <1>4 DEF vars, Inv, CoreKept, Current
<1> QED BY <1>1, <1>2, <1>3, <1>4 DEF Next

LEMMA InvCoresSound ==
  ASSUME SMPAssumption, Inv
  PROVE  CoresSound
<1>1. /\ RunsKept(kernel) /\ kernel \in Kernels /\ \A c \in Core : CoreKept(c)
  BY DEF Inv, Sound
<1>2. OneCorePerTask
  BY <1>1, Numbers DEF OneCorePerTask, RunsKept, Current
<1>3. YieldsDelivered
  BY <1>1 DEF YieldsDelivered, CoreKept
<1>4. FreedNotRunning
  BY <1>1, Numbers DEF FreedNotRunning, RunsKept, Current
<1>5. AffinityKept
  BY <1>1 DEF AffinityKept, Settled, CoreKept
<1> QED BY <1>2, <1>3, <1>4, <1>5 DEF CoresSound

\* A task runs on one core at most, a core that was asked to yield does, no
\* task is freed while a core runs it, and a settled core runs a task that may
\* run on it (prvYieldCore, prvSelectHighestPriorityTask, vTaskDelete and
\* prvCheckTasksWaitingTermination of tasks.c).
THEOREM CoresAreSound ==
  ASSUME SMPAssumption
  PROVE  Spec => []CoresSound
<1>1. Init => Inv
  BY InitInv
<1>2. Inv /\ [Next]_vars => Inv'
  BY NextKeeps
<1>3. Inv => CoresSound
  BY InvCoresSound
<1> QED BY <1>1, <1>2, <1>3, PTL DEF Spec
=============================================================================
