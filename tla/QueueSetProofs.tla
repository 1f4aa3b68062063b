--------------------------- MODULE QueueSetProofs ---------------------------
(***************************************************************************)
(* Proofs about a queue set, for any tasks and members: each item of a     *)
(* member is announced once, and who waits for a handle is woken for it.   *)
(***************************************************************************)
EXTENDS QueueSet, ListRingProofs, FunctionTheorems

\* Places for handles, one for each item that the members can hold.
Slots == UNION {{q} \X (1..uxLength[q]) : q \in Member}

\* What the kernel knows of the constants.
QueueSetAssumption ==
  /\ IsFiniteSet(Task) /\ NoTask \notin Task
  /\ IsFiniteSet(Member) /\ NoMember \notin Member
  /\ uxLength \in [Member -> Nat]
  /\ uxEventQueueLength \in Nat
  /\ uxNumberOfTasks \in Nat /\ Cardinality(Task) <= uxNumberOfTasks

\* What it asks of the application: the set has room for all the items of its
\* members, no member is longer than the count of a lock goes, and nothing is
\* sent to a member while it is removed.
WellUsed ==
  /\ Cardinality(Slots) <= uxEventQueueLength
  /\ \A q \in Member : uxLength[q] <= uxNumberOfTasks
  /\ ~RemovalsRace
-----------------------------------------------------------------------------
(* Counting handles.                                                        *)

Copies(h, q) == {i \in DOMAIN h : h[i] = q}
Count(h, q) == Cardinality(Copies(h, q))

\* The handles of a list are finitely many.
LEMMA CountType ==
  ASSUME NEW h \in Seq(Member), NEW q
  PROVE  /\ IsFiniteSet(Copies(h, q)) /\ Count(h, q) \in Nat
         /\ (h = << >> => Count(h, q) = 0)
         /\ (Count(h, q) = 0 => \A i \in 1..Len(h) : h[i] # q)
<1>1. DOMAIN h = 1..Len(h) /\ Len(h) \in Nat
  OBVIOUS
<1>2. IsFiniteSet(1..Len(h))
  BY <1>1, FS_Interval
<1>3. Copies(h, q) \subseteq 1..Len(h)
  BY <1>1 DEF Copies
<1>4. IsFiniteSet(Copies(h, q))
  BY <1>2, <1>3, FS_Subset
<1>5. h = << >> => Copies(h, q) = {}
  BY DEF Copies
<1>6. Count(h, q) = 0 => Copies(h, q) = {}
  BY <1>4, FS_EmptySet DEF Count
<1>7. Copies(h, q) = {} => \A i \in 1..Len(h) : h[i] # q
  BY <1>1 DEF Copies
<1> QED BY <1>4, <1>5, <1>6, <1>7, FS_CardinalityType, FS_EmptySet DEF Count

\* The first handle is taken.
LEMMA CountTail ==
  ASSUME NEW h \in Seq(Member), h # << >>, NEW q
  PROVE  /\ Tail(h) \in Seq(Member) /\ Len(Tail(h)) = Len(h) - 1
         /\ Head(h) \in Member
         /\ Count(Tail(h), q) = Count(h, q) - (IF Head(h) = q THEN 1 ELSE 0)
         /\ Head(h) = q => Count(h, q) >= 1
<1> DEFINE e == Tail(h)
           f == [i \in Copies(e, q) |-> i + 1]
<1>1. /\ e \in Seq(Member) /\ Len(e) = Len(h) - 1 /\ Head(h) \in Member
      /\ \A i \in 1..Len(e) : e[i] = h[i + 1]
      /\ Len(h) \in Nat \ {0} /\ Len(e) \in Nat /\ Head(h) = h[1]
      /\ DOMAIN h = 1..Len(h) /\ DOMAIN e = 1..Len(e)
  BY HeadTailProperties
<1> HIDE DEF e
<1>2. Copies(e, q) \subseteq Nat /\ Copies(h, q) \subseteq Nat
  BY <1>1 DEF Copies
<1>3. ASSUME NEW i \in Copies(e, q) PROVE i + 1 \in Copies(h, q) \ {1}
  BY <1>1, <1>3 DEF Copies
<1>4. ASSUME NEW j \in Copies(h, q) \ {1} PROVE \E i \in Copies(e, q) : j = i + 1
  <2>1. j - 1 \in Copies(e, q)
    BY <1>1, <1>4 DEF Copies
  <2> QED BY <1>2, <2>1
<1>5. f \in Bijection(Copies(e, q), Copies(h, q) \ {1})
  BY <1>2, <1>3, <1>4 DEF Bijection, Injection, Surjection, IsInjective
<1>6. IsFiniteSet(Copies(h, q)) /\ IsFiniteSet(Copies(e, q))
  BY <1>1, CountType
<1>7. Cardinality(Copies(h, q) \ {1}) = Cardinality(Copies(e, q))
  BY <1>5, <1>6, FS_Bijection DEF ExistsBijection
<1>8. 1 \in Copies(h, q) <=> Head(h) = q
  BY <1>1 DEF Copies
<1>9. Cardinality(Copies(h, q) \ {1}) =
        IF Head(h) = q THEN Cardinality(Copies(h, q)) - 1 ELSE Cardinality(Copies(h, q))
  BY <1>6, <1>8, FS_RemoveElement
<1>10. Cardinality(Copies(h, q)) \in Nat /\ Cardinality(Copies(e, q)) \in Nat
  BY <1>6, FS_CardinalityType
<1> QED BY <1>1, <1>7, <1>9, <1>10 DEF Count, e

\* Handles of q are added.
LEMMA CountSent ==
  ASSUME NEW h \in Seq(Member), NEW q \in Member, NEW n \in Nat
  PROVE  /\ h \o [i \in 1..n |-> q] \in Seq(Member)
         /\ Len(h \o [i \in 1..n |-> q]) = Len(h) + n
         /\ \A r : Count(h \o [i \in 1..n |-> q], r)
                     = Count(h, r) + (IF r = q THEN n ELSE 0)
<1> DEFINE new == [i \in 1..n |-> q]
           e == h \o new
           N == Len(h)
<1>1. new \in Seq(Member) /\ Len(new) = n /\ N \in Nat
  OBVIOUS
<1>2. /\ e \in Seq(Member) /\ Len(e) = N + n
      /\ \A i \in 1..(N + n) : e[i] = IF i <= N THEN h[i] ELSE new[i - N]
  BY <1>1, ConcatProperties
<1>3. \A i \in 1..n : new[i] = q
  OBVIOUS
<1> HIDE DEF new, e
<1>4. \A i \in 1..(N + n) : e[i] = IF i <= N THEN h[i] ELSE q
  BY <1>1, <1>2, <1>3
<1>5. ASSUME NEW r PROVE Count(e, r) = Count(h, r) + (IF r = q THEN n ELSE 0)
  <2>1. DOMAIN e = 1..(N + n) /\ DOMAIN h = 1..N
    BY <1>2
  <2>2. Copies(e, r) = Copies(h, r) \cup (IF r = q THEN (N + 1)..(N + n) ELSE {})
    BY <1>1, <1>4, <2>1 DEF Copies
  <2>3. Copies(h, r) \cap (IF r = q THEN (N + 1)..(N + n) ELSE {}) = {}
    BY <1>1, <2>1 DEF Copies
  <2>4. /\ IsFiniteSet((N + 1)..(N + n)) /\ Cardinality((N + 1)..(N + n)) = n
    <3> DEFINE first == N + 1
               last == N + n
    <3>1. first \in Int /\ last \in Int /\ last = first + n - 1
      BY <1>1
    <3> HIDE DEF first, last
    <3>2. /\ IsFiniteSet(first..last)
          /\ Cardinality(first..last) = IF first > last THEN 0 ELSE last - first + 1
      BY ONLY <3>1, FS_Interval
    <3>3. IsFiniteSet(first..last) /\ Cardinality(first..last) = n
      BY <3>1, <3>2
    <3> QED BY <3>3 DEF first, last
  <2>5. IsFiniteSet(Copies(h, r)) /\ Cardinality(Copies(h, r)) \in Nat
    BY CountType DEF Count
  <2>6. CASE r = q
    <3>1. Copies(e, r) = Copies(h, r) \cup ((N + 1)..(N + n))
          /\ Copies(h, r) \cap ((N + 1)..(N + n)) = {}
      BY <2>2, <2>3, <2>6
    <3> DEFINE X == Copies(h, r)
               Y == (N + 1)..(N + n)
    <3> HIDE DEF X, Y
    <3>2. Cardinality(X \cup Y) = Cardinality(X) + Cardinality(Y) - Cardinality(X \cap Y)
      BY <2>4, <2>5, FS_Union DEF X, Y
    <3>3. Cardinality(X \cap Y) = 0
      BY <3>1, FS_EmptySet DEF X, Y
    <3>4. Cardinality(Copies(e, r)) = Cardinality(Copies(h, r)) + n - 0
      BY <2>4, <3>1, <3>2, <3>3 DEF X, Y
    <3> QED BY <2>5, <2>6, <3>4 DEF Count
  <2>7. CASE r # q
    BY <2>2, <2>5, <2>7 DEF Count
  <2> QED BY <2>6, <2>7
<1> QED BY <1>1, <1>2, <1>5 DEF e, new

\* If there are no more handles of any member than items it can hold, then no
\* more handles than places.
LEMMA HandlesFit ==
  ASSUME QueueSetAssumption, NEW h \in Seq(Member),
         \A q \in Member : Count(h, q) <= uxLength[q]
  PROVE  Cardinality(Slots) \in Nat /\ Len(h) <= Cardinality(Slots)
<1> DEFINE b == [q \in Member |->
                   CHOOSE g \in Bijection(Copies(h, q), 1..Count(h, q)) : TRUE]
           f == [i \in 1..Len(h) |-> << h[i], b[h[i]][i] >>]
<1>1. ASSUME NEW q \in Member
      PROVE  b[q] \in Bijection(Copies(h, q), 1..Count(h, q))
  <2>1. ExistsBijection(1..Count(h, q), Copies(h, q))
    BY CountType, FS_CardinalityType DEF Count
  <2>2. ExistsBijection(Copies(h, q), 1..Count(h, q))
    BY <2>1, Fun_ExistsBijSymmetric
  <2> QED BY <2>2 DEF ExistsBijection
<1> HIDE DEF b
<1>2. ASSUME NEW i \in 1..Len(h)
      PROVE  /\ h[i] \in Member /\ i \in Copies(h, h[i])
             /\ b[h[i]][i] \in 1..uxLength[h[i]]
  <2>1. h[i] \in Member /\ i \in Copies(h, h[i])
    BY ElementOfSeq DEF Copies
  <2>2. b[h[i]][i] \in 1..Count(h, h[i])
    BY <1>1, <2>1 DEF Bijection, Injection, Surjection
  <2>3. Count(h, h[i]) \in Nat /\ uxLength[h[i]] \in Nat
    BY <2>1, CountType DEF QueueSetAssumption
  <2> QED BY <2>1, <2>2, <2>3
<1>3. f \in [1..Len(h) -> Slots]
  BY <1>2 DEF Slots
<1>4. ASSUME NEW i \in 1..Len(h), NEW j \in 1..Len(h), f[i] = f[j] PROVE i = j
  <2>1. h[i] = h[j] /\ b[h[i]][i] = b[h[i]][j]
    BY <1>4
  <2>2. i \in Copies(h, h[i]) /\ j \in Copies(h, h[i]) /\ h[i] \in Member
    BY <1>2, <2>1
  <2> QED BY <1>1, <2>1, <2>2 DEF Bijection, Injection, IsInjective
<1>5. f \in Injection(1..Len(h), Slots)
  BY <1>3, <1>4 DEF Injection, IsInjective
<1>6. IsFiniteSet(Slots)
  <2> DEFINE parts == [q \in Member |-> {q} \X (1..uxLength[q])]
             all == {{q} \X (1..uxLength[q]) : q \in Member}
  <2>1. parts \in Surjection(Member, all)
    BY DEF Surjection
  <2>2. IsFiniteSet(all)
    BY <2>1, FS_Surjection DEF QueueSetAssumption
  <2>3. ASSUME NEW q \in Member PROVE IsFiniteSet({q} \X (1..uxLength[q]))
    <3>1. 1 \in Int /\ uxLength[q] \in Int
      BY DEF QueueSetAssumption
    <3>2. IsFiniteSet({q}) /\ IsFiniteSet(1..uxLength[q])
      BY <3>1, FS_Singleton, FS_Interval
    <3> QED BY <3>2, FS_Product
  <2> QED BY <2>2, <2>3, FS_UNION DEF Slots
<1>7. Cardinality(1..Len(h)) = Len(h) /\ Cardinality(Slots) \in Nat
  <2> DEFINE last == Len(h)
  <2>1. 1 \in Int /\ last \in Nat
    OBVIOUS
  <2> HIDE DEF last
  <2>2. Cardinality(1..last) = IF 1 > last THEN 0 ELSE last - 1 + 1
    BY ONLY <2>1, FS_Interval
  <2>3. Cardinality(1..last) = last
    BY <2>1, <2>2
  <2> QED BY <1>6, <2>3, FS_CardinalityType DEF last
<1>8. Cardinality(1..Len(h)) <= Cardinality(Slots)
  BY <1>5, <1>6, FS_Injection
<1> QED BY <1>7, <1>8
-----------------------------------------------------------------------------
(* The invariant.                                                           *)

\* Where a task has suspended the scheduler, and where it has a member.
SetHolding == {"testSet", "placeSet", "unlockSet"}
Holding == {"test", "place", "unlock", "unlockRx"} \cup SetHolding
User == {"send", "lock", "test", "place", "unlock", "unlockRx"}
Places == {"app", "select", "lockSet", "remove"} \cup User \cup Holding

Locks == queueUNLOCKED..uxNumberOfTasks

CallersType ==
  /\ pc \in [Task -> Places]
  /\ member \in [Task -> Member \cup {NoMember}]
  /\ selected \in [Task -> Member \cup {NoMember}]

ItemsType ==
  /\ uxMessagesWaiting \in [Member -> Nat]
  /\ \A q \in Member : uxMessagesWaiting[q] <= uxLength[q]

MembersType ==
  /\ inSet \in [Member -> BOOLEAN]
  /\ cTxLock \in [Member -> Locks] /\ cRxLock \in [Member -> Locks]
  /\ xTasksWaitingToSend \in [Member -> Seq(Task)]

SetType ==
  /\ handles \in Seq(Member) /\ Len(handles) <= uxEventQueueLength
  /\ setTxLock \in Locks
  /\ xTasksWaitingToReceive \in Seq(Task) /\ IsInjective(xTasksWaitingToReceive)

TypeInv ==
  /\ CallersType /\ ItemsType /\ MembersType /\ SetType
  /\ suspender \in Task \cup {NoTask}

HolderOK(t) == (suspender = t) <=> pc[t] \in Holding

\* A lock is that of the task in its suspension, and an overwritten member has
\* none, since no task sends to it.
LockOK ==
  /\ (setTxLock # queueUNLOCKED) <=> \E t \in Task : pc[t] \in SetHolding
  /\ \A q \in Member : cTxLock[q] # queueUNLOCKED =>
       \E t \in Task : pc[t] \in {"test", "place", "unlock"} /\ member[t] = q

\* Where a task waits, has a member and has a handle; a member that is removed
\* is empty and used by no other; and the handles sent since a task that is
\* about to wait has looked are counted, as far as a lock counts.
TaskOK(t) ==
  /\ pc[t] \in User => member[t] \in Member \ Overwritten
  /\ pc[t] = "remove" => /\ member[t] \in Member /\ uxMessagesWaiting[member[t]] = 0
                         /\ \A u \in Task : member[u] = member[t] => u = t
  /\ pc[t] \notin User \cup {"remove"} => member[t] = NoMember
  /\ selected[t] # NoMember => pc[t] = "app"
  /\ pc[t] = "placeSet" => Len(handles) <= setTxLock \/ setTxLock = uxNumberOfTasks
  /\ t \in ToSet(xTasksWaitingToReceive) => pc[t] \in {"unlockSet", "select"}
  /\ \A q \in Member : t \in ToSet(xTasksWaitingToSend[q]) =>
       pc[t] \in {"unlock", "unlockRx", "send"}

\* All but what the properties say.
Base ==
  /\ QueueSetAssumption /\ WellUsed
  /\ TypeInv /\ LockOK
  /\ \A t \in Task : HolderOK(t) /\ TaskOK(t)

Lookers == {t \in Task : Looking(t)}

\* What a state of the invariant knows.
LEMMA Known ==
  ASSUME Base
  PROVE  /\ QueueSetAssumption /\ WellUsed /\ TypeInv /\ LockOK
         /\ CallersType /\ ItemsType /\ MembersType /\ SetType
         /\ \A t \in Task : HolderOK(t) /\ TaskOK(t)
         /\ NoTask \notin Task /\ NoMember \notin Member
         /\ uxNumberOfTasks \in Nat /\ uxEventQueueLength \in Nat
         /\ \A q \in Member : uxLength[q] \in Nat
         /\ Lookers \in SUBSET Task
BY DEF Base, TypeInv, QueueSetAssumption, Lookers

\* While nobody holds the scheduler nothing is locked.
LEMMA NothingLocked ==
  ASSUME Base, suspender = NoTask
  PROVE  /\ setTxLock = queueUNLOCKED
         /\ \A q \in Member : cTxLock[q] = queueUNLOCKED
         /\ \A t \in Task : pc[t] \notin Holding
BY Known DEF LockOK, HolderOK, Holding, SetHolding

\* A task outside a suspension only goes on while nobody is in one.
LEMMA NotHolding ==
  ASSUME Base, NEW t \in Task, NEW place, place \notin Holding, At(t, place)
  PROVE  suspender = NoTask /\ pc[t] = place /\ ~Waiting(t)
BY Known DEF At, Runs, HolderOK

\* A step of task t leaves the others where they are.
LEMMA TaskStep ==
  ASSUME Base, NEW t \in Task, suspender \in {NoTask, t}, suspender' \in {NoTask, t},
         TypeInv', LockOK', HolderOK(t)', TaskOK(t)',
         \A u \in Task \ {t} :
           pc'[u] = pc[u] /\ member'[u] = member[u] /\ selected'[u] = selected[u],
         ToSet(xTasksWaitingToReceive') \subseteq ToSet(xTasksWaitingToReceive) \cup {t},
         \A q \in Member :
           ToSet(xTasksWaitingToSend'[q]) \subseteq ToSet(xTasksWaitingToSend[q]) \cup {t},
         \A u \in Task \ {t} : pc[u] = "remove" =>
           uxMessagesWaiting'[member[u]] = 0 /\ member'[t] # member[u]
  PROVE  Base' /\ Lookers' \in SUBSET Task /\ Lookers \ {t} \subseteq Lookers'
<1>1. NoTask \notin Task
  BY Known
<1>2. ASSUME NEW u \in Task, u # t PROVE HolderOK(u)' /\ TaskOK(u)'
  <2>1. pc'[u] \notin Holding /\ suspender' # u
    BY <1>1, <1>2, Known DEF HolderOK
  <2>2. HolderOK(u)' /\ pc'[u] # "placeSet"
    BY <2>1 DEF HolderOK, Holding, SetHolding
  <2>3. TaskOK(u)
    BY Known
  <2>4. pc'[u] = "remove" =>
          /\ member'[u] \in Member /\ uxMessagesWaiting'[member'[u]] = 0
          /\ \A w \in Task : member'[w] = member'[u] => w = u
    BY <1>2, <2>3 DEF TaskOK
  <2>5. u \in ToSet(xTasksWaitingToReceive') => pc'[u] \in {"unlockSet", "select"}
    BY <1>2, <2>3 DEF TaskOK
  <2>6. \A q \in Member : u \in ToSet(xTasksWaitingToSend'[q]) =>
          pc'[u] \in {"unlock", "unlockRx", "send"}
    BY <1>2, <2>3 DEF TaskOK
  <2>7. TaskOK(u)'
    BY <1>2, <2>2, <2>3, <2>4, <2>5, <2>6 DEF TaskOK
  <2> QED BY <2>2, <2>7
<1>3. Lookers \ {t} \subseteq Lookers'
  BY DEF Lookers, Looking, Waiting
<1> QED BY <1>2, <1>3 DEF Base, Lookers, QueueSetAssumption, WellUsed, Slots

\* A step that leaves all tasks at their places.
LEMMA TasksStay ==
  ASSUME Base, UNCHANGED << pc, member, selected, suspender >>,
         TypeInv', LockOK',
         ToSet(xTasksWaitingToReceive') \subseteq ToSet(xTasksWaitingToReceive),
         \A q \in Member :
           ToSet(xTasksWaitingToSend'[q]) \subseteq ToSet(xTasksWaitingToSend[q]),
         \A u \in Task : pc[u] = "remove" => uxMessagesWaiting'[member[u]] = 0,
         setTxLock # queueUNLOCKED =>
           (Len(handles) <= setTxLock \/ setTxLock = uxNumberOfTasks
             => Len(handles') <= setTxLock' \/ setTxLock' = uxNumberOfTasks)
  PROVE  Base' /\ Lookers' \in SUBSET Task /\ Lookers \subseteq Lookers'
<1>1. ASSUME NEW u \in Task PROVE HolderOK(u)' /\ TaskOK(u)'
  <2>1. HolderOK(u)'
    BY Known DEF HolderOK
  <2>2. pc[u] = "placeSet" => setTxLock # queueUNLOCKED
    BY Known DEF LockOK, SetHolding
  <2> QED BY <2>1, <2>2, Known DEF TaskOK
<1>2. Lookers \subseteq Lookers'
  BY DEF Lookers, Looking, Waiting
<1> QED BY <1>1, <1>2 DEF Base, Lookers, QueueSetAssumption, WellUsed, Slots
-----------------------------------------------------------------------------
(* Lists of tasks.                                                          *)

\* The first n of a list are woken.
LEMMA AllButList ==
  ASSUME NEW list \in Seq(Task), NEW n \in Nat
  PROVE  /\ AllBut(n, list) \in Seq(Task)
         /\ ToSet(AllBut(n, list)) \subseteq ToSet(list)
         /\ Len(AllBut(n, list)) = IF n >= Len(list) THEN 0 ELSE Len(list) - n
<1>1. Len(list) \in Nat
  OBVIOUS
<1>2. CASE n >= Len(list)
  <2>1. AllBut(n, list) = << >>
    BY <1>1, <1>2 DEF AllBut
  <2> QED BY <1>1, <1>2, <2>1 DEF ToSet
<1>3. CASE n < Len(list)
  <2> DEFINE e == SubSeq(list, n + 1, Len(list))
  <2>1. n + 1 \in Nat /\ 1 <= n + 1 /\ n + 1 <= Len(list) + 1
    BY <1>1, <1>3
  <2>2. /\ e \in Seq(Task) /\ Len(e) = (Len(list) + 1) - (n + 1)
        /\ \A k \in 1..((Len(list) + 1) - (n + 1)) : e[k] = list[((n + 1) - 1) + k]
    BY <1>1, <2>1, Slice
  <2>3. AllBut(n, list) = e
    BY DEF AllBut
  <2> HIDE DEF e
  <2>4. Len(e) = Len(list) - n /\ \A k \in 1..(Len(list) - n) : e[k] = list[n + k]
    BY <1>1, <1>3, <2>2
  <2>5. DOMAIN e = 1..(Len(list) - n) /\ DOMAIN list = 1..Len(list)
    BY <2>2, <2>4
  <2>6. ASSUME NEW x \in ToSet(e) PROVE x \in ToSet(list)
    <3>1. PICK k \in DOMAIN e : x = e[k]
      BY InToSet
    <3>2. n + k \in DOMAIN list /\ x = list[n + k]
      BY <1>1, <1>3, <2>4, <2>5, <3>1
    <3> QED BY <3>2, InToSet
  <2> QED BY <1>3, <2>2, <2>3, <2>4, <2>6
<1> QED BY <1>1, <1>2, <1>3

\* No task is left in it twice.
LEMMA AllButInjective ==
  ASSUME NEW list \in Seq(Task), IsInjective(list), NEW n \in Nat
  PROVE  IsInjective(AllBut(n, list))
<1>1. Len(list) \in Nat
  OBVIOUS
<1>2. CASE n >= Len(list)
  <2>1. AllBut(n, list) = << >>
    BY <1>1, <1>2 DEF AllBut
  <2> QED BY <2>1 DEF IsInjective
<1>3. CASE n < Len(list)
  <2>1. n \in 0..Len(list)
    BY <1>1, <1>3
  <2> QED BY <2>1, DropFirst DEF AllBut
<1> QED BY <1>1, <1>2, <1>3

\* uxListRemove
LEMMA WithoutList ==
  ASSUME NEW list \in Seq(Task), NEW t
  PROVE  /\ Without(list, t) \in Seq(Task)
         /\ ToSet(Without(list, t)) \subseteq ToSet(list)
         /\ IsInjective(list) => IsInjective(Without(list, t))
         /\ Len(Without(list, t)) <= Len(list)
<1>1. CASE t \notin ToSet(list)
  BY <1>1 DEF Without
<1>2. CASE t \in ToSet(list)
  <2> DEFINE n == CHOOSE i \in 1..Len(list) : list[i] = t
  <2>1. DOMAIN list = 1..Len(list) /\ \E i \in 1..Len(list) : list[i] = t
    BY <1>2, InToSet
  <2>2. n \in 1..Len(list) /\ Len(list) \in Nat
    BY <2>1
  <2> HIDE DEF n
  <2> DEFINE N == Len(list)
             a == SubSeq(list, 1, n - 1)
             b == SubSeq(list, n + 1, N)
  <2>3. /\ a \in Seq(Task) /\ Len(a) = n - 1
        /\ \A k \in 1..(n - 1) : a[k] = list[k]
    <3>1. /\ a \in Seq(Task) /\ Len(a) = ((n - 1) + 1) - 1
          /\ \A k \in 1..(((n - 1) + 1) - 1) : a[k] = list[(1 - 1) + k]
      BY <2>2, Slice
    <3> QED BY <2>2, <3>1
  <2>4. /\ b \in Seq(Task) /\ Len(b) = N - n
        /\ \A k \in 1..(N - n) : b[k] = list[n + k]
    <3>1. /\ b \in Seq(Task) /\ Len(b) = (N + 1) - (n + 1)
          /\ \A k \in 1..((N + 1) - (n + 1)) : b[k] = list[((n + 1) - 1) + k]
      BY <2>2, Slice
    <3> QED BY <2>2, <3>1
  <2>5. Without(list, t) = a \o b
    BY <1>2 DEF Without, RemoveAt, n
  <2> HIDE DEF a, b
  <2> DEFINE e == a \o b
  <2>6. /\ e \in Seq(Task) /\ Len(e) = Len(a) + Len(b)
        /\ \A k \in 1..(Len(a) + Len(b)) : e[k] = IF k <= Len(a) THEN a[k] ELSE b[k - Len(a)]
    BY <2>3, <2>4, ConcatProperties
  <2> HIDE DEF e
  <2>7. Len(e) = N - 1 /\ DOMAIN e = 1..(N - 1)
    BY <2>2, <2>3, <2>4, <2>6
  <2>8. ASSUME NEW k \in 1..(N - 1)
        PROVE  e[k] = list[IF k < n THEN k ELSE k + 1]
    <3>1. k \in 1..(Len(a) + Len(b)) /\ Len(a) = n - 1
      BY <2>2, <2>3, <2>4
    <3>2. CASE k < n
      <4>1. k \in 1..(n - 1) /\ k <= Len(a)
        BY <2>2, <3>1, <3>2
      <4>2. e[k] = a[k] /\ a[k] = list[k]
        BY <2>3, <2>6, <3>1, <4>1
      <4> QED BY <3>2, <4>2
    <3>3. CASE ~(k < n)
      <4> DEFINE i == k - (n - 1)
      <4>1. i \in 1..(N - n) /\ ~(k <= n - 1) /\ n + i = k + 1
        BY <2>2, <3>3
      <4>2. e[k] = b[i] /\ b[i] = list[n + i]
        BY <2>4, <2>6, <3>1, <4>1
      <4> QED BY <3>3, <4>1, <4>2
    <3> QED BY <3>2, <3>3
  <2>9. ASSUME NEW x \in ToSet(e) PROVE x \in ToSet(list)
    <3>1. PICK k \in DOMAIN e : x = e[k]
      BY InToSet
    <3>2. (IF k < n THEN k ELSE k + 1) \in DOMAIN list /\ x = list[IF k < n THEN k ELSE k + 1]
      BY <2>1, <2>2, <2>7, <2>8, <3>1
    <3> QED BY <3>2, InToSet
  <2>10. ASSUME IsInjective(list) PROVE IsInjective(e)
    <3>1. \A i, j \in 1..N : list[i] = list[j] => i = j
      BY <2>1, <2>10 DEF IsInjective
    <3>2. ASSUME NEW i \in 1..(N - 1), NEW j \in 1..(N - 1), e[i] = e[j] PROVE i = j
      <4> DEFINE x == IF i < n THEN i ELSE i + 1
                 y == IF j < n THEN j ELSE j + 1
      <4>1. x \in 1..N /\ y \in 1..N /\ list[x] = list[y]
        BY <2>2, <2>8, <3>2
      <4>2. x = y
        BY <3>1, <4>1
      <4> QED BY <2>2, <4>2
    <3> QED BY <2>7, <3>2 DEF IsInjective
  <2> QED BY <2>2, <2>5, <2>6, <2>7, <2>9, <2>10 DEF e
<1> QED BY <1>1, <1>2

\* vTaskPlaceOnEventList at the end
LEMMA AppendList ==
  ASSUME NEW list \in Seq(Task), NEW t \in Task
  PROVE  /\ Append(list, t) \in Seq(Task) /\ Len(Append(list, t)) = Len(list) + 1
         /\ ToSet(Append(list, t)) \subseteq ToSet(list) \cup {t}
         /\ IsInjective(list) /\ t \notin ToSet(list) => IsInjective(Append(list, t))
<1> DEFINE e == Append(list, t)
           N == Len(list)
<1>1. /\ e \in Seq(Task) /\ Len(e) = N + 1 /\ N \in Nat
      /\ \A i \in 1..N : e[i] = list[i]
      /\ e[N + 1] = t /\ DOMAIN e = 1..(N + 1) /\ DOMAIN list = 1..N
  BY AppendProperties
<1> HIDE DEF e
<1>2. ASSUME NEW x \in ToSet(e), x # t PROVE x \in ToSet(list)
  <2>1. PICK k \in 1..(N + 1) : x = e[k]
    BY <1>1, InToSet
  <2>2. k \in 1..N
    BY <1>1, <1>2, <2>1
  <2> QED BY <1>1, <2>1, <2>2, InToSet
<1>3. ASSUME IsInjective(list), t \notin ToSet(list) PROVE IsInjective(e)
  <2>1. \A i, j \in 1..N : list[i] = list[j] => i = j
    BY <1>1, <1>3 DEF IsInjective
  <2>2. \A i \in 1..N : list[i] # t
    BY <1>1, <1>3, InToSet
  <2>3. \A i, j \in 1..(N + 1) : e[i] = e[j] => i = j
    BY <1>1, <2>1, <2>2
  <2> QED BY <1>1, <2>3 DEF IsInjective
<1> QED BY <1>1, <1>2, <1>3 DEF e
-----------------------------------------------------------------------------
(* Who is woken for the handles.                                            *)

\* How many a lock of the set still wakes.
SetOwed(lock) == IF lock > 0 THEN lock ELSE 0

\* n handles are served by the tasks W, that look, and by those of the list
\* that the lock wakes.
Served(n, W, lock, list) ==
  \/ Len(list) <= SetOwed(lock)
  \/ n <= Cardinality(W) + SetOwed(lock)

\* The property in these words.
LEMMA WokenIsServed ==
  /\ SelectorsWoken <=> Served(Len(handles), Lookers, setTxLock, xTasksWaitingToReceive)
  /\ SelectorsWoken'
       <=> Served(Len(handles'), Lookers', setTxLock', xTasksWaitingToReceive')
BY DEF SelectorsWoken, Served, SetOwed, Lookers

\* Sets of tasks are finite, and a list is no longer than there are tasks.
LEMMA TaskSets ==
  ASSUME QueueSetAssumption
  PROVE  /\ \A W \in SUBSET Task : IsFiniteSet(W) /\ Cardinality(W) \in Nat
         /\ \A W, V \in SUBSET Task : W \subseteq V => Cardinality(W) <= Cardinality(V)
         /\ \A list \in Seq(Task) :
              IsInjective(list) => Len(list) <= uxNumberOfTasks
<1>1. \A W \in SUBSET Task : IsFiniteSet(W) /\ Cardinality(W) \in Nat
  BY FS_Subset, FS_CardinalityType DEF QueueSetAssumption
<1>2. ASSUME NEW W \in SUBSET Task, NEW V \in SUBSET Task, W \subseteq V
      PROVE  Cardinality(W) <= Cardinality(V)
  BY <1>1, <1>2, FS_Subset
<1>3. ASSUME NEW list \in Seq(Task), IsInjective(list)
      PROVE  Len(list) <= uxNumberOfTasks
  <2>1. Len(list) <= Cardinality(Task)
    BY <1>3, ListBound DEF QueueSetAssumption
  <2>2. Cardinality(Task) \in Nat
    BY <1>1
  <2> QED BY <2>1, <2>2 DEF QueueSetAssumption
<1> QED BY <1>1, <1>2, <1>3

\* No handle more, no task more that waits, and nobody less that looks.
LEMMA ServedByMore ==
  ASSUME QueueSetAssumption, NEW n \in Int, NEW m \in Int, m <= n,
         NEW W \in SUBSET Task, NEW V \in SUBSET Task, W \subseteq V,
         NEW list \in Seq(Task), NEW rest \in Seq(Task), Len(rest) <= Len(list),
         NEW lock \in Int, NEW lock2 \in Int,
         lock2 = lock \/ (lock <= 0 /\ lock2 <= 0),
         Served(n, W, lock, list)
  PROVE  Served(m, V, lock2, rest)
<1>1. /\ Cardinality(W) \in Nat /\ Cardinality(V) \in Nat
      /\ Cardinality(W) <= Cardinality(V) /\ Len(list) \in Nat /\ Len(rest) \in Nat
  BY TaskSets
<1>2. SetOwed(lock2) = SetOwed(lock) /\ SetOwed(lock) \in Int
  BY DEF SetOwed
<1> QED BY <1>1, <1>2 DEF Served

\* A handle is taken by one who looked, or by an interrupt.
LEMMA ServedByLess ==
  ASSUME QueueSetAssumption, NEW n \in Int,
         NEW W \in SUBSET Task, NEW V \in SUBSET Task, NEW t, W \ {t} \subseteq V,
         NEW list \in Seq(Task), NEW lock \in Int, Served(n, W, lock, list)
  PROVE  Served(n - 1, V, lock, list)
<1>1. /\ Cardinality(W) \in Nat /\ Cardinality(V) \in Nat
      /\ IsFiniteSet(W) /\ IsFiniteSet(V) /\ Len(list) \in Nat
  BY TaskSets
<1>2. Cardinality(W) - 1 <= Cardinality(V)
  BY <1>1, WithoutOne
<1>3. SetOwed(lock) \in Int
  BY DEF SetOwed
<1> QED BY <1>1, <1>2, <1>3 DEF Served

\* k tasks are woken, for as many handles as there are more than the lock had
\* counted.
LEMMA ServedByWoken ==
  ASSUME QueueSetAssumption, NEW n \in Int, NEW k \in Nat,
         NEW W \in SUBSET Task, NEW V \in SUBSET Task,
         NEW list \in Seq(Task), IsInjective(list),
         NEW lock \in Int, SetOwed(lock) <= k,
         Served(n, W, lock, list),
         W \cup (ToSet(list) \ ToSet(AllBut(k, list))) \subseteq V,
         W \cap ToSet(list) = {}
  PROVE  Served(n + (k - SetOwed(lock)), V, queueUNLOCKED, AllBut(k, list))
<1> DEFINE e == AllBut(k, list)
           K == ToSet(list) \ ToSet(e)
<1>1. /\ e \in Seq(Task) /\ IsInjective(e) /\ ToSet(e) \subseteq ToSet(list)
      /\ Len(e) = IF k >= Len(list) THEN 0 ELSE Len(list) - k
      /\ Len(list) \in Nat
  BY AllButList, AllButInjective
<1> HIDE DEF e
<1>2. Cardinality(K) = Len(list) - Len(e)
  BY <1>1, DropCardinality
<1>3. IsFiniteSet(V) /\ W \cup K \subseteq V /\ W \cap K = {}
  BY TaskSets DEF e
<1> HIDE DEF K
<1>4. /\ Cardinality(W) \in Nat /\ Cardinality(K) \in Nat /\ Cardinality(V) \in Nat
      /\ Cardinality(W) + Cardinality(K) <= Cardinality(V)
  BY <1>3, DisjointParts
<1>5. SetOwed(queueUNLOCKED) = 0 /\ SetOwed(lock) \in Nat
  BY DEF SetOwed, queueUNLOCKED
<1>6. CASE k >= Len(list)
  BY <1>1, <1>5, <1>6 DEF Served, e
<1>7. CASE k < Len(list)
  <2>1. n <= Cardinality(W) + SetOwed(lock)
    BY <1>1, <1>5, <1>7 DEF Served
  <2>2. Cardinality(K) = k
    BY <1>1, <1>2, <1>7
  <2>3. n + (k - SetOwed(lock)) <= Cardinality(V) + 0
    BY <1>4, <1>5, <2>1, <2>2
  <2> QED BY <1>5, <2>3 DEF Served
<1> QED BY <1>1, <1>6, <1>7

\* Handles that arrive at the locked set are counted.
LEMMA ServedByCount ==
  ASSUME QueueSetAssumption, NEW n \in Int, NEW k \in Nat, NEW W \in SUBSET Task,
         NEW V \in SUBSET Task, W \subseteq V,
         NEW list \in Seq(Task), IsInjective(list),
         NEW lock \in 0..uxNumberOfTasks, Served(n, W, lock, list)
  PROVE  Served(n + k, V, Counted(lock, k), list)
<1>1. /\ Cardinality(W) \in Nat /\ Cardinality(V) \in Nat
      /\ Cardinality(W) <= Cardinality(V)
      /\ Len(list) \in Nat /\ Len(list) <= uxNumberOfTasks /\ uxNumberOfTasks \in Nat
  <2>1. uxNumberOfTasks \in Nat
    BY DEF QueueSetAssumption
  <2> QED BY <2>1, TaskSets
<1>2. CASE lock + k <= uxNumberOfTasks
  <2>1. Counted(lock, k) = lock + k
    BY <1>2 DEF Counted
  <2>2. SetOwed(lock + k) = SetOwed(lock) + k /\ SetOwed(lock) \in Nat
    BY DEF SetOwed
  <2> QED BY <1>1, <2>1, <2>2 DEF Served
<1>3. CASE lock + k > uxNumberOfTasks
  <2>1. Counted(lock, k) = uxNumberOfTasks
    BY <1>1, <1>3 DEF Counted
  <2>2. SetOwed(uxNumberOfTasks) = uxNumberOfTasks
    BY <1>1 DEF SetOwed
  <2> QED BY <1>1, <2>1, <2>2 DEF Served
<1> QED BY <1>1, <1>2, <1>3
-----------------------------------------------------------------------------
(* The handles of a member.                                                 *)

\* The tasks that have a handle of q.
Hands(q) == {t \in Task : selected[t] = q}

\* The property in these words, and the numbers in it.
LEMMA ItemsKnown ==
  ASSUME Base
  PROVE  \A q \in Member :
           /\ Count(handles, q) \in Nat /\ Cardinality(Hands(q)) \in Nat
           /\ Owed(q) \in Nat /\ uxLength[q] \in Nat /\ uxMessagesWaiting[q] \in Nat
           /\ uxMessagesWaiting[q] <= uxLength[q]
           /\ Announced(q) = Count(handles, q) + Cardinality(Hands(q))
<1> SUFFICES ASSUME NEW q \in Member
             PROVE  /\ Count(handles, q) \in Nat /\ Cardinality(Hands(q)) \in Nat
                    /\ Owed(q) \in Nat /\ uxLength[q] \in Nat
                    /\ uxMessagesWaiting[q] \in Nat
                    /\ uxMessagesWaiting[q] <= uxLength[q]
                    /\ Announced(q) = Count(handles, q) + Cardinality(Hands(q))
  OBVIOUS
<1>1. Count(handles, q) \in Nat
  BY Known, CountType DEF SetType
<1>2. Hands(q) \in SUBSET Task
  BY DEF Hands
<1>3. Cardinality(Hands(q)) \in Nat
  BY <1>2, Known, TaskSets
<1>4. cTxLock[q] \in Locks /\ uxNumberOfTasks \in Nat
  BY Known DEF MembersType
<1>5. Owed(q) \in Nat
  BY <1>4 DEF Owed, Locks, queueUNLOCKED
<1>6. Announced(q) = Count(handles, q) + Cardinality(Hands(q))
  BY DEF Announced, Count, Copies, Hands
<1> QED BY <1>1, <1>3, <1>5, <1>6, Known DEF ItemsType

\* Handles, selections and what is owed stay as they are.
LEMMA ItemsKept ==
  ASSUME EachItemAnnounced,
         UNCHANGED << inSet, uxMessagesWaiting, handles, selected >>,
         \A q \in Member : Owed(q)' = Owed(q)
  PROVE  EachItemAnnounced'
<1>1. \A q \in Member : Announced(q)' = Announced(q)
  BY DEF Announced
<1> QED BY <1>1 DEF EachItemAnnounced

\* There are no more handles of a member than the items it has room for.
LEMMA HandlesBound ==
  ASSUME Base, EachItemAnnounced
  PROVE  \A q \in Member :
           /\ Count(handles, q) <= uxLength[q]
           /\ ~inSet[q] => Count(handles, q) = 0 /\ Cardinality(Hands(q)) = 0
BY ItemsKnown DEF EachItemAnnounced

\* When the items sent have room in q, their handles have room in the set.
LEMMA AnnounceStep ==
  ASSUME Base, EachItemAnnounced, NEW q \in Member, NEW n \in Nat, Announce(q, n),
         inSet[q] => Count(handles, q) + n <= uxLength[q]
  PROVE  /\ SetType'
         /\ \A r \in Member :
              Count(handles', r) = Count(handles, r) + (IF r = q /\ inSet[q] THEN n ELSE 0)
         /\ ToSet(xTasksWaitingToReceive') \subseteq ToSet(xTasksWaitingToReceive)
         /\ setTxLock' = queueUNLOCKED <=> setTxLock = queueUNLOCKED
         /\ setTxLock # queueUNLOCKED =>
              (Len(handles) <= setTxLock \/ setTxLock = uxNumberOfTasks
                 => Len(handles') <= setTxLock' \/ setTxLock' = uxNumberOfTasks)
         /\ \A V \in SUBSET Task :
              /\ SelectorsWoken
              /\ Lookers \cup (ToSet(xTasksWaitingToReceive)
                                 \ ToSet(xTasksWaitingToReceive')) \subseteq V
              => Served(Len(handles'), V, setTxLock', xTasksWaitingToReceive')
<1>1. /\ SetType /\ QueueSetAssumption /\ WellUsed /\ Lookers \in SUBSET Task
      /\ uxNumberOfTasks \in Nat /\ uxEventQueueLength \in Nat
  BY Known
<1>2. /\ handles \in Seq(Member) /\ Len(handles) \in Nat
      /\ setTxLock \in Locks /\ setTxLock \in Int
      /\ xTasksWaitingToReceive \in Seq(Task) /\ IsInjective(xTasksWaitingToReceive)
  BY <1>1 DEF SetType, Locks, queueUNLOCKED
<1>3. Lookers \cap ToSet(xTasksWaitingToReceive) = {}
  BY DEF Lookers, Looking, Waiting
<1>4. CASE ~inSet[q]
  <2>1. UNCHANGED << handles, setTxLock, xTasksWaitingToReceive >>
    BY <1>4 DEF Announce, set
  <2>2. \A r \in Member : Count(handles, r) \in Nat
    BY ItemsKnown
  <2>3. ASSUME NEW V \in SUBSET Task, SelectorsWoken, Lookers \subseteq V
        PROVE  Served(Len(handles), V, setTxLock, xTasksWaitingToReceive)
    <3>1. Served(Len(handles), Lookers, setTxLock, xTasksWaitingToReceive)
      BY <2>3, WokenIsServed
    <3>2. Len(handles) <= Len(handles) /\ Len(handles) \in Int
          /\ Len(xTasksWaitingToReceive) <= Len(xTasksWaitingToReceive)
      BY <1>2
    <3> QED BY ONLY <1>1, <1>2, <2>3, <3>1, <3>2, V \in SUBSET Task, ServedByMore
  <2> QED BY <1>1, <1>4, <2>1, <2>2, <2>3 DEF SetType
<1>5. CASE inSet[q]
  <2> DEFINE more == handles \o [i \in 1..n |-> q]
  <2>1. /\ more \in Seq(Member) /\ Len(more) = Len(handles) + n
        /\ \A r : Count(more, r) = Count(handles, r) + (IF r = q THEN n ELSE 0)
    BY <1>2, CountSent
  <2>2. ASSUME NEW r \in Member PROVE Count(more, r) <= uxLength[r]
    <3>1. Count(handles, r) \in Nat /\ Count(handles, r) <= uxLength[r]
      BY ItemsKnown, HandlesBound
    <3>2. Count(more, r) = Count(handles, r) + (IF r = q THEN n ELSE 0)
      BY <2>1
    <3> HIDE DEF more
    <3> QED BY <1>5, <3>1, <3>2
  <2>3. Len(more) <= Cardinality(Slots) /\ Cardinality(Slots) \in Nat
    BY <1>1, <2>1, <2>2, HandlesFit
  <2>4. Len(handles) + n <= uxEventQueueLength
    BY <1>1, <1>2, <2>1, <2>3 DEF WellUsed
  <2> DEFINE sent == IF n < uxEventQueueLength - Len(handles) THEN n
                     ELSE uxEventQueueLength - Len(handles)
  <2>5. sent = n
    BY <1>1, <1>2, <2>4
  <2>6. /\ handles' = handles \o [i \in 1..sent |-> q]
        /\ IF setTxLock = queueUNLOCKED
           THEN /\ xTasksWaitingToReceive' = AllBut(sent, xTasksWaitingToReceive)
                /\ UNCHANGED setTxLock
           ELSE /\ setTxLock' = Counted(setTxLock, sent)
                /\ UNCHANGED xTasksWaitingToReceive
    BY <1>5 DEF Announce, prvNotifyQueueSetContainer
  <2> HIDE DEF sent
  <2>7. handles' = more
    BY <2>5, <2>6
  <2> HIDE DEF more
  <2>8. /\ handles' \in Seq(Member) /\ Len(handles') = Len(handles) + n
        /\ Len(handles') <= uxEventQueueLength
        /\ \A r \in Member :
             Count(handles', r) = Count(handles, r) + (IF r = q /\ inSet[q] THEN n ELSE 0)
    BY <1>5, <2>1, <2>4, <2>7
  <2>9. CASE setTxLock = queueUNLOCKED
    <3>1. /\ xTasksWaitingToReceive' = AllBut(n, xTasksWaitingToReceive)
          /\ setTxLock' = setTxLock
      BY <2>5, <2>6, <2>9
    <3>2. /\ xTasksWaitingToReceive' \in Seq(Task)
          /\ IsInjective(xTasksWaitingToReceive')
          /\ ToSet(xTasksWaitingToReceive') \subseteq ToSet(xTasksWaitingToReceive)
      BY <1>2, <3>1, AllButList, AllButInjective
    <3>3. SetOwed(setTxLock) = 0
      BY <2>9 DEF SetOwed, queueUNLOCKED
    <3>4. ASSUME NEW V \in SUBSET Task, SelectorsWoken,
                 Lookers \cup (ToSet(xTasksWaitingToReceive)
                                 \ ToSet(xTasksWaitingToReceive')) \subseteq V
          PROVE  Served(Len(handles'), V, setTxLock', xTasksWaitingToReceive')
      <4>1. Served(Len(handles), Lookers, setTxLock, xTasksWaitingToReceive)
        BY <3>4, WokenIsServed
      <4>2. Served(Len(handles) + (n - SetOwed(setTxLock)), V, queueUNLOCKED,
                   AllBut(n, xTasksWaitingToReceive))
        <5>1. /\ SetOwed(setTxLock) <= n /\ Len(handles) \in Int
              /\ Lookers \cup (ToSet(xTasksWaitingToReceive)
                    \ ToSet(AllBut(n, xTasksWaitingToReceive))) \subseteq V
          BY <1>2, <3>1, <3>3, <3>4
        <5> QED BY ONLY <1>1, <1>2, <1>3, <4>1, <5>1, n \in Nat, V \in SUBSET Task,
                        ServedByWoken
      <4> QED BY <1>2, <2>8, <2>9, <3>1, <3>3, <4>2
    <3> QED BY <1>1, <1>2, <2>8, <2>9, <3>1, <3>2, <3>4 DEF SetType
  <2>10. CASE setTxLock # queueUNLOCKED
    <3>1. /\ setTxLock' = Counted(setTxLock, n)
          /\ xTasksWaitingToReceive' = xTasksWaitingToReceive
      BY <2>5, <2>6, <2>10
    <3>2. setTxLock \in 0..uxNumberOfTasks
      BY <1>2, <2>10 DEF Locks, queueUNLOCKED
    <3>3. /\ setTxLock' = setTxLock + n \/ setTxLock' = uxNumberOfTasks
          /\ setTxLock' \in 0..uxNumberOfTasks
      BY <1>1, <3>1, <3>2 DEF Counted
    <3>4. setTxLock' \in Locks /\ setTxLock' # queueUNLOCKED
      BY <1>1, <3>3 DEF Locks, queueUNLOCKED
    <3>5. Len(handles) <= setTxLock \/ setTxLock = uxNumberOfTasks
            => Len(handles') <= setTxLock' \/ setTxLock' = uxNumberOfTasks
      BY <1>1, <1>2, <2>8, <3>1, <3>2, <3>3 DEF Counted
    <3>6. ASSUME NEW V \in SUBSET Task, SelectorsWoken, Lookers \subseteq V
          PROVE  Served(Len(handles'), V, setTxLock', xTasksWaitingToReceive)
      <4>1. Served(Len(handles), Lookers, setTxLock, xTasksWaitingToReceive)
        BY <3>6, WokenIsServed
      <4> QED BY <1>1, <1>2, <2>8, <3>1, <3>2, <3>6, <4>1, ServedByCount
    <3> QED BY <1>1, <1>2, <2>8, <2>10, <3>1, <3>4, <3>5, <3>6 DEF SetType
  <2> QED BY <2>9, <2>10
<1> QED BY <1>4, <1>5
-----------------------------------------------------------------------------
(* The steps.                                                               *)

Inv == Base /\ EachItemAnnounced /\ SelectorsWoken

\* Only one task has suspended the scheduler.
LEMMA OneHolder ==
  ASSUME Base, NEW t \in Task, pc[t] \in Holding
  PROVE  suspender = t /\ \A u \in Task \ {t} : pc[u] \notin Holding
BY Known DEF HolderOK

\* Outside its suspensions nothing is locked.
LEMMA StillUnlocked ==
  ASSUME Base, NEW t \in Task, suspender = NoTask,
         setTxLock' = queueUNLOCKED <=> setTxLock = queueUNLOCKED,
         UNCHANGED cTxLock,
         \A u \in Task \ {t} : pc'[u] = pc[u], pc'[t] \notin Holding
  PROVE  LockOK'
<1>1. \A u \in Task : pc'[u] \notin Holding
  BY NothingLocked
<1> QED BY <1>1, NothingLocked DEF LockOK, Holding, SetHolding

\* A task that does not look yet leaves as many that do.
LEMMA StillServed ==
  ASSUME Base, SelectorsWoken, Lookers' \in SUBSET Task, SetType',
         \/ Lookers \subseteq Lookers' \/ handles' = << >>,
         Len(handles') <= Len(handles),
         Len(xTasksWaitingToReceive') <= Len(xTasksWaitingToReceive),
         setTxLock' = setTxLock \/ (setTxLock <= 0 /\ setTxLock' <= 0)
  PROVE  SelectorsWoken'
<1>1. /\ QueueSetAssumption /\ Lookers \in SUBSET Task
      /\ handles \in Seq(Member) /\ handles' \in Seq(Member)
      /\ setTxLock \in Int /\ setTxLock' \in Int
      /\ xTasksWaitingToReceive \in Seq(Task) /\ xTasksWaitingToReceive' \in Seq(Task)
  BY Known DEF SetType, Locks, queueUNLOCKED
<1>2. Len(handles) \in Int /\ Len(handles') \in Int
  BY <1>1
<1>3. CASE Lookers \subseteq Lookers'
  <2>1. Served(Len(handles), Lookers, setTxLock, xTasksWaitingToReceive)
    BY WokenIsServed
  <2>2. Served(Len(handles'), Lookers', setTxLock', xTasksWaitingToReceive')
    BY <1>1, <1>2, <1>3, <2>1, ServedByMore
  <2> QED BY <2>2, WokenIsServed
<1>4. CASE handles' = << >>
  <2>1. Cardinality(Lookers') \in Nat
    BY <1>1, TaskSets
  <2>2. Len(handles') = 0 /\ SetOwed(setTxLock') \in Nat
    BY <1>1, <1>4 DEF SetOwed
  <2>3. Served(Len(handles'), Lookers', setTxLock', xTasksWaitingToReceive')
    BY <2>1, <2>2 DEF Served
  <2> QED BY <2>3, WokenIsServed
<1> QED BY <1>3, <1>4

\* A step of task t that sends, receives and wakes nothing for the set.
LEMMA QuietStep ==
  ASSUME Inv, NEW t \in Task, suspender \in {NoTask, t}, suspender' \in {NoTask, t},
         UNCHANGED << inSet, uxMessagesWaiting, handles, selected,
                      xTasksWaitingToReceive >>,
         CallersType', MembersType', setTxLock' \in Locks,
         setTxLock' = setTxLock \/ (setTxLock <= 0 /\ setTxLock' <= 0),
         \A q \in Member : Owed(q)' = Owed(q),
         LockOK', HolderOK(t)', TaskOK(t)',
         \A u \in Task \ {t} : pc'[u] = pc[u] /\ member'[u] = member[u],
         \A q \in Member :
           ToSet(xTasksWaitingToSend'[q]) \subseteq ToSet(xTasksWaitingToSend[q]) \cup {t},
         \A u \in Task \ {t} : pc[u] = "remove" => member'[t] # member[u],
         t \notin Lookers \/ t \in Lookers' \/ handles = << >>
  PROVE  Inv'
<1>1. Base /\ EachItemAnnounced /\ SelectorsWoken
  BY DEF Inv
<1>2. TypeInv'
  BY <1>1, Known DEF TypeInv, ItemsType, SetType
<1>3. \A u \in Task \ {t} : pc[u] = "remove" =>
        uxMessagesWaiting'[member[u]] = 0 /\ member'[t] # member[u]
  BY <1>1, Known DEF TaskOK
<1>4. Base' /\ Lookers' \in SUBSET Task /\ Lookers \ {t} \subseteq Lookers'
  BY <1>1, <1>2, <1>3, TaskStep
<1>5. EachItemAnnounced'
  BY <1>1, ItemsKept
<1>6. SetType' /\ (Lookers \subseteq Lookers' \/ handles' = << >>)
  BY <1>2, <1>4 DEF TypeInv
<1>7. /\ Len(handles') <= Len(handles)
      /\ Len(xTasksWaitingToReceive') <= Len(xTasksWaitingToReceive)
  <2>1. Len(handles) \in Nat /\ Len(xTasksWaitingToReceive) \in Nat
    BY <1>1, Known DEF SetType
  <2> QED BY <2>1
<1>8. SelectorsWoken'
  BY <1>1, <1>4, <1>6, <1>7, StillServed
<1> QED BY <1>4, <1>5, <1>8 DEF Inv

\* The same outside a suspension, with nothing changed but the task's place.
LEMMA QuietOutside ==
  ASSUME Inv, NEW t \in Task, suspender = NoTask,
         UNCHANGED << members, set, selected, suspender >>,
         CallersType', pc'[t] \notin Holding, TaskOK(t)',
         \A u \in Task \ {t} : pc'[u] = pc[u] /\ member'[u] = member[u],
         \A u \in Task \ {t} : pc[u] = "remove" => member'[t] # member[u],
         t \notin Lookers \/ t \in Lookers' \/ handles = << >>
  PROVE  Inv'
<1>1. Base
  BY DEF Inv
<1>2. /\ UNCHANGED << inSet, uxMessagesWaiting, cTxLock, cRxLock, xTasksWaitingToSend,
                      handles, setTxLock, xTasksWaitingToReceive, selected, suspender >>
  BY DEF members, set
<1>3. LockOK'
  BY <1>1, <1>2, StillUnlocked
<1>4. HolderOK(t)' /\ suspender' = NoTask
  BY <1>1, <1>2, Known DEF HolderOK
<1>5. \A q \in Member : Owed(q)' = Owed(q)
  BY <1>2 DEF Owed
<1>6. MembersType' /\ setTxLock' \in Locks
  BY <1>1, <1>2, Known DEF MembersType, SetType, Locks
<1> QED BY <1>2, <1>3, <1>4, <1>5, <1>6, QuietStep

\* Where a task is that runs outside a suspension.
LEMMA Outside ==
  ASSUME Inv, NEW t \in Task, NEW place, place \notin Holding, At(t, place)
  PROVE  /\ Base /\ CallersType /\ suspender = NoTask /\ pc[t] = place
         /\ t \notin ToSet(xTasksWaitingToReceive)
         /\ \A q \in Member : t \notin ToSet(xTasksWaitingToSend[q])
         /\ TaskOK(t)
         /\ place # "select" => t \notin Lookers
<1>1. Base
  BY DEF Inv
<1>2. suspender = NoTask /\ pc[t] = place /\ ~Waiting(t)
  BY <1>1, NotHolding
<1>3. place # "select" => t \notin Lookers
  BY <1>2 DEF Lookers, Looking, Holding, SetHolding
<1> QED BY <1>1, <1>2, <1>3, Known DEF Waiting

\* The calls begin: of a send,
LEMMA SendStep ==
  ASSUME Inv, NEW t \in Task, NEW q \in Member, q \notin Overwritten, Send(t, q)
  PROVE  Inv'
<1>1. At(t, "app") /\ "app" \notin Holding
  BY DEF Send, Holding, SetHolding
<1>2. /\ Base /\ CallersType /\ suspender = NoTask /\ pc[t] = "app"
      /\ t \notin ToSet(xTasksWaitingToReceive)
      /\ \A r \in Member : t \notin ToSet(xTasksWaitingToSend[r])
      /\ TaskOK(t) /\ t \notin Lookers
  BY <1>1, Outside
<1>3. /\ pc' = [pc EXCEPT ![t] = "send"] /\ member' = [member EXCEPT ![t] = q]
      /\ selected[t] = NoMember /\ MaySend(q)
      /\ UNCHANGED << members, set, selected, suspender >>
  BY DEF Send, Goto
<1>4. /\ CallersType' /\ pc'[t] = "send" /\ member'[t] = q
      /\ \A u \in Task \ {t} : pc'[u] = pc[u] /\ member'[u] = member[u]
  BY <1>2, <1>3 DEF CallersType, Places, User
<1>5. TaskOK(t)'
  BY <1>2, <1>3, <1>4 DEF TaskOK, User, members, set
<1>6. \A u \in Task \ {t} : pc[u] = "remove" => member'[t] # member[u]
  BY <1>2, <1>3, <1>4, Known DEF MaySend, WellUsed
<1> QED BY <1>2, <1>3, <1>4, <1>5, <1>6, QuietOutside DEF Holding, SetHolding

\* of a selection,
LEMMA SelectStep ==
  ASSUME Inv, NEW t \in Task, Select(t)
  PROVE  Inv'
<1>1. At(t, "app") /\ "app" \notin Holding
  BY DEF Select, Holding, SetHolding
<1>2. /\ Base /\ CallersType /\ suspender = NoTask /\ pc[t] = "app"
      /\ t \notin ToSet(xTasksWaitingToReceive)
      /\ \A r \in Member : t \notin ToSet(xTasksWaitingToSend[r])
      /\ TaskOK(t) /\ t \notin Lookers /\ NoMember \notin Member
  BY <1>1, Outside, Known
<1>3. /\ pc' = [pc EXCEPT ![t] = "select"] /\ selected[t] = NoMember
      /\ UNCHANGED << members, set, member, selected, suspender >>
  BY DEF Select, Goto
<1>4. /\ CallersType' /\ pc'[t] = "select" /\ member'[t] = NoMember
      /\ \A u \in Task \ {t} : pc'[u] = pc[u] /\ member'[u] = member[u]
  BY <1>2, <1>3 DEF CallersType, Places, TaskOK, User
<1>5. TaskOK(t)'
  BY <1>2, <1>3, <1>4 DEF TaskOK, User, members, set
<1>6. \A u \in Task \ {t} : pc[u] = "remove" => member'[t] # member[u]
  BY <1>2, <1>4, Known DEF TaskOK
<1> QED BY <1>2, <1>3, <1>4, <1>5, <1>6, QuietOutside DEF Holding, SetHolding

\* and of a removal.
LEMMA RemoveCheckStep ==
  ASSUME Inv, NEW t \in Task, NEW q \in Member, RemoveCheck(t, q)
  PROVE  Inv'
<1>1. At(t, "app") /\ "app" \notin Holding
  BY DEF RemoveCheck, Holding, SetHolding
<1>2. /\ Base /\ CallersType /\ suspender = NoTask /\ pc[t] = "app"
      /\ t \notin ToSet(xTasksWaitingToReceive)
      /\ \A r \in Member : t \notin ToSet(xTasksWaitingToSend[r])
      /\ TaskOK(t) /\ t \notin Lookers
  BY <1>1, Outside
<1>3. /\ pc' = [pc EXCEPT ![t] = "remove"] /\ member' = [member EXCEPT ![t] = q]
      /\ selected[t] = NoMember /\ uxMessagesWaiting[q] = 0
      /\ \A u \in Task : member[u] # q
      /\ UNCHANGED << members, set, selected, suspender >>
  BY DEF RemoveCheck, Goto
<1>4. /\ CallersType' /\ pc'[t] = "remove" /\ member'[t] = q
      /\ \A u \in Task \ {t} : pc'[u] = pc[u] /\ member'[u] = member[u]
  BY <1>2, <1>3 DEF CallersType, Places, User
<1>5. TaskOK(t)'
  BY <1>2, <1>3, <1>4 DEF TaskOK, User, members, set
<1> QED BY <1>2, <1>3, <1>4, <1>5, QuietOutside DEF Holding, SetHolding

\* There is no room in the member, or no handle in the set.
LEMMA FindsNoneStep ==
  ASSUME Inv, NEW t \in Task, NotSent(t) \/ NotSelected(t)
  PROVE  Inv'
<1> DEFINE place == IF NotSent(t) THEN "send" ELSE "select"
<1>1. At(t, place) /\ place \notin Holding /\ place \in {"send", "select"}
  BY DEF NotSent, NotSelected, Holding, SetHolding
<1>2. /\ Base /\ CallersType /\ suspender = NoTask /\ pc[t] \in {"send", "select"}
      /\ t \notin ToSet(xTasksWaitingToReceive)
      /\ \A r \in Member : t \notin ToSet(xTasksWaitingToSend[r])
      /\ TaskOK(t) /\ NoMember \notin Member
      /\ pc[t] = "send" => t \notin Lookers
  <2> HIDE DEF place
  <2> QED BY <1>1, Outside, Known
<1>3. /\ \/ pc' = [pc EXCEPT ![t] = "app"] /\ member' = [member EXCEPT ![t] = NoMember]
         \/ pc[t] = "send" /\ pc' = [pc EXCEPT ![t] = "lock"] /\ UNCHANGED member
         \/ /\ pc[t] = "select" /\ UNCHANGED member
            /\ pc' = [pc EXCEPT ![t] = "app"] \/ pc' = [pc EXCEPT ![t] = "lockSet"]
      /\ pc[t] = "select" => handles = << >>
      /\ UNCHANGED << members, set, selected, suspender >>
  BY DEF NotSent, NotSelected, Return, Goto, At
<1>4. /\ CallersType'
      /\ pc'[t] \in {"app", "lock", "lockSet"}
      /\ pc'[t] = "lock" => member'[t] = member[t] /\ pc[t] = "send"
      /\ pc'[t] # "lock" => member'[t] = NoMember
      /\ \A u \in Task \ {t} : pc'[u] = pc[u] /\ member'[u] = member[u]
  BY <1>2, <1>3 DEF CallersType, Places, User, TaskOK
<1>5. TaskOK(t)'
  BY <1>2, <1>3, <1>4 DEF TaskOK, User, members, set
<1>6. \A u \in Task \ {t} : pc[u] = "remove" => member'[t] # member[u]
  BY <1>2, <1>4, Known DEF TaskOK
<1>7. pc'[t] \notin Holding
  BY <1>4 DEF Holding, SetHolding
<1>8. t \notin Lookers \/ handles = << >>
  BY <1>2, <1>3
<1> HIDE DEF place
<1> QED BY <1>2, <1>3, <1>4, <1>5, <1>6, <1>7, <1>8, QuietOutside
-----------------------------------------------------------------------------
(* The suspensions.                                                         *)

\* prvLockQueue of a lock
LEMMA LockedLock ==
  ASSUME uxNumberOfTasks \in Nat, NEW lock \in Locks
  PROVE  /\ Locked(lock) \in Locks /\ Locked(lock) # queueUNLOCKED
         /\ Locked(lock) = lock \/ (lock <= 0 /\ Locked(lock) <= 0)
         /\ SetOwed(Locked(lock)) = SetOwed(lock)
BY DEF Locked, Locks, queueUNLOCKED, queueLOCKED_UNMODIFIED, SetOwed

\* A task locks the member to wait for room in it.
LEMMA LockMemberStep ==
  ASSUME Inv, NEW t \in Task, LockMember(t)
  PROVE  Inv'
<1> DEFINE q == member[t]
<1>1. At(t, "lock") /\ "lock" \notin Holding
  BY DEF LockMember, Holding, SetHolding
<1>2. /\ Base /\ CallersType /\ suspender = NoTask /\ pc[t] = "lock"
      /\ t \notin ToSet(xTasksWaitingToReceive)
      /\ \A r \in Member : t \notin ToSet(xTasksWaitingToSend[r])
      /\ TaskOK(t) /\ t \notin Lookers /\ MembersType /\ uxNumberOfTasks \in Nat
      /\ NoTask \notin Task /\ NoMember \notin Member
  BY <1>1, Outside, Known
<1>3. q \in Member \ Overwritten
  BY <1>2 DEF TaskOK, User
<1>4. /\ suspender' = t /\ pc' = [pc EXCEPT ![t] = "test"]
      /\ cTxLock' = [cTxLock EXCEPT ![q] = Locked(@)]
      /\ cRxLock' = [cRxLock EXCEPT ![q] = Locked(@)]
      /\ UNCHANGED << inSet, uxMessagesWaiting, xTasksWaitingToSend, handles,
                      setTxLock, xTasksWaitingToReceive, member, selected >>
  BY DEF LockMember, Goto, set
<1>5. /\ setTxLock = queueUNLOCKED /\ \A r \in Member : cTxLock[r] = queueUNLOCKED
      /\ \A u \in Task : pc[u] \notin Holding
  BY <1>2, NothingLocked
<1>6. /\ CallersType' /\ pc'[t] = "test" /\ member'[t] = q
      /\ \A u \in Task \ {t} : pc'[u] = pc[u] /\ member'[u] = member[u]
  BY <1>2, <1>4 DEF CallersType, Places, User
<1>7. /\ Locked(cTxLock[q]) \in Locks /\ Locked(cRxLock[q]) \in Locks
      /\ SetOwed(Locked(cTxLock[q])) = SetOwed(cTxLock[q])
  BY <1>2, <1>3, LockedLock DEF MembersType
<1> HIDE DEF q
<1>8. MembersType' /\ \A r \in Member \ {q} : cTxLock'[r] = cTxLock[r]
  BY <1>2, <1>3, <1>4, <1>7 DEF MembersType
<1>9. cTxLock'[q] = Locked(cTxLock[q])
  BY <1>2, <1>3, <1>4 DEF MembersType
<1>10. \A r \in Member : Owed(r)' = Owed(r)
  BY <1>7, <1>8, <1>9 DEF Owed, SetOwed
<1>11. LockOK'
  <2>1. \A u \in Task : pc'[u] \notin SetHolding
    BY <1>5, <1>6 DEF Holding, SetHolding
  <2>2. \A r \in Member : cTxLock'[r] # queueUNLOCKED => r = q
    BY <1>5, <1>8
  <2> QED BY <1>4, <1>5, <1>6, <2>1, <2>2 DEF LockOK
<1>12. HolderOK(t)'
  BY <1>4, <1>6 DEF HolderOK, Holding
<1>13. TaskOK(t)'
  BY <1>2, <1>3, <1>4, <1>6 DEF TaskOK, User
<1>14. \A u \in Task \ {t} : pc[u] = "remove" => member'[t] # member[u]
  <2>1. q = member[t]
    BY DEF q
  <2> QED BY <1>2, <1>6, <2>1, Known DEF TaskOK
<1>15. setTxLock' \in Locks
  BY <1>2, <1>4, Known DEF SetType
<1> QED BY <1>2, <1>4, <1>6, <1>8, <1>10, <1>11, <1>12, <1>13, <1>14, <1>15, QuietStep

\* The set is locked for the same.
LEMMA LockSetStep ==
  ASSUME Inv, NEW t \in Task, LockSet(t)
  PROVE  Inv'
<1>1. At(t, "lockSet") /\ "lockSet" \notin Holding
  BY DEF LockSet, Holding, SetHolding
<1>2. /\ Base /\ CallersType /\ suspender = NoTask /\ pc[t] = "lockSet"
      /\ t \notin ToSet(xTasksWaitingToReceive)
      /\ \A r \in Member : t \notin ToSet(xTasksWaitingToSend[r])
      /\ TaskOK(t) /\ t \notin Lookers /\ MembersType /\ SetType
      /\ uxNumberOfTasks \in Nat /\ NoTask \notin Task /\ NoMember \notin Member
  BY <1>1, Outside, Known
<1>3. /\ suspender' = t /\ pc' = [pc EXCEPT ![t] = "testSet"]
      /\ setTxLock' = Locked(setTxLock)
      /\ UNCHANGED << inSet, uxMessagesWaiting, cTxLock, cRxLock, xTasksWaitingToSend,
                      handles, xTasksWaitingToReceive, member, selected >>
  BY DEF LockSet, Goto, members
<1>4. /\ \A r \in Member : cTxLock[r] = queueUNLOCKED
      /\ \A u \in Task : pc[u] \notin Holding
  BY <1>2, NothingLocked
<1>5. /\ CallersType' /\ pc'[t] = "testSet" /\ member'[t] = member[t]
      /\ \A u \in Task \ {t} : pc'[u] = pc[u] /\ member'[u] = member[u]
  BY <1>2, <1>3 DEF CallersType, Places, User, Holding, SetHolding
<1>6. /\ setTxLock' \in Locks /\ setTxLock' # queueUNLOCKED
      /\ setTxLock' = setTxLock \/ (setTxLock <= 0 /\ setTxLock' <= 0)
  BY <1>2, <1>3, LockedLock DEF SetType
<1>7. LockOK'
  BY <1>3, <1>4, <1>5, <1>6 DEF LockOK, SetHolding
<1>8. HolderOK(t)'
  BY <1>3, <1>5 DEF HolderOK, Holding, SetHolding
<1>9. TaskOK(t)'
  BY <1>2, <1>3, <1>5 DEF TaskOK, User
<1>10. \A u \in Task \ {t} : pc[u] = "remove" => member'[t] # member[u]
  BY <1>2, <1>5, Known DEF TaskOK, User
<1>11. MembersType' /\ \A r \in Member : Owed(r)' = Owed(r)
  BY <1>2, <1>3 DEF MembersType, Owed
<1> QED BY <1>2, <1>3, <1>5, <1>6, <1>7, <1>8, <1>9, <1>10, <1>11, QuietStep

\* A task that has suspended the scheduler, the locks and the other tasks.
LEMMA Inside ==
  ASSUME Inv, NEW t \in Task, pc[t] \in Holding
  PROVE  /\ Base /\ CallersType /\ MembersType /\ SetType /\ suspender = t
         /\ TaskOK(t) /\ HolderOK(t) /\ NoTask \notin Task /\ NoMember \notin Member
         /\ uxNumberOfTasks \in Nat
         /\ \A u \in Task \ {t} : pc[u] \notin Holding
         /\ setTxLock # queueUNLOCKED <=> pc[t] \in SetHolding
         /\ \A q \in Member : cTxLock[q] # queueUNLOCKED =>
              pc[t] \in {"test", "place", "unlock"} /\ member[t] = q
<1>1. Base
  BY DEF Inv
<1>2. suspender = t /\ \A u \in Task \ {t} : pc[u] \notin Holding
  BY <1>1, OneHolder
<1>3. LockOK
  BY <1>1, Known
<1>4. setTxLock # queueUNLOCKED <=> pc[t] \in SetHolding
  BY <1>2, <1>3 DEF LockOK, Holding
<1>5. \A q \in Member : cTxLock[q] # queueUNLOCKED =>
        pc[t] \in {"test", "place", "unlock"} /\ member[t] = q
  BY <1>2, <1>3 DEF LockOK, Holding
<1> QED BY <1>1, <1>2, <1>4, <1>5, Known

\* The task looks whether there is room, or a handle.
LEMMA TestStep ==
  ASSUME Inv, NEW t \in Task, TestMember(t) \/ TestSet(t)
  PROVE  Inv'
<1>1. /\ \/ pc[t] = "test" /\ pc'[t] \in {"place", "unlock"}
         \/ /\ pc[t] = "testSet" /\ pc'[t] \in {"placeSet", "unlockSet"}
            /\ pc'[t] = "placeSet" => handles = << >>
      /\ \E place \in {"place", "unlock", "placeSet", "unlockSet"} :
           pc' = [pc EXCEPT ![t] = place]
      /\ UNCHANGED << members, set, member, selected, suspender >> /\ ~Waiting(t)
  <2>1. pc \in [Task -> Places]
    BY Known DEF Inv, CallersType
  <2> QED BY <2>1 DEF TestMember, TestSet, Goto, At, Runs
<1>2. UNCHANGED << inSet, uxMessagesWaiting, cTxLock, cRxLock, xTasksWaitingToSend,
                   handles, setTxLock, xTasksWaitingToReceive, member, selected,
                   suspender >>
  BY <1>1 DEF members, set
<1>3. pc[t] \in Holding
  BY <1>1 DEF Holding, SetHolding
<1>4. /\ Base /\ CallersType /\ MembersType /\ SetType /\ suspender = t
      /\ TaskOK(t) /\ HolderOK(t) /\ NoMember \notin Member
      /\ \A u \in Task \ {t} : pc[u] \notin Holding
      /\ setTxLock # queueUNLOCKED <=> pc[t] \in SetHolding
      /\ \A q \in Member : cTxLock[q] # queueUNLOCKED =>
           pc[t] \in {"test", "place", "unlock"} /\ member[t] = q
  BY <1>3, Inside
<1>5. /\ CallersType' /\ \A u \in Task \ {t} : pc'[u] = pc[u] /\ member'[u] = member[u]
      /\ member'[t] = member[t]
  BY <1>1, <1>2, <1>4 DEF CallersType, Places, User, Holding, SetHolding
<1>6. LockOK'
  <2>1. \A u \in Task \ {t} : pc'[u] \notin Holding
    BY <1>4, <1>5
  <2>2. setTxLock' # queueUNLOCKED <=> pc'[t] \in SetHolding
    BY <1>1, <1>2, <1>4 DEF SetHolding
  <2>3. \A q \in Member : cTxLock'[q] # queueUNLOCKED =>
          pc'[t] \in {"test", "place", "unlock"} /\ member'[t] = q
    BY <1>1, <1>2, <1>4, <1>5
  <2> QED BY <2>1, <2>2, <2>3 DEF LockOK, Holding
<1>7. HolderOK(t)'
  BY <1>1, <1>2, <1>4 DEF HolderOK, Holding, SetHolding
<1>8. pc'[t] = "placeSet" => Len(handles') <= setTxLock' \/ setTxLock' = uxNumberOfTasks
  <2>1. setTxLock \in Int /\ (pc[t] = "testSet" => setTxLock >= 0)
    BY <1>4, Known DEF SetType, Locks, queueUNLOCKED, SetHolding
  <2>2. CASE pc'[t] = "placeSet"
    <3>1. Len(handles') = 0 /\ setTxLock' >= 0
      BY <1>1, <1>2, <2>1, <2>2
    <3> QED BY <3>1, <1>2, <2>1
  <2> QED BY <2>2
<1>9. TaskOK(t)'
  BY <1>1, <1>2, <1>4, <1>5, <1>8 DEF TaskOK, User, Waiting
<1>10. t \notin Lookers
  BY <1>1 DEF Lookers, Looking
<1>11. \A u \in Task \ {t} : pc[u] = "remove" => member'[t] # member[u]
  BY <1>4, <1>5, Known DEF TaskOK
<1>12. MembersType' /\ setTxLock' \in Locks /\ \A r \in Member : Owed(r)' = Owed(r)
  BY <1>2, <1>4 DEF MembersType, Owed, SetType, Locks
<1> QED BY <1>2, <1>4, <1>5, <1>6, <1>7, <1>9, <1>10, <1>11, <1>12, QuietStep

\* There was no room: the task waits for it.
LEMMA PlaceOnMemberStep ==
  ASSUME Inv, NEW t \in Task, PlaceOnMember(t)
  PROVE  Inv'
<1> DEFINE q == member[t]
<1>1. /\ pc[t] = "place" /\ ~Waiting(t) /\ pc' = [pc EXCEPT ![t] = "unlock"]
      /\ xTasksWaitingToSend' = [xTasksWaitingToSend EXCEPT ![q] = Append(@, t)]
      /\ UNCHANGED << inSet, uxMessagesWaiting, cTxLock, cRxLock, handles, setTxLock,
                      xTasksWaitingToReceive, member, selected, suspender >>
  BY DEF PlaceOnMember, Goto, At, Runs, set
<1>2. /\ Base /\ CallersType /\ MembersType /\ SetType /\ suspender = t
      /\ TaskOK(t) /\ HolderOK(t) /\ NoMember \notin Member
      /\ \A u \in Task \ {t} : pc[u] \notin Holding
      /\ setTxLock # queueUNLOCKED <=> pc[t] \in SetHolding
      /\ \A r \in Member : cTxLock[r] # queueUNLOCKED =>
           pc[t] \in {"test", "place", "unlock"} /\ member[t] = r
  BY <1>1, Inside DEF Holding, SetHolding
<1>3. q \in Member
  BY <1>1, <1>2 DEF TaskOK, User
<1>4. /\ CallersType' /\ pc'[t] = "unlock" /\ member'[t] = member[t]
      /\ \A u \in Task \ {t} : pc'[u] = pc[u] /\ member'[u] = member[u]
  BY <1>1, <1>2 DEF CallersType, Places, User
<1>5. /\ Append(xTasksWaitingToSend[q], t) \in Seq(Task)
      /\ ToSet(Append(xTasksWaitingToSend[q], t)) \subseteq ToSet(xTasksWaitingToSend[q]) \cup {t}
  BY <1>2, <1>3, AppendList DEF MembersType
<1> HIDE DEF q
<1>6. /\ MembersType'
      /\ \A r \in Member :
           ToSet(xTasksWaitingToSend'[r]) \subseteq ToSet(xTasksWaitingToSend[r]) \cup {t}
  BY <1>1, <1>2, <1>3, <1>5 DEF MembersType
<1>7. LockOK'
  <2>1. \A u \in Task \ {t} : pc'[u] \notin Holding
    BY <1>2, <1>4
  <2>2. setTxLock' # queueUNLOCKED <=> pc'[t] \in SetHolding
    BY <1>1, <1>2, <1>4 DEF SetHolding
  <2>3. \A r \in Member : cTxLock'[r] # queueUNLOCKED =>
          pc'[t] \in {"test", "place", "unlock"} /\ member'[t] = r
    BY <1>1, <1>2, <1>4
  <2> QED BY <2>1, <2>2, <2>3 DEF LockOK, Holding
<1>8. HolderOK(t)'
  BY <1>1, <1>2, <1>4 DEF HolderOK, Holding
<1>9. TaskOK(t)'
  BY <1>1, <1>2, <1>4 DEF TaskOK, User, Waiting
<1>10. t \notin Lookers
  BY <1>1 DEF Lookers, Looking
<1>11. \A u \in Task \ {t} : pc[u] = "remove" => member'[t] # member[u]
  BY <1>2, <1>4, Known DEF TaskOK
<1>12. setTxLock' \in Locks /\ \A r \in Member : Owed(r)' = Owed(r)
  BY <1>1, <1>2 DEF Owed, SetType, Locks
<1> QED BY <1>1, <1>2, <1>4, <1>6, <1>7, <1>8, <1>9, <1>10, <1>11, <1>12, QuietStep

\* The second half of prvUnlockQueue of the member
LEMMA UnlockRxStep ==
  ASSUME Inv, NEW t \in Task, UnlockRx(t)
  PROVE  Inv'
<1> DEFINE q == member[t]
           list == xTasksWaitingToSend[q]
           rest == IF cRxLock[q] >= Len(list) THEN << >>
                   ELSE IF cRxLock[q] > 0 THEN AllBut(cRxLock[q], list) ELSE list
<1>1. /\ pc[t] = "unlockRx" /\ pc' = [pc EXCEPT ![t] = "send"] /\ suspender' = NoTask
      /\ xTasksWaitingToSend' = [xTasksWaitingToSend EXCEPT ![q] = rest]
      /\ cRxLock' = [cRxLock EXCEPT ![q] = queueUNLOCKED]
      /\ UNCHANGED << inSet, uxMessagesWaiting, cTxLock, handles, setTxLock,
                      xTasksWaitingToReceive, member, selected >>
  BY DEF UnlockRx, Goto, set
<1>2. /\ Base /\ CallersType /\ MembersType /\ SetType /\ suspender = t
      /\ TaskOK(t) /\ HolderOK(t) /\ NoMember \notin Member /\ NoTask \notin Task
      /\ uxNumberOfTasks \in Nat
      /\ \A u \in Task \ {t} : pc[u] \notin Holding
      /\ setTxLock # queueUNLOCKED <=> pc[t] \in SetHolding
      /\ \A r \in Member : cTxLock[r] # queueUNLOCKED =>
           pc[t] \in {"test", "place", "unlock"} /\ member[t] = r
  BY <1>1, Inside DEF Holding, SetHolding
<1>3. q \in Member
  BY <1>1, <1>2 DEF TaskOK, User
<1>4. /\ CallersType' /\ pc'[t] = "send" /\ member'[t] = member[t]
      /\ \A u \in Task \ {t} : pc'[u] = pc[u] /\ member'[u] = member[u]
  BY <1>1, <1>2 DEF CallersType, Places, User
<1>5. rest \in Seq(Task) /\ ToSet(rest) \subseteq ToSet(list)
  <2>1. list \in Seq(Task) /\ Len(list) \in Nat /\ cRxLock[q] \in Int
    BY <1>2, <1>3 DEF MembersType, Locks, queueUNLOCKED
  <2>2. CASE cRxLock[q] >= Len(list)
    BY <2>1, <2>2 DEF ToSet
  <2>3. CASE ~(cRxLock[q] >= Len(list)) /\ cRxLock[q] > 0
    <3>1. rest = AllBut(cRxLock[q], list) /\ cRxLock[q] \in Nat
      BY <2>1, <2>3
    <3> HIDE DEF list, rest
    <3> QED BY <2>1, <3>1, AllButList
  <2>4. CASE ~(cRxLock[q] >= Len(list)) /\ ~(cRxLock[q] > 0)
    BY <2>1, <2>4
  <2> QED BY <2>2, <2>3, <2>4
<1> HIDE DEF rest
<1>6. /\ MembersType'
      /\ \A r \in Member :
           ToSet(xTasksWaitingToSend'[r]) \subseteq ToSet(xTasksWaitingToSend[r]) \cup {t}
  <2> HIDE DEF q
  <2>1. queueUNLOCKED \in Locks
    BY <1>2 DEF Locks, queueUNLOCKED
  <2> QED BY <1>1, <1>2, <1>3, <1>5, <2>1 DEF MembersType
<1>7. \A u \in Task : pc'[u] \notin Holding
  BY <1>2, <1>4 DEF Holding, SetHolding
<1>8. LockOK'
  <2>1. setTxLock = queueUNLOCKED /\ \A r \in Member : cTxLock[r] = queueUNLOCKED
    BY <1>1, <1>2 DEF SetHolding
  <2> QED BY <1>1, <1>7, <2>1 DEF LockOK, Holding
<1>9. HolderOK(t)'
  BY <1>1, <1>2, <1>7 DEF HolderOK
<1>10. TaskOK(t)'
  BY <1>1, <1>2, <1>4, <1>6 DEF TaskOK, User
<1>11. t \notin Lookers
  BY <1>1 DEF Lookers, Looking
<1>12. \A u \in Task \ {t} : pc[u] = "remove" => member'[t] # member[u]
  BY <1>2, <1>4, Known DEF TaskOK
<1>13. setTxLock' \in Locks /\ \A r \in Member : Owed(r)' = Owed(r)
  BY <1>1, <1>2 DEF Owed, SetType, Locks
<1> HIDE DEF q
<1> QED BY <1>1, <1>2, <1>4, <1>6, <1>8, <1>9, <1>10, <1>11, <1>12, <1>13, QuietStep

\* The first half of it: what interrupts sent is announced, and for each of the
\* announcements a task is woken.
LEMMA UnlockTxStep ==
  ASSUME Inv, NEW t \in Task, UnlockTx(t)
  PROVE  Inv'
<1> DEFINE q == member[t]
<1>1. /\ pc[t] = "unlock" /\ pc' = [pc EXCEPT ![t] = "unlockRx"]
      /\ Announce(q, Owed(q))
      /\ cTxLock' = [cTxLock EXCEPT ![q] = queueUNLOCKED]
      /\ UNCHANGED << inSet, uxMessagesWaiting, cRxLock, xTasksWaitingToSend,
                      member, selected, suspender >>
  BY DEF UnlockTx, Goto
<1>2. /\ Base /\ CallersType /\ MembersType /\ SetType /\ suspender = t
      /\ TaskOK(t) /\ HolderOK(t) /\ NoMember \notin Member /\ NoTask \notin Task
      /\ uxNumberOfTasks \in Nat
      /\ \A u \in Task \ {t} : pc[u] \notin Holding
      /\ setTxLock # queueUNLOCKED <=> pc[t] \in SetHolding
      /\ \A r \in Member : cTxLock[r] # queueUNLOCKED =>
           pc[t] \in {"test", "place", "unlock"} /\ member[t] = r
  BY <1>1, Inside DEF Holding, SetHolding
<1>3. EachItemAnnounced /\ SelectorsWoken
  BY DEF Inv
<1>4. q \in Member
  BY <1>1, <1>2 DEF TaskOK, User
<1> HIDE DEF q
<1>5. Owed(q) \in Nat /\ (inSet[q] => Count(handles, q) + Owed(q) <= uxLength[q])
  BY <1>2, <1>3, <1>4, ItemsKnown DEF EachItemAnnounced
<1>6. /\ SetType'
      /\ \A r \in Member :
           Count(handles', r) = Count(handles, r) + (IF r = q /\ inSet[q] THEN Owed(q) ELSE 0)
      /\ ToSet(xTasksWaitingToReceive') \subseteq ToSet(xTasksWaitingToReceive)
      /\ setTxLock' = queueUNLOCKED <=> setTxLock = queueUNLOCKED
      /\ \A V \in SUBSET Task :
           /\ SelectorsWoken
           /\ Lookers \cup (ToSet(xTasksWaitingToReceive)
                              \ ToSet(xTasksWaitingToReceive')) \subseteq V
           => Served(Len(handles'), V, setTxLock', xTasksWaitingToReceive')
  BY <1>1, <1>2, <1>3, <1>4, <1>5, AnnounceStep
<1>7. /\ CallersType' /\ pc'[t] = "unlockRx" /\ member'[t] = member[t]
      /\ \A u \in Task \ {t} : pc'[u] = pc[u] /\ member'[u] = member[u]
  BY <1>1, <1>2 DEF CallersType, Places, User, Holding, SetHolding
<1>8. /\ MembersType' /\ cTxLock'[q] = queueUNLOCKED
      /\ \A r \in Member \ {q} : cTxLock'[r] = cTxLock[r]
  <2>1. queueUNLOCKED \in Locks
    BY <1>2 DEF Locks, queueUNLOCKED
  <2> QED BY <1>1, <1>2, <1>4, <2>1 DEF MembersType
<1>9. TypeInv'
  BY <1>1, <1>2, <1>6, <1>7, <1>8, Known DEF TypeInv, ItemsType
<1>10. LockOK'
  <2>1. \A u \in Task : pc'[u] \notin SetHolding
    BY <1>2, <1>7 DEF Holding, SetHolding
  <2>2. setTxLock' = queueUNLOCKED
    BY <1>1, <1>2, <1>6 DEF SetHolding
  <2>3. \A r \in Member : cTxLock'[r] = queueUNLOCKED
    BY <1>2, <1>8 DEF q
  <2> QED BY <2>1, <2>2, <2>3 DEF LockOK
<1>11. HolderOK(t)'
  BY <1>1, <1>2, <1>7 DEF HolderOK, Holding
<1>12. TaskOK(t)'
  BY <1>1, <1>2, <1>6, <1>7 DEF TaskOK, User
<1>13. \A u \in Task \ {t} : pc[u] = "remove" =>
         uxMessagesWaiting'[member[u]] = 0 /\ member'[t] # member[u]
  BY <1>1, <1>2, <1>7, Known DEF TaskOK
<1>14. Base' /\ Lookers' \in SUBSET Task /\ Lookers \ {t} \subseteq Lookers'
  BY <1>1, <1>2, <1>6, <1>7, <1>9, <1>10, <1>11, <1>12, <1>13, TaskStep
<1>15. EachItemAnnounced'
  <2>1. \A r \in Member : Hands(r)' = Hands(r)
    BY <1>1 DEF Hands
  <2>2. \A r \in Member : Owed(r)' = IF r = q THEN 0 ELSE Owed(r)
    BY <1>4, <1>8 DEF Owed, queueUNLOCKED
  <2>3. \A r \in Member : Announced(r)' = Count(handles', r) + Cardinality(Hands(r))
    BY <2>1 DEF Announced, Count, Copies, Hands
  <2>4. ASSUME NEW r \in Member
        PROVE  IF inSet'[r] THEN Announced(r)' + Owed(r)' = uxMessagesWaiting'[r]
               ELSE Announced(r)' = 0
    <3>1. Announced(r)' = Count(handles', r) + Cardinality(Hands(r))
      BY <2>3
    <3>2. /\ Owed(r)' = IF r = q THEN 0 ELSE Owed(r)
          /\ Count(handles', r)
               = Count(handles, r) + (IF r = q /\ inSet[q] THEN Owed(q) ELSE 0)
      BY <1>6, <2>2
    <3>3. /\ Announced(r) = Count(handles, r) + Cardinality(Hands(r))
          /\ Count(handles, r) \in Nat /\ Cardinality(Hands(r)) \in Nat
          /\ Owed(r) \in Nat
      BY <1>2, ItemsKnown
    <3>4. IF inSet[r] THEN Announced(r) + Owed(r) = uxMessagesWaiting[r]
          ELSE Announced(r) = 0
      BY <1>3 DEF EachItemAnnounced
    <3> QED BY <1>1, <3>1, <3>2, <3>3, <3>4
  <2> QED BY <2>4 DEF EachItemAnnounced
<1>16. SelectorsWoken'
  <2>1. t \notin Lookers
    BY <1>1 DEF Lookers, Looking
  <2>2. ASSUME NEW u \in ToSet(xTasksWaitingToReceive) \ ToSet(xTasksWaitingToReceive')
        PROVE  u \in Lookers'
    <3>1. u \in Task
      BY <1>2 DEF SetType, ToSet
    <3>2. pc[u] \in {"unlockSet", "select"} /\ u # t
      BY <1>1, <1>2, <3>1, Known DEF TaskOK
    <3>3. \A r \in Member : u \notin ToSet(xTasksWaitingToSend[r])
      BY <1>2, <3>1, <3>2, Known DEF TaskOK
    <3> QED BY <1>1, <1>7, <3>1, <3>2, <3>3 DEF Lookers, Looking, Waiting
  <2>3. Lookers \cup (ToSet(xTasksWaitingToReceive)
                        \ ToSet(xTasksWaitingToReceive')) \subseteq Lookers'
    BY <1>14, <2>1, <2>2
  <2>4. Served(Len(handles'), Lookers', setTxLock', xTasksWaitingToReceive')
    BY <1>3, <1>6, <1>14, <2>3
  <2> QED BY <2>4, WokenIsServed
<1> QED BY <1>14, <1>15, <1>16 DEF Inv

\* There was no handle: the task waits for one.  Those that came since it
\* looked are counted by the lock, which will wake as many.
LEMMA PlaceOnSetStep ==
  ASSUME Inv, NEW t \in Task, PlaceOnSet(t)
  PROVE  Inv'
<1>1. /\ pc[t] = "placeSet" /\ ~Waiting(t) /\ pc' = [pc EXCEPT ![t] = "unlockSet"]
      /\ xTasksWaitingToReceive' = Append(xTasksWaitingToReceive, t)
      /\ UNCHANGED << inSet, uxMessagesWaiting, cTxLock, cRxLock, xTasksWaitingToSend,
                      handles, setTxLock, member, selected, suspender >>
  BY DEF PlaceOnSet, Goto, At, Runs, members
<1>2. /\ Base /\ CallersType /\ MembersType /\ SetType /\ suspender = t
      /\ TaskOK(t) /\ HolderOK(t) /\ NoMember \notin Member
      /\ uxNumberOfTasks \in Nat
      /\ \A u \in Task \ {t} : pc[u] \notin Holding
      /\ setTxLock # queueUNLOCKED <=> pc[t] \in SetHolding
      /\ \A r \in Member : cTxLock[r] # queueUNLOCKED =>
           pc[t] \in {"test", "place", "unlock"} /\ member[t] = r
  BY <1>1, Inside DEF Holding, SetHolding
<1>3. EachItemAnnounced /\ SelectorsWoken /\ QueueSetAssumption
  BY <1>2, Known DEF Inv
<1>4. /\ CallersType' /\ pc'[t] = "unlockSet" /\ member'[t] = member[t]
      /\ \A u \in Task \ {t} : pc'[u] = pc[u] /\ member'[u] = member[u]
  BY <1>1, <1>2 DEF CallersType, Places, User, Holding, SetHolding
<1>5. /\ xTasksWaitingToReceive' \in Seq(Task)
      /\ Len(xTasksWaitingToReceive') = Len(xTasksWaitingToReceive) + 1
      /\ ToSet(xTasksWaitingToReceive') \subseteq ToSet(xTasksWaitingToReceive) \cup {t}
      /\ IsInjective(xTasksWaitingToReceive')
  BY <1>1, <1>2, AppendList DEF SetType, Waiting
<1>6. TypeInv'
  BY <1>1, <1>2, <1>4, <1>5, Known DEF TypeInv, ItemsType, MembersType, SetType, Locks
<1>7. LockOK'
  <2>1. \A u \in Task \ {t} : pc'[u] \notin Holding
    BY <1>2, <1>4
  <2>2. setTxLock' # queueUNLOCKED <=> pc'[t] \in SetHolding
    BY <1>1, <1>2, <1>4 DEF SetHolding
  <2>3. \A r \in Member : cTxLock'[r] # queueUNLOCKED =>
          pc'[t] \in {"test", "place", "unlock"} /\ member'[t] = r
    BY <1>1, <1>2, <1>4
  <2> QED BY <2>1, <2>2, <2>3 DEF LockOK, Holding
<1>8. HolderOK(t)'
  BY <1>1, <1>2, <1>4 DEF HolderOK, Holding, SetHolding
<1>9. TaskOK(t)'
  BY <1>1, <1>2, <1>4 DEF TaskOK, User, Waiting
<1>10. \A u \in Task \ {t} : pc[u] = "remove" =>
         uxMessagesWaiting'[member[u]] = 0 /\ member'[t] # member[u]
  BY <1>1, <1>2, <1>4, Known DEF TaskOK
<1>11. Base' /\ Lookers' \in SUBSET Task /\ Lookers \ {t} \subseteq Lookers'
  BY <1>1, <1>2, <1>4, <1>5, <1>6, <1>7, <1>8, <1>9, <1>10, TaskStep
<1>12. EachItemAnnounced'
  BY <1>1, <1>3, ItemsKept DEF Owed
<1>13. SelectorsWoken'
  <2>1. Len(handles) <= setTxLock \/ setTxLock = uxNumberOfTasks
    BY <1>1, <1>2 DEF TaskOK
  <2>2. /\ Cardinality(Lookers') \in Nat
        /\ Len(xTasksWaitingToReceive') <= uxNumberOfTasks
    BY <1>3, <1>5, <1>11, TaskSets
  <2>3. /\ setTxLock' = setTxLock /\ setTxLock \in Nat /\ Len(handles) \in Nat
        /\ handles' = handles /\ Len(xTasksWaitingToReceive') \in Nat
    BY <1>1, <1>2, <1>5 DEF SetType, Locks, queueUNLOCKED, SetHolding
  <2>4. SetOwed(setTxLock') = setTxLock
    BY <2>3 DEF SetOwed
  <2>5. Served(Len(handles'), Lookers', setTxLock', xTasksWaitingToReceive')
    BY <1>2, <2>1, <2>2, <2>3, <2>4 DEF Served
  <2> QED BY <2>5, WokenIsServed
<1> QED BY <1>11, <1>12, <1>13 DEF Inv

\* prvUnlockQueue of the set
LEMMA UnlockSetStep ==
  ASSUME Inv, NEW t \in Task, UnlockSet(t)
  PROVE  Inv'
<1> DEFINE list == xTasksWaitingToReceive
           k == SetOwed(setTxLock)
<1>1. /\ pc[t] = "unlockSet" /\ pc' = [pc EXCEPT ![t] = "select"]
      /\ list' = IF setTxLock >= Len(list) THEN << >>
                 ELSE IF setTxLock > 0 THEN AllBut(setTxLock, list) ELSE list
      /\ setTxLock' = queueUNLOCKED /\ suspender' = NoTask
      /\ UNCHANGED << inSet, uxMessagesWaiting, cTxLock, cRxLock, xTasksWaitingToSend,
                      handles, member, selected >>
  BY DEF UnlockSet, Goto, members
<1>2. /\ Base /\ CallersType /\ MembersType /\ SetType /\ suspender = t
      /\ TaskOK(t) /\ HolderOK(t) /\ NoMember \notin Member /\ NoTask \notin Task
      /\ uxNumberOfTasks \in Nat
      /\ \A u \in Task \ {t} : pc[u] \notin Holding
      /\ setTxLock # queueUNLOCKED <=> pc[t] \in SetHolding
      /\ \A r \in Member : cTxLock[r] # queueUNLOCKED =>
           pc[t] \in {"test", "place", "unlock"} /\ member[t] = r
  BY <1>1, Inside DEF Holding, SetHolding
<1>3. /\ EachItemAnnounced /\ SelectorsWoken /\ QueueSetAssumption
      /\ Lookers \in SUBSET Task
  BY <1>2, Known DEF Inv
<1>4. /\ CallersType' /\ pc'[t] = "select" /\ member'[t] = member[t]
      /\ \A u \in Task \ {t} : pc'[u] = pc[u] /\ member'[u] = member[u]
  BY <1>1, <1>2 DEF CallersType, Places, User, Holding, SetHolding
<1>5. /\ list \in Seq(Task) /\ IsInjective(list) /\ Len(list) \in Nat
      /\ setTxLock \in Nat /\ k = setTxLock
  BY <1>1, <1>2 DEF SetType, Locks, queueUNLOCKED, SetHolding, SetOwed
<1>6. list' = AllBut(k, list)
  <2>1. CASE setTxLock >= Len(list)
    BY <1>1, <1>5, <2>1 DEF AllBut
  <2>2. CASE ~(setTxLock >= Len(list)) /\ setTxLock > 0
    BY <1>1, <1>5, <2>2
  <2>3. CASE ~(setTxLock >= Len(list)) /\ setTxLock = 0
    <3>1. AllBut(0, list) = list
      BY <1>5 DEF AllBut
    <3> QED BY <1>1, <1>5, <2>3, <3>1
  <2> QED BY <1>5, <2>1, <2>2, <2>3
<1>7. /\ list' \in Seq(Task) /\ IsInjective(list') /\ ToSet(list') \subseteq ToSet(list)
  <2>1. /\ AllBut(k, list) \in Seq(Task) /\ IsInjective(AllBut(k, list))
        /\ ToSet(AllBut(k, list)) \subseteq ToSet(list)
    BY <1>5, AllButList, AllButInjective
  <2> QED BY <1>6, <2>1
<1> HIDE DEF list, k
<1>8. TypeInv'
  <2>1. queueUNLOCKED \in Locks
    BY <1>2 DEF Locks, queueUNLOCKED
  <2> QED BY <1>1, <1>2, <1>4, <1>7, <2>1, Known
          DEF TypeInv, ItemsType, MembersType, SetType, list, Locks
<1>9. LockOK'
  <2>1. \A u \in Task : pc'[u] \notin Holding
    BY <1>2, <1>4 DEF Holding, SetHolding
  <2>2. \A r \in Member : cTxLock'[r] = queueUNLOCKED
    BY <1>1, <1>2
  <2> QED BY <1>1, <2>1, <2>2 DEF LockOK, Holding
<1>10. HolderOK(t)'
  BY <1>1, <1>2, <1>4 DEF HolderOK, Holding, SetHolding
<1>11. TaskOK(t)'
  BY <1>1, <1>2, <1>4 DEF TaskOK, User
<1>12. \A u \in Task \ {t} : pc[u] = "remove" =>
         uxMessagesWaiting'[member[u]] = 0 /\ member'[t] # member[u]
  BY <1>1, <1>2, <1>4, Known DEF TaskOK
<1>13. Base' /\ Lookers' \in SUBSET Task /\ Lookers \ {t} \subseteq Lookers'
  BY <1>1, <1>2, <1>4, <1>7, <1>8, <1>9, <1>10, <1>11, <1>12, TaskStep DEF list
<1>14. EachItemAnnounced'
  BY <1>1, <1>3, ItemsKept DEF Owed
<1>15. SelectorsWoken'
  <2>1. \A u \in ToSet(list) :
          /\ u \in Task /\ pc[u] \in {"unlockSet", "select"}
          /\ \A r \in Member : u \notin ToSet(xTasksWaitingToSend[r])
    <3>1. \A u \in ToSet(list) : u \in Task
      BY <1>5 DEF ToSet
    <3>2. \A u \in ToSet(list) : TaskOK(u)
      BY <1>2, <3>1, Known
    <3> QED BY <3>1, <3>2 DEF TaskOK, list
  <2>2. \A u \in Task : pc[u] \in {"unlockSet", "select"} =>
          pc'[u] \in {"unlockSet", "select"}
    BY <1>4
  <2>3. ToSet(list) \ ToSet(list') \subseteq Lookers'
    BY <1>1, <2>1, <2>2 DEF Lookers, Looking, Waiting, list
  <2>4. Lookers \subseteq Lookers'
    <3>1. t \in Lookers => t \in Lookers'
      BY <1>1, <1>4, <1>7 DEF Lookers, Looking, Waiting, list
    <3> QED BY <1>13, <3>1
  <2>5. Lookers \cap ToSet(list) = {}
    BY DEF Lookers, Looking, Waiting, list
  <2>6. Served(Len(handles), Lookers, setTxLock, list)
    BY <1>3, WokenIsServed DEF list
  <2>7. /\ Len(handles) \in Int /\ setTxLock \in Int /\ k \in Nat
        /\ SetOwed(setTxLock) <= k /\ Len(handles) + (k - SetOwed(setTxLock)) = Len(handles)
    BY <1>2, <1>5 DEF SetType, k
  <2>8. Lookers \cup (ToSet(list) \ ToSet(AllBut(k, list))) \subseteq Lookers'
    BY <1>6, <2>3, <2>4
  <2>9. Served(Len(handles) + (k - SetOwed(setTxLock)), Lookers', queueUNLOCKED,
               AllBut(k, list))
    BY ONLY <1>3, <1>5, <1>13, <2>5, <2>6, <2>7, <2>8, ServedByWoken
  <2>10. Served(Len(handles'), Lookers', setTxLock', xTasksWaitingToReceive')
    BY <1>1, <1>6, <2>7, <2>9 DEF list
  <2> QED BY <2>10, WokenIsServed
<1> QED BY <1>13, <1>14, <1>15 DEF Inv
-----------------------------------------------------------------------------
(* Sends, selections and receptions.                                        *)

\* A task gives the handle in its hands back, or takes one.
LEMMA HandsChange ==
  ASSUME Base, NEW t \in Task, NEW q \in Member \cup {NoMember},
         selected' = [selected EXCEPT ![t] = q],
         selected[t] = NoMember \/ q = NoMember
  PROVE  \A r \in Member :
           Cardinality(Hands(r)') = Cardinality(Hands(r))
              + (IF r = q THEN 1 ELSE 0) - (IF r = selected[t] THEN 1 ELSE 0)
<1> SUFFICES ASSUME NEW r \in Member
             PROVE  Cardinality(Hands(r)') = Cardinality(Hands(r))
                      + (IF r = q THEN 1 ELSE 0) - (IF r = selected[t] THEN 1 ELSE 0)
  OBVIOUS
<1>1. /\ selected \in [Task -> Member \cup {NoMember}] /\ NoMember \notin Member
      /\ QueueSetAssumption
  BY Known DEF CallersType
<1>2. Hands(r) \in SUBSET Task
  BY DEF Hands
<1>3. IsFiniteSet(Hands(r)) /\ Cardinality(Hands(r)) \in Nat
  BY <1>1, <1>2, TaskSets
<1>4. CASE r = q
  <2>1. Hands(r)' = Hands(r) \cup {t} /\ t \notin Hands(r) /\ r # selected[t]
    BY <1>1, <1>4 DEF Hands
  <2> QED BY <1>3, <1>4, <2>1, FS_AddElement
<1>5. CASE r # q /\ r = selected[t]
  <2>1. Hands(r)' = Hands(r) \ {t} /\ t \in Hands(r)
    BY <1>1, <1>5 DEF Hands
  <2>2. Cardinality(Hands(r) \ {t}) = Cardinality(Hands(r)) - 1
    BY <1>3, <2>1, FS_RemoveElement
  <2> QED BY ONLY <1>3, <1>5, <2>1, <2>2
<1>6. CASE r # q /\ r # selected[t]
  <2>1. Hands(r)' = Hands(r)
    BY <1>1, <1>6 DEF Hands
  <2> QED BY <1>3, <1>6, <2>1
<1> QED BY <1>4, <1>5, <1>6

\* A send that finds room, and its handle.
LEMMA SentStep ==
  ASSUME Inv, NEW t \in Task, Sent(t)
  PROVE  Inv'
<1> DEFINE q == member[t]
<1>1. At(t, "send") /\ "send" \notin Holding
  BY DEF Sent, Holding, SetHolding
<1>2. /\ Base /\ CallersType /\ suspender = NoTask /\ pc[t] = "send"
      /\ t \notin ToSet(xTasksWaitingToReceive)
      /\ \A r \in Member : t \notin ToSet(xTasksWaitingToSend[r])
      /\ TaskOK(t) /\ t \notin Lookers /\ MembersType /\ ItemsType
      /\ NoMember \notin Member
  BY <1>1, Outside, Known
<1>3. EachItemAnnounced /\ SelectorsWoken
  BY DEF Inv
<1>4. q \in Member
  BY <1>2 DEF TaskOK, User
<1>5. /\ pc' = [pc EXCEPT ![t] = "app"] /\ member' = [member EXCEPT ![t] = NoMember]
      /\ ~IsFull(q) /\ Announce(q, 1)
      /\ uxMessagesWaiting' = [uxMessagesWaiting EXCEPT ![q] = @ + 1]
      /\ UNCHANGED << inSet, cTxLock, cRxLock, xTasksWaitingToSend, selected,
                      suspender >>
  BY DEF Sent, Return, Goto
<1> HIDE DEF q
<1>6. /\ \A r \in Member : cTxLock[r] = queueUNLOCKED
      /\ \A u \in Task : pc[u] \notin Holding
  BY <1>2, NothingLocked
<1>7. \A r \in Member : Owed(r) = 0 /\ Owed(r)' = 0
  BY <1>5, <1>6 DEF Owed, queueUNLOCKED
<1>8. uxMessagesWaiting[q] + 1 <= uxLength[q] /\ uxMessagesWaiting[q] \in Nat
  BY <1>2, <1>4, <1>5, ItemsKnown DEF IsFull
<1>9. inSet[q] => Count(handles, q) + 1 <= uxLength[q]
  BY <1>2, <1>3, <1>4, <1>8, ItemsKnown DEF EachItemAnnounced
<1>10. /\ SetType'
       /\ \A r \in Member :
            Count(handles', r) = Count(handles, r) + (IF r = q /\ inSet[q] THEN 1 ELSE 0)
       /\ ToSet(xTasksWaitingToReceive') \subseteq ToSet(xTasksWaitingToReceive)
       /\ setTxLock' = queueUNLOCKED <=> setTxLock = queueUNLOCKED
       /\ \A V \in SUBSET Task :
            /\ SelectorsWoken
            /\ Lookers \cup (ToSet(xTasksWaitingToReceive)
                               \ ToSet(xTasksWaitingToReceive')) \subseteq V
            => Served(Len(handles'), V, setTxLock', xTasksWaitingToReceive')
  BY <1>2, <1>3, <1>4, <1>5, <1>9, AnnounceStep
<1>11. /\ CallersType' /\ pc'[t] = "app" /\ member'[t] = NoMember
       /\ \A u \in Task \ {t} : pc'[u] = pc[u] /\ member'[u] = member[u]
  BY <1>2, <1>5 DEF CallersType, Places
<1>12. ItemsType' /\ MembersType'
  BY <1>2, <1>4, <1>5, <1>8 DEF ItemsType, MembersType, Locks
<1>13. TypeInv'
  BY <1>2, <1>5, <1>10, <1>11, <1>12 DEF TypeInv
<1>14. LockOK'
  BY <1>2, <1>5, <1>10, <1>11, StillUnlocked DEF Holding, SetHolding
<1>15. HolderOK(t)'
  BY <1>2, <1>5, <1>11, Known DEF HolderOK, Holding, SetHolding
<1>16. TaskOK(t)'
  BY <1>2, <1>5, <1>10, <1>11 DEF TaskOK, User
<1>17. \A u \in Task \ {t} : pc[u] = "remove" =>
         uxMessagesWaiting'[member[u]] = 0 /\ member'[t] # member[u]
  <2>1. \A u \in Task \ {t} : pc[u] = "remove" => member[u] \in Member \ {q}
    BY <1>2, Known DEF TaskOK, q
  <2> QED BY <1>2, <1>5, <1>11, <2>1, Known DEF TaskOK, ItemsType
<1>18. Base' /\ Lookers' \in SUBSET Task /\ Lookers \ {t} \subseteq Lookers'
  BY <1>2, <1>5, <1>10, <1>11, <1>13, <1>14, <1>15, <1>16, <1>17, TaskStep
<1>19. EachItemAnnounced'
  <2>1. \A r \in Member : Announced(r)' = Count(handles', r) + Cardinality(Hands(r))
    BY <1>5 DEF Announced, Count, Copies, Hands
  <2>2. ASSUME NEW r \in Member
        PROVE  IF inSet'[r] THEN Announced(r)' + Owed(r)' = uxMessagesWaiting'[r]
               ELSE Announced(r)' = 0
    <3>1. /\ Announced(r)' = Count(handles', r) + Cardinality(Hands(r))
          /\ Owed(r) = 0 /\ Owed(r)' = 0
          /\ Count(handles', r) = Count(handles, r) + (IF r = q /\ inSet[q] THEN 1 ELSE 0)
          /\ uxMessagesWaiting'[r] = uxMessagesWaiting[r] + (IF r = q THEN 1 ELSE 0)
      BY <1>2, <1>4, <1>5, <1>7, <1>8, <1>10, <2>1 DEF ItemsType
    <3>2. /\ Announced(r) = Count(handles, r) + Cardinality(Hands(r))
          /\ Count(handles, r) \in Nat /\ Cardinality(Hands(r)) \in Nat
      BY <1>2, ItemsKnown
    <3>3. IF inSet[r] THEN Announced(r) + Owed(r) = uxMessagesWaiting[r]
          ELSE Announced(r) = 0
      BY <1>3 DEF EachItemAnnounced
    <3> QED BY <1>5, <3>1, <3>2, <3>3
  <2> QED BY <2>2 DEF EachItemAnnounced
<1>20. SelectorsWoken'
  <2>1. ASSUME NEW u \in ToSet(xTasksWaitingToReceive) \ ToSet(xTasksWaitingToReceive')
        PROVE  u \in Lookers'
    <3>1. u \in Task
      BY <1>2, Known DEF SetType, ToSet
    <3>2. pc[u] \in {"unlockSet", "select"} /\ u # t
      BY <1>2, <3>1, Known DEF TaskOK
    <3>3. \A r \in Member : u \notin ToSet(xTasksWaitingToSend[r])
      BY <1>2, <3>1, <3>2, Known DEF TaskOK
    <3> QED BY <1>5, <1>11, <3>1, <3>2, <3>3 DEF Lookers, Looking, Waiting
  <2>2. Lookers \cup (ToSet(xTasksWaitingToReceive)
                        \ ToSet(xTasksWaitingToReceive')) \subseteq Lookers'
    BY <1>2, <1>18, <2>1
  <2>3. Served(Len(handles'), Lookers', setTxLock', xTasksWaitingToReceive')
    BY <1>3, <1>10, <1>18, <2>2
  <2> QED BY <2>3, WokenIsServed
<1> QED BY <1>18, <1>19, <1>20 DEF Inv

\* A task takes a handle.
LEMMA SelectedStep ==
  ASSUME Inv, NEW t \in Task, Selected(t)
  PROVE  Inv'
<1> DEFINE q == Head(handles)
<1>1. At(t, "select") /\ "select" \notin Holding
  BY DEF Selected, Holding, SetHolding
<1>2. /\ Base /\ CallersType /\ suspender = NoTask /\ pc[t] = "select"
      /\ t \notin ToSet(xTasksWaitingToReceive)
      /\ \A r \in Member : t \notin ToSet(xTasksWaitingToSend[r])
      /\ TaskOK(t) /\ MembersType /\ ItemsType /\ SetType /\ QueueSetAssumption
      /\ NoMember \notin Member /\ Lookers \in SUBSET Task
  BY <1>1, Outside, Known
<1>3. EachItemAnnounced /\ SelectorsWoken
  BY DEF Inv
<1>4. /\ pc' = [pc EXCEPT ![t] = "app"] /\ handles # << >>
      /\ selected' = [selected EXCEPT ![t] = q] /\ handles' = Tail(handles)
      /\ UNCHANGED << inSet, uxMessagesWaiting, cTxLock, cRxLock, xTasksWaitingToSend,
                      setTxLock, xTasksWaitingToReceive, member, suspender >>
  BY DEF Selected, Goto, members
<1>5. /\ handles' \in Seq(Member) /\ Len(handles') = Len(handles) - 1 /\ q \in Member
      /\ Len(handles) \in Nat /\ Len(handles') \in Nat
      /\ \A r : Count(handles', r) = Count(handles, r) - (IF q = r THEN 1 ELSE 0)
  BY <1>2, <1>4, CountTail DEF SetType
<1> HIDE DEF q
<1>6. /\ CallersType' /\ pc'[t] = "app" /\ member'[t] = NoMember
      /\ \A u \in Task \ {t} :
           pc'[u] = pc[u] /\ member'[u] = member[u] /\ selected'[u] = selected[u]
      /\ selected[t] = NoMember
  BY <1>2, <1>4, <1>5 DEF CallersType, Places, TaskOK, User
<1>7. SetType'
  BY <1>2, <1>4, <1>5, Known DEF SetType, Locks
<1>8. TypeInv'
  BY <1>2, <1>4, <1>6, <1>7 DEF TypeInv, ItemsType, MembersType, Locks
<1>9. LockOK'
  BY <1>2, <1>4, <1>6, StillUnlocked DEF Holding, SetHolding
<1>10. HolderOK(t)'
  BY <1>2, <1>4, <1>6, Known DEF HolderOK, Holding, SetHolding
<1>11. TaskOK(t)'
  BY <1>2, <1>4, <1>6 DEF TaskOK, User
<1>12. \A u \in Task \ {t} : pc[u] = "remove" =>
         uxMessagesWaiting'[member[u]] = 0 /\ member'[t] # member[u]
  BY <1>2, <1>4, <1>6, Known DEF TaskOK
<1>13. Base' /\ Lookers' \in SUBSET Task /\ Lookers \ {t} \subseteq Lookers'
  BY <1>2, <1>4, <1>6, <1>8, <1>9, <1>10, <1>11, <1>12, TaskStep
<1>14. EachItemAnnounced'
  <2>1. \A r \in Member :
          Cardinality(Hands(r)') = Cardinality(Hands(r))
             + (IF r = q THEN 1 ELSE 0) - (IF r = selected[t] THEN 1 ELSE 0)
    BY <1>2, <1>4, <1>5, <1>6, HandsChange
  <2>2. \A r \in Member : /\ Announced(r)' = Count(handles', r) + Cardinality(Hands(r)')
                          /\ Owed(r)' = Owed(r)
    BY <1>4 DEF Announced, Count, Copies, Hands, Owed
  <2>3. ASSUME NEW r \in Member PROVE Announced(r)' = Announced(r)
    <3>1. /\ Announced(r) = Count(handles, r) + Cardinality(Hands(r))
          /\ Count(handles, r) \in Nat /\ Cardinality(Hands(r)) \in Nat
      BY <1>2, ItemsKnown
    <3>2. /\ Cardinality(Hands(r)') = Cardinality(Hands(r)) + (IF r = q THEN 1 ELSE 0) - 0
          /\ Count(handles', r) = Count(handles, r) - (IF r = q THEN 1 ELSE 0)
      BY <1>2, <1>5, <1>6, <2>1
    <3> QED BY <2>2, <3>1, <3>2
  <2> QED BY <1>3, <1>4, <2>2, <2>3 DEF EachItemAnnounced
<1>15. SelectorsWoken'
  <2>1. Served(Len(handles), Lookers, setTxLock, xTasksWaitingToReceive)
    BY <1>3, WokenIsServed
  <2>2. /\ xTasksWaitingToReceive \in Seq(Task) /\ setTxLock \in Int
        /\ Len(handles) \in Int
    BY <1>2 DEF SetType, Locks, queueUNLOCKED
  <2>3. Served(Len(handles) - 1, Lookers', setTxLock, xTasksWaitingToReceive)
    BY <1>2, <1>13, <2>1, <2>2, ServedByLess
  <2>4. Served(Len(handles'), Lookers', setTxLock', xTasksWaitingToReceive')
    BY <1>4, <1>5, <2>3
  <2> QED BY <2>4, WokenIsServed
<1> QED BY <1>13, <1>14, <1>15 DEF Inv

\* A task receives an item, and gives its handle back.
LEMMA ReceiveStep ==
  ASSUME Inv, NEW t \in Task, NEW q \in Member, Receive(t, q)
  PROVE  Inv'
<1>1. At(t, "app") /\ "app" \notin Holding
  BY DEF Receive, Holding, SetHolding
<1>2. /\ Base /\ CallersType /\ suspender = NoTask /\ pc[t] = "app"
      /\ t \notin ToSet(xTasksWaitingToReceive)
      /\ \A r \in Member : t \notin ToSet(xTasksWaitingToSend[r])
      /\ TaskOK(t) /\ t \notin Lookers /\ MembersType /\ ItemsType /\ SetType
      /\ NoMember \notin Member
  BY <1>1, Outside, Known
<1>3. EachItemAnnounced /\ SelectorsWoken
  BY DEF Inv
<1>4. /\ selected[t] = q \/ (selected[t] = NoMember /\ ~inSet[q])
      /\ IF uxMessagesWaiting[q] > 0
         THEN /\ uxMessagesWaiting' = [uxMessagesWaiting EXCEPT ![q] = @ - 1]
              /\ xTasksWaitingToSend' =
                   [xTasksWaitingToSend EXCEPT ![q] = AllBut(1, @)]
         ELSE UNCHANGED << uxMessagesWaiting, xTasksWaitingToSend >>
      /\ selected' = [selected EXCEPT ![t] = NoMember]
      /\ UNCHANGED << inSet, cTxLock, cRxLock, handles, setTxLock,
                      xTasksWaitingToReceive, pc, member, suspender >>
  BY DEF Receive, set
<1>5. /\ CallersType' /\ pc'[t] = "app" /\ member'[t] = NoMember
      /\ \A u \in Task \ {t} :
           pc'[u] = pc[u] /\ member'[u] = member[u] /\ selected'[u] = selected[u]
  BY <1>2, <1>4 DEF CallersType, TaskOK, User
<1>6. /\ xTasksWaitingToSend' \in [Member -> Seq(Task)]
      /\ \A r \in Member :
           ToSet(xTasksWaitingToSend'[r]) \subseteq ToSet(xTasksWaitingToSend[r])
  <2>1. xTasksWaitingToSend \in [Member -> Seq(Task)]
    BY <1>2 DEF MembersType
  <2>2. /\ AllBut(1, xTasksWaitingToSend[q]) \in Seq(Task)
        /\ ToSet(AllBut(1, xTasksWaitingToSend[q])) \subseteq ToSet(xTasksWaitingToSend[q])
    BY <2>1, AllButList
  <2> QED BY <1>4, <2>1, <2>2
<1>7. /\ uxMessagesWaiting' \in [Member -> Nat]
      /\ \A r \in Member : uxMessagesWaiting'[r] <= uxMessagesWaiting[r]
  BY <1>2, <1>4 DEF ItemsType
<1>8. TypeInv'
  <2>1. ItemsType'
    BY <1>2, <1>7, Known DEF ItemsType
  <2> QED BY <1>2, <1>4, <1>5, <1>6, <2>1, Known DEF TypeInv, MembersType, SetType, Locks
<1>9. LockOK'
  BY <1>2, <1>4, <1>5, StillUnlocked DEF Holding, SetHolding
<1>10. HolderOK(t)'
  BY <1>2, <1>4, <1>5, Known DEF HolderOK, Holding, SetHolding
<1>11. TaskOK(t)'
  BY <1>2, <1>4, <1>5, <1>6 DEF TaskOK, User
<1>12. \A u \in Task \ {t} : pc[u] = "remove" =>
         uxMessagesWaiting'[member[u]] = 0 /\ member'[t] # member[u]
  <2>1. ASSUME NEW u \in Task, pc[u] = "remove"
        PROVE  member[u] \in Member /\ uxMessagesWaiting[member[u]] = 0
    BY <1>2, <2>1, Known DEF TaskOK
  <2>2. \A u \in Task : pc[u] = "remove" => uxMessagesWaiting'[member[u]] = 0
    BY <1>2, <1>7, <2>1 DEF ItemsType
  <2> QED BY <1>2, <1>5, <2>1, <2>2
<1>13. Base' /\ Lookers' \in SUBSET Task /\ Lookers \ {t} \subseteq Lookers'
  BY <1>2, <1>4, <1>5, <1>6, <1>8, <1>9, <1>10, <1>11, <1>12, TaskStep
<1>14. EachItemAnnounced'
  <2>1. \A r \in Member :
          Cardinality(Hands(r)') = Cardinality(Hands(r))
             + (IF r = NoMember THEN 1 ELSE 0) - (IF r = selected[t] THEN 1 ELSE 0)
    BY <1>2, <1>4, HandsChange
  <2>2. \A r \in Member : /\ Announced(r)' = Count(handles, r) + Cardinality(Hands(r)')
                          /\ Owed(r)' = Owed(r)
    BY <1>4 DEF Announced, Count, Copies, Hands, Owed
  <2>3. \A r \in Member : cTxLock[r] = queueUNLOCKED
    BY <1>2, NothingLocked
  <2>4. ASSUME NEW r \in Member
        PROVE  IF inSet'[r] THEN Announced(r)' + Owed(r)' = uxMessagesWaiting'[r]
               ELSE Announced(r)' = 0
    <3>1. /\ Announced(r) = Count(handles, r) + Cardinality(Hands(r))
          /\ Count(handles, r) \in Nat /\ Cardinality(Hands(r)) \in Nat
          /\ uxMessagesWaiting[r] \in Nat
      BY <1>2, ItemsKnown
    <3>2. /\ Announced(r)' = Announced(r) - (IF r = selected[t] THEN 1 ELSE 0)
          /\ Owed(r)' = 0 /\ Owed(r) = 0
      BY <1>2, <2>1, <2>2, <2>3, <3>1 DEF Owed, queueUNLOCKED
    <3>3. IF inSet[r] THEN Announced(r) + Owed(r) = uxMessagesWaiting[r]
          ELSE Announced(r) = 0
      BY <1>3 DEF EachItemAnnounced
    <3>4. r = selected[t] => Cardinality(Hands(r)) >= 1
      <4>1. IsFiniteSet(Hands(r))
        BY <1>2, Known, TaskSets, Hands(r) \in SUBSET Task DEF Hands
      <4>2. r = selected[t] => Hands(r) # {}
        BY DEF Hands
      <4> QED BY <3>1, <4>1, <4>2, FS_EmptySet
    <3>5. CASE r = selected[t]
      <4>1. inSet[r] /\ uxMessagesWaiting[r] >= 1 /\ r = q
        BY <1>2, <1>4, <3>1, <3>2, <3>3, <3>4, <3>5
      <4>2. uxMessagesWaiting'[r] = uxMessagesWaiting[r] - 1 /\ inSet' = inSet
        BY <1>2, <1>4, <3>1, <4>1 DEF ItemsType
      <4> QED BY <3>1, <3>2, <3>3, <3>4, <3>5, <4>1, <4>2
    <3>6. CASE r # selected[t]
      <4>1. inSet' = inSet /\ (inSet[r] => uxMessagesWaiting'[r] = uxMessagesWaiting[r])
        BY <1>2, <1>4, <3>6 DEF ItemsType
      <4> QED BY <3>1, <3>2, <3>3, <3>6, <4>1
    <3> QED BY <3>5, <3>6
  <2> QED BY <2>4 DEF EachItemAnnounced
<1>15. SelectorsWoken'
  <2>1. SetType' /\ Lookers \subseteq Lookers'
    BY <1>2, <1>8, <1>13 DEF TypeInv
  <2>2. Len(handles) \in Nat /\ Len(xTasksWaitingToReceive) \in Nat
    BY <1>2 DEF SetType
  <2> QED BY <1>2, <1>3, <1>4, <1>13, <2>1, <2>2, StillServed
<1> QED BY <1>13, <1>14, <1>15 DEF Inv
-----------------------------------------------------------------------------
(* Membership, and the end of a wait.                                       *)

\* xQueueAddToSet
LEMMA AddStep ==
  ASSUME Inv, NEW t \in Task, NEW q \in Member, xQueueAddToSet(t, q)
  PROVE  Inv'
<1>1. At(t, "app") /\ "app" \notin Holding
  BY DEF xQueueAddToSet, Holding, SetHolding
<1>2. /\ Base /\ suspender = NoTask /\ CallersType /\ MembersType /\ ItemsType
      /\ SetType /\ LockOK
  BY <1>1, Outside, Known
<1>3. EachItemAnnounced /\ SelectorsWoken
  BY DEF Inv
<1>4. /\ ~inSet[q] /\ uxMessagesWaiting[q] = 0
      /\ inSet' = [inSet EXCEPT ![q] = TRUE]
      /\ UNCHANGED << uxMessagesWaiting, cTxLock, cRxLock, xTasksWaitingToSend, handles,
                      setTxLock, xTasksWaitingToReceive, pc, member, selected,
                      suspender >>
  BY DEF xQueueAddToSet, MayBeAdded, set, callers
<1>5. /\ TypeInv' /\ SetType'
  BY <1>2, <1>4, Known DEF TypeInv, CallersType, ItemsType, MembersType, SetType, Locks
<1>6. LockOK'
  BY <1>2, <1>4 DEF LockOK
<1>7. \A u \in Task : pc[u] = "remove" => uxMessagesWaiting'[member[u]] = 0
  BY <1>2, <1>4, Known DEF TaskOK
<1>8. Base' /\ Lookers' \in SUBSET Task /\ Lookers \subseteq Lookers'
  BY <1>2, <1>4, <1>5, <1>6, <1>7, TasksStay
<1>9. EachItemAnnounced'
  <2>1. \A r \in Member : Announced(r)' = Announced(r) /\ Owed(r)' = Owed(r)
    BY <1>4 DEF Announced, Owed
  <2>2. Owed(q) = 0 /\ Announced(q) = 0
    BY <1>2, <1>3, <1>4, NothingLocked DEF Owed, queueUNLOCKED, EachItemAnnounced
  <2> QED BY <1>2, <1>3, <1>4, <2>1, <2>2 DEF EachItemAnnounced, MembersType
<1>10. SelectorsWoken'
  <2>1. Len(handles) \in Nat /\ Len(xTasksWaitingToReceive) \in Nat
    BY <1>2 DEF SetType
  <2> QED BY <1>2, <1>3, <1>4, <1>5, <1>8, <2>1, StillServed
<1> QED BY <1>8, <1>9, <1>10 DEF Inv

\* xQueueRemoveFromSet: the member is still empty.
LEMMA RemoveStep ==
  ASSUME Inv, NEW t \in Task, xQueueRemoveFromSet(t)
  PROVE  Inv'
<1> DEFINE q == member[t]
<1>1. At(t, "remove") /\ "remove" \notin Holding
  BY DEF xQueueRemoveFromSet, Holding, SetHolding
<1>2. /\ Base /\ CallersType /\ suspender = NoTask /\ pc[t] = "remove"
      /\ t \notin ToSet(xTasksWaitingToReceive)
      /\ \A r \in Member : t \notin ToSet(xTasksWaitingToSend[r])
      /\ TaskOK(t) /\ t \notin Lookers /\ MembersType /\ ItemsType /\ SetType
      /\ NoMember \notin Member
  BY <1>1, Outside, Known
<1>3. EachItemAnnounced /\ SelectorsWoken
  BY DEF Inv
<1>4. q \in Member /\ uxMessagesWaiting[q] = 0
  BY <1>2 DEF TaskOK
<1>5. /\ inSet' = [inSet EXCEPT ![q] = FALSE]
      /\ pc' = [pc EXCEPT ![t] = "app"] /\ member' = [member EXCEPT ![t] = NoMember]
      /\ UNCHANGED << uxMessagesWaiting, cTxLock, cRxLock, xTasksWaitingToSend, handles,
                      setTxLock, xTasksWaitingToReceive, selected, suspender >>
  BY DEF xQueueRemoveFromSet, Return, Goto, set
<1> HIDE DEF q
<1>6. /\ CallersType' /\ pc'[t] = "app" /\ member'[t] = NoMember
      /\ \A u \in Task \ {t} : pc'[u] = pc[u] /\ member'[u] = member[u]
  BY <1>2, <1>5 DEF CallersType, Places
<1>7. /\ TypeInv' /\ SetType'
  BY <1>2, <1>4, <1>5, <1>6, Known DEF TypeInv, ItemsType, MembersType, SetType, Locks
<1>8. LockOK'
  BY <1>2, <1>5, <1>6, StillUnlocked DEF Holding, SetHolding
<1>9. HolderOK(t)'
  BY <1>2, <1>5, <1>6, Known DEF HolderOK, Holding, SetHolding
<1>10. TaskOK(t)'
  BY <1>2, <1>5, <1>6 DEF TaskOK, User
<1>11. \A u \in Task \ {t} : pc[u] = "remove" =>
         uxMessagesWaiting'[member[u]] = 0 /\ member'[t] # member[u]
  BY <1>2, <1>5, <1>6, Known DEF TaskOK
<1>12. Base' /\ Lookers' \in SUBSET Task /\ Lookers \ {t} \subseteq Lookers'
  BY <1>2, <1>5, <1>6, <1>7, <1>8, <1>9, <1>10, <1>11, TaskStep
<1>13. EachItemAnnounced'
  <2>1. \A r \in Member : Announced(r)' = Announced(r) /\ Owed(r)' = Owed(r)
    BY <1>5 DEF Announced, Owed
  <2>2. Announced(q) = 0
    <3>1. Announced(q) \in Nat /\ Owed(q) \in Nat
      BY <1>2, <1>4, ItemsKnown
    <3>2. IF inSet[q] THEN Announced(q) + Owed(q) = 0 ELSE Announced(q) = 0
      BY <1>3, <1>4 DEF EachItemAnnounced
    <3> QED BY <3>1, <3>2
  <2> QED BY <1>2, <1>3, <1>4, <1>5, <2>1, <2>2 DEF EachItemAnnounced, MembersType
<1>14. SelectorsWoken'
  <2>1. Len(handles) \in Nat /\ Len(xTasksWaitingToReceive) \in Nat
    BY <1>2 DEF SetType
  <2> QED BY <1>2, <1>3, <1>5, <1>7, <1>12, <2>1, StillServed
<1> QED BY <1>12, <1>13, <1>14 DEF Inv

\* A block time ends.
LEMMA ExpireStep ==
  ASSUME Inv, NEW t \in Task, Expire(t)
  PROVE  Inv'
<1>1. /\ Base /\ CallersType /\ MembersType /\ ItemsType /\ SetType /\ LockOK
      /\ EachItemAnnounced /\ SelectorsWoken
  BY Known DEF Inv
<1>2. /\ suspender = NoTask
      /\ xTasksWaitingToSend' = [q \in Member |-> Without(xTasksWaitingToSend[q], t)]
      /\ xTasksWaitingToReceive' = Without(xTasksWaitingToReceive, t)
      /\ UNCHANGED << inSet, uxMessagesWaiting, cTxLock, cRxLock, handles, setTxLock,
                      pc, member, selected, suspender >>
  BY DEF Expire, callers
<1>3. /\ xTasksWaitingToReceive' \in Seq(Task) /\ IsInjective(xTasksWaitingToReceive')
      /\ ToSet(xTasksWaitingToReceive') \subseteq ToSet(xTasksWaitingToReceive)
      /\ Len(xTasksWaitingToReceive') <= Len(xTasksWaitingToReceive)
  BY <1>1, <1>2, WithoutList DEF SetType
<1>4. \A q \in Member :
        /\ Without(xTasksWaitingToSend[q], t) \in Seq(Task)
        /\ ToSet(Without(xTasksWaitingToSend[q], t)) \subseteq ToSet(xTasksWaitingToSend[q])
  BY <1>1, WithoutList DEF MembersType
<1>5. /\ xTasksWaitingToSend' \in [Member -> Seq(Task)]
      /\ \A q \in Member :
           ToSet(xTasksWaitingToSend'[q]) \subseteq ToSet(xTasksWaitingToSend[q])
  BY <1>2, <1>4
<1>6. TypeInv' /\ SetType'
  BY <1>1, <1>2, <1>3, <1>5, Known
     DEF TypeInv, CallersType, ItemsType, MembersType, SetType, Locks
<1>7. LockOK'
  BY <1>1, <1>2 DEF LockOK
<1>8. \A u \in Task : pc[u] = "remove" => uxMessagesWaiting'[member[u]] = 0
  BY <1>1, <1>2, Known DEF TaskOK
<1>9. Base' /\ Lookers' \in SUBSET Task /\ Lookers \subseteq Lookers'
  BY <1>1, <1>2, <1>3, <1>5, <1>6, <1>7, <1>8, TasksStay
<1>10. EachItemAnnounced'
  BY <1>1, <1>2, ItemsKept DEF Owed
<1>11. SelectorsWoken'
  <2>1. Len(handles) \in Nat
    BY <1>1 DEF SetType
  <2> QED BY <1>1, <1>2, <1>3, <1>6, <1>9, <2>1, StillServed
<1> QED BY <1>9, <1>10, <1>11 DEF Inv
-----------------------------------------------------------------------------
(* Interrupts.                                                              *)

\* xQueueGenericSendFromISR: the handle is sent at once, or counted by the lock
\* of the member, which never stops counting: there are no more items than the
\* member has room for, and to an overwritten member no task sends.
LEMMA SendFromISRStep ==
  ASSUME Inv, NEW q \in Member, xQueueGenericSendFromISR(q)
  PROVE  Inv'
<1>1. /\ Base /\ CallersType /\ MembersType /\ ItemsType /\ SetType /\ LockOK
      /\ WellUsed /\ uxNumberOfTasks \in Nat /\ EachItemAnnounced /\ SelectorsWoken
  BY Known DEF Inv
<1>2. /\ ~IsFull(q) \/ q \in Overwritten
      /\ MaySend(q)
      /\ uxMessagesWaiting' = [uxMessagesWaiting EXCEPT ![q] =
                                 IF IsFull(q) THEN @ ELSE @ + 1]
      /\ UNCHANGED << inSet, cRxLock, xTasksWaitingToSend, pc, member, selected,
                      suspender >>
  BY DEF xQueueGenericSendFromISR, callers
<1>3. /\ Count(handles, q) \in Nat /\ Cardinality(Hands(q)) \in Nat /\ Owed(q) \in Nat
      /\ uxLength[q] \in Nat /\ uxMessagesWaiting[q] \in Nat
      /\ uxMessagesWaiting[q] <= uxLength[q]
      /\ Announced(q) = Count(handles, q) + Cardinality(Hands(q))
  BY <1>1, ItemsKnown
<1>4. IF inSet[q] THEN Announced(q) + Owed(q) = uxMessagesWaiting[q] ELSE Announced(q) = 0
  BY <1>1 DEF EachItemAnnounced
<1>5. ItemsType'
  <2>1. (IF IsFull(q) THEN uxMessagesWaiting[q] ELSE uxMessagesWaiting[q] + 1)
           \in 0..uxLength[q]
    BY <1>3 DEF IsFull
  <2> QED BY <1>1, <1>2, <2>1, Known DEF ItemsType
<1>6. \A u \in Task : pc[u] = "remove" => uxMessagesWaiting'[member[u]] = 0
  <2>1. \A u \in Task : pc[u] = "remove" =>
          member[u] \in Member \ {q} /\ uxMessagesWaiting[member[u]] = 0
    BY <1>1, <1>2, Known DEF TaskOK, MaySend, WellUsed
  <2> QED BY <1>1, <1>2, <2>1 DEF ItemsType
<1>7. \A r \in Member : uxMessagesWaiting'[r] =
        uxMessagesWaiting[r] + (IF r = q /\ ~IsFull(q) THEN 1 ELSE 0)
  BY <1>1, <1>2 DEF ItemsType
<1>8. CASE cTxLock[q] = queueUNLOCKED
  <2> DEFINE n == Announcements(q)
  <2>1. Announce(q, n) /\ UNCHANGED cTxLock
    BY <1>8 DEF xQueueGenericSendFromISR
  <2>2. /\ n \in Nat /\ Owed(q) = 0 /\ n = (IF ~IsFull(q) THEN 1 ELSE 0)
        /\ inSet[q] => Count(handles, q) + n <= uxLength[q]
    BY <1>3, <1>4, <1>8 DEF Announcements, Owed, IsFull, queueUNLOCKED
  <2> HIDE DEF n
  <2>3. /\ SetType'
        /\ \A r \in Member :
             Count(handles', r) = Count(handles, r) + (IF r = q /\ inSet[q] THEN n ELSE 0)
        /\ ToSet(xTasksWaitingToReceive') \subseteq ToSet(xTasksWaitingToReceive)
        /\ setTxLock' = queueUNLOCKED <=> setTxLock = queueUNLOCKED
        /\ setTxLock # queueUNLOCKED =>
             (Len(handles) <= setTxLock \/ setTxLock = uxNumberOfTasks
                => Len(handles') <= setTxLock' \/ setTxLock' = uxNumberOfTasks)
        /\ \A V \in SUBSET Task :
             /\ SelectorsWoken
             /\ Lookers \cup (ToSet(xTasksWaitingToReceive)
                                \ ToSet(xTasksWaitingToReceive')) \subseteq V
             => Served(Len(handles'), V, setTxLock', xTasksWaitingToReceive')
    BY <1>1, <2>1, <2>2, AnnounceStep
  <2>4. TypeInv'
    BY <1>1, <1>2, <1>5, <2>1, <2>3, Known DEF TypeInv, CallersType, MembersType, Locks
  <2>5. LockOK'
    BY <1>1, <1>2, <2>1, <2>3 DEF LockOK
  <2>6. Base' /\ Lookers' \in SUBSET Task /\ Lookers \subseteq Lookers'
    BY <1>1, <1>2, <1>6, <2>3, <2>4, <2>5, TasksStay
  <2>7. EachItemAnnounced'
    <3>1. \A r \in Member : /\ Announced(r)' = Count(handles', r) + Cardinality(Hands(r))
                            /\ Owed(r)' = Owed(r)
      BY <1>2, <2>1 DEF Announced, Count, Copies, Hands, Owed
    <3>2. ASSUME NEW r \in Member
          PROVE  IF inSet'[r] THEN Announced(r)' + Owed(r)' = uxMessagesWaiting'[r]
                 ELSE Announced(r)' = 0
      <4>1. /\ Announced(r)' = Count(handles', r) + Cardinality(Hands(r))
            /\ Owed(r)' = Owed(r)
            /\ Count(handles', r) = Count(handles, r) + (IF r = q /\ inSet[q] THEN n ELSE 0)
            /\ uxMessagesWaiting'[r]
                 = uxMessagesWaiting[r] + (IF r = q /\ ~IsFull(q) THEN 1 ELSE 0)
        BY <1>7, <2>3, <3>1
      <4>2. /\ Announced(r) = Count(handles, r) + Cardinality(Hands(r))
            /\ Count(handles, r) \in Nat /\ Cardinality(Hands(r)) \in Nat
            /\ Owed(r) \in Nat /\ uxMessagesWaiting[r] \in Nat
        BY <1>1, ItemsKnown
      <4>3. IF inSet[r] THEN Announced(r) + Owed(r) = uxMessagesWaiting[r]
            ELSE Announced(r) = 0
        BY <1>1 DEF EachItemAnnounced
      <4> QED BY <1>2, <2>2, <4>1, <4>2, <4>3
    <3> QED BY <3>2 DEF EachItemAnnounced
  <2>8. SelectorsWoken'
    <3>1. ASSUME NEW u \in ToSet(xTasksWaitingToReceive) \ ToSet(xTasksWaitingToReceive')
          PROVE  u \in Lookers'
      <4>1. u \in Task
        BY <1>1 DEF SetType, ToSet
      <4>2. pc[u] \in {"unlockSet", "select"}
        BY <1>1, <4>1, Known DEF TaskOK
      <4>3. \A r \in Member : u \notin ToSet(xTasksWaitingToSend[r])
        BY <1>1, <4>1, <4>2, Known DEF TaskOK
      <4> QED BY <1>2, <4>1, <4>2, <4>3 DEF Lookers, Looking, Waiting
    <3>2. Served(Len(handles'), Lookers', setTxLock', xTasksWaitingToReceive')
      BY <1>1, <2>3, <2>6, <3>1
    <3> QED BY <3>2, WokenIsServed
  <2> QED BY <2>6, <2>7, <2>8 DEF Inv
<1>9. CASE cTxLock[q] # queueUNLOCKED
  <2>1. /\ cTxLock' = [cTxLock EXCEPT ![q] = Counted(@, 1)]
        /\ UNCHANGED << handles, setTxLock, xTasksWaitingToReceive >>
    BY <1>9 DEF xQueueGenericSendFromISR, set
  <2>2. ~IsFull(q)
    <3>1. PICK u \in Task : pc[u] \in {"test", "place", "unlock"} /\ member[u] = q
      BY <1>1, <1>9 DEF LockOK
    <3>2. q \notin Overwritten
      BY <1>1, <3>1, Known DEF TaskOK, User
    <3> QED BY <1>2, <3>2
  <2>3. cTxLock[q] \in 0..uxNumberOfTasks
    BY <1>1, <1>9 DEF MembersType, Locks, queueUNLOCKED
  <2>4. /\ Counted(cTxLock[q], 1) \in 1..uxNumberOfTasks \/ uxNumberOfTasks = 0
        /\ Counted(cTxLock[q], 1) \in Locks /\ Counted(cTxLock[q], 1) # queueUNLOCKED
        /\ cTxLock[q] < uxNumberOfTasks => Counted(cTxLock[q], 1) = cTxLock[q] + 1
    BY <1>1, <2>3 DEF Counted, Locks, queueUNLOCKED
  <2>5. inSet[q] => cTxLock[q] < uxNumberOfTasks
    <3>1. uxMessagesWaiting[q] < uxLength[q] /\ uxLength[q] <= uxNumberOfTasks
      BY <1>1, <1>3, <2>2 DEF WellUsed, IsFull
    <3>2. cTxLock[q] <= Owed(q) /\ Announced(q) >= 0
      BY <1>3, <2>3 DEF Owed
    <3>3. inSet[q] => Owed(q) <= uxMessagesWaiting[q]
      BY ONLY <1>3, <1>4, <3>2
    <3> QED BY ONLY <1>1, <1>3, <2>3, <3>1, <3>2, <3>3
  <2>6. /\ cTxLock' \in [Member -> Locks] /\ cTxLock'[q] = Counted(cTxLock[q], 1)
        /\ \A r \in Member \ {q} : cTxLock'[r] = cTxLock[r]
    BY <1>1, <2>1, <2>4 DEF MembersType
  <2>7. TypeInv' /\ SetType'
    BY <1>1, <1>2, <1>5, <2>1, <2>6, Known
       DEF TypeInv, CallersType, MembersType, SetType, Locks
  <2>8. LockOK'
    BY <1>1, <1>2, <1>9, <2>1, <2>6 DEF LockOK
  <2>9. Base' /\ Lookers' \in SUBSET Task /\ Lookers \subseteq Lookers'
    BY <1>1, <1>2, <1>6, <2>1, <2>7, <2>8, TasksStay
  <2>10. EachItemAnnounced'
    <3>1. \A r \in Member : Announced(r)' = Announced(r)
      BY <1>2, <2>1 DEF Announced
    <3>2. \A r \in Member \ {q} : Owed(r)' = Owed(r)
      BY <2>6 DEF Owed
    <3>3. cTxLock'[q] = cTxLock[q] + 1 /\ cTxLock[q] >= 0 /\ inSet[q]
            => (IF cTxLock'[q] > 0 THEN cTxLock'[q] ELSE 0) = Owed(q) + 1
      BY <2>3 DEF Owed
    <3>4. ASSUME NEW r \in Member
          PROVE  IF inSet'[r] THEN Announced(r)' + Owed(r)' = uxMessagesWaiting'[r]
                 ELSE Announced(r)' = 0
      <4>1. IF inSet[r] THEN Announced(r) + Owed(r) = uxMessagesWaiting[r]
            ELSE Announced(r) = 0
        BY <1>1 DEF EachItemAnnounced
      <4>2. /\ Announced(r)' = Announced(r) /\ inSet' = inSet
            /\ uxMessagesWaiting'[r] = uxMessagesWaiting[r] + (IF r = q THEN 1 ELSE 0)
        BY <1>2, <1>7, <2>2, <3>1
      <4>3. CASE r # q
        BY <1>1, <3>2, <4>1, <4>2, <4>3, ItemsKnown
      <4>4. CASE r = q /\ inSet[q]
        <5>1. cTxLock'[q] = cTxLock[q] + 1 /\ cTxLock[q] >= 0
          BY <2>3, <2>4, <2>5, <2>6, <4>4
        <5>2. Owed(r)' = Owed(r) + 1
          BY <3>3, <4>4, <5>1 DEF Owed
        <5> QED BY <1>3, <4>1, <4>2, <4>4, <5>2
      <4>5. CASE r = q /\ ~inSet[q]
        BY <4>1, <4>2, <4>5
      <4> QED BY <4>3, <4>4, <4>5
    <3> QED BY <3>4 DEF EachItemAnnounced
  <2>11. SelectorsWoken'
    <3>1. Len(handles) \in Nat /\ Len(xTasksWaitingToReceive) \in Nat
      BY <1>1 DEF SetType
    <3> QED BY <1>1, <2>1, <2>7, <2>9, <3>1, StillServed
  <2> QED BY <2>9, <2>10, <2>11 DEF Inv
<1> QED BY <1>8, <1>9

\* xQueueSelectFromSetFromISR, and xQueueReceiveFromISR: the handle has an item.
LEMMA SelectFromISRStep ==
  ASSUME Inv, SelectFromISR
  PROVE  Inv'
<1> DEFINE q == Head(handles)
<1>1. /\ Base /\ CallersType /\ MembersType /\ ItemsType /\ SetType /\ LockOK
      /\ uxNumberOfTasks \in Nat /\ EachItemAnnounced /\ SelectorsWoken
      /\ QueueSetAssumption /\ Lookers \in SUBSET Task
  BY Known DEF Inv
<1>2. /\ handles # << >> /\ handles' = Tail(handles)
      /\ IF uxMessagesWaiting[q] = 0
         THEN UNCHANGED << uxMessagesWaiting, cRxLock, xTasksWaitingToSend >>
         ELSE /\ uxMessagesWaiting' = [uxMessagesWaiting EXCEPT ![q] = @ - 1]
              /\ IF cRxLock[q] = queueUNLOCKED
                 THEN /\ xTasksWaitingToSend' =
                           [xTasksWaitingToSend EXCEPT ![q] = AllBut(1, @)]
                      /\ UNCHANGED cRxLock
                 ELSE /\ cRxLock' = [cRxLock EXCEPT ![q] = Counted(@, 1)]
                      /\ UNCHANGED xTasksWaitingToSend
      /\ UNCHANGED << inSet, cTxLock, setTxLock, xTasksWaitingToReceive, pc, member,
                      selected, suspender >>
  BY DEF SelectFromISR, callers
<1>3. /\ handles' \in Seq(Member) /\ Len(handles') = Len(handles) - 1 /\ q \in Member
      /\ Len(handles) \in Nat /\ Count(handles, q) >= 1
      /\ \A r : Count(handles', r) = Count(handles, r) - (IF q = r THEN 1 ELSE 0)
  BY <1>1, <1>2, CountTail DEF SetType
<1> HIDE DEF q
<1>4. inSet[q] /\ uxMessagesWaiting[q] >= 1 /\ uxMessagesWaiting[q] \in Nat
  BY <1>1, <1>3, ItemsKnown DEF EachItemAnnounced
<1>5. /\ uxMessagesWaiting' \in [Member -> Nat]
      /\ \A r \in Member :
           uxMessagesWaiting'[r] = uxMessagesWaiting[r] - (IF r = q THEN 1 ELSE 0)
  BY <1>1, <1>2, <1>3, <1>4 DEF ItemsType
<1>6. /\ cRxLock' \in [Member -> Locks] /\ xTasksWaitingToSend' \in [Member -> Seq(Task)]
      /\ \A r \in Member :
           ToSet(xTasksWaitingToSend'[r]) \subseteq ToSet(xTasksWaitingToSend[r])
  <2>1. /\ AllBut(1, xTasksWaitingToSend[q]) \in Seq(Task)
        /\ ToSet(AllBut(1, xTasksWaitingToSend[q])) \subseteq ToSet(xTasksWaitingToSend[q])
    BY <1>1, <1>3, AllButList DEF MembersType
  <2>2. Counted(cRxLock[q], 1) \in Locks
    BY <1>1, <1>3 DEF Counted, Locks, queueUNLOCKED, MembersType
  <2> QED BY <1>1, <1>2, <1>3, <2>1, <2>2 DEF MembersType
<1>7. TypeInv' /\ SetType'
  <2>1. ItemsType'
    <3>1. ASSUME NEW r \in Member
          PROVE  uxMessagesWaiting'[r] <= uxLength[r]
      <4>1. /\ uxMessagesWaiting[r] \in Nat /\ uxLength[r] \in Nat
            /\ uxMessagesWaiting[r] <= uxLength[r]
        BY <1>1, Known DEF ItemsType
      <4> QED BY ONLY <1>5, <4>1, r \in Member
    <3> QED BY ONLY <1>5, <3>1 DEF ItemsType
  <2>2. SetType'
    BY <1>1, <1>2, <1>3, Known DEF SetType, Locks
  <2>3. CallersType' /\ MembersType'
    BY <1>1, <1>2, <1>6 DEF CallersType, MembersType, Locks
  <2> QED BY <1>1, <1>2, <2>1, <2>2, <2>3, Known DEF TypeInv
<1>8. LockOK'
  BY <1>1, <1>2 DEF LockOK
<1>9. \A u \in Task : pc[u] = "remove" => uxMessagesWaiting'[member[u]] = 0
  <2>1. \A u \in Task : pc[u] = "remove" =>
          member[u] \in Member \ {q} /\ uxMessagesWaiting[member[u]] = 0
    BY <1>1, <1>4, Known DEF TaskOK
  <2> QED BY <1>5, <2>1
<1>10. setTxLock # queueUNLOCKED =>
         (Len(handles) <= setTxLock \/ setTxLock = uxNumberOfTasks
            => Len(handles') <= setTxLock' \/ setTxLock' = uxNumberOfTasks)
  BY <1>1, <1>2, <1>3 DEF SetType, Locks, queueUNLOCKED
<1>11. Base' /\ Lookers' \in SUBSET Task /\ Lookers \subseteq Lookers'
  BY <1>1, <1>2, <1>6, <1>7, <1>8, <1>9, <1>10, TasksStay
<1>12. EachItemAnnounced'
  <2>1. \A r \in Member : /\ Announced(r)' = Count(handles', r) + Cardinality(Hands(r))
                          /\ Owed(r)' = Owed(r)
    BY <1>2 DEF Announced, Count, Copies, Hands, Owed
  <2>2. ASSUME NEW r \in Member
        PROVE  IF inSet'[r] THEN Announced(r)' + Owed(r)' = uxMessagesWaiting'[r]
               ELSE Announced(r)' = 0
    <3>1. /\ Announced(r)' = Count(handles', r) + Cardinality(Hands(r))
          /\ Owed(r)' = Owed(r) /\ inSet' = inSet
          /\ Count(handles', r) = Count(handles, r) - (IF r = q THEN 1 ELSE 0)
          /\ uxMessagesWaiting'[r] = uxMessagesWaiting[r] - (IF r = q THEN 1 ELSE 0)
      BY <1>2, <1>3, <1>5, <2>1
    <3>2. /\ Announced(r) = Count(handles, r) + Cardinality(Hands(r))
          /\ Count(handles, r) \in Nat /\ Cardinality(Hands(r)) \in Nat
          /\ Owed(r) \in Nat /\ uxMessagesWaiting[r] \in Nat
      BY <1>1, ItemsKnown
    <3>3. IF inSet[r] THEN Announced(r) + Owed(r) = uxMessagesWaiting[r]
          ELSE Announced(r) = 0
      BY <1>1 DEF EachItemAnnounced
    <3> QED BY <1>4, <3>1, <3>2, <3>3
  <2> QED BY <2>2 DEF EachItemAnnounced
<1>13. SelectorsWoken'
  <2>1. Len(xTasksWaitingToReceive) \in Nat
    BY <1>1 DEF SetType
  <2> QED BY <1>1, <1>2, <1>3, <1>7, <1>11, <2>1, StillServed
<1> QED BY <1>11, <1>12, <1>13 DEF Inv
-----------------------------------------------------------------------------
\* Every step of a task and of the interrupts keeps the invariant.
LEMMA Steps ==
  ASSUME Inv, [Next]_vars
  PROVE  Inv'
<1>1. ASSUME UNCHANGED vars PROVE Inv'
  <2>1. UNCHANGED << inSet, uxMessagesWaiting, cTxLock, cRxLock, xTasksWaitingToSend,
                     handles, setTxLock, xTasksWaitingToReceive, pc, member, selected,
                     suspender >>
    BY <1>1 DEF vars, members, set, callers
  <2>2. Base /\ EachItemAnnounced /\ SelectorsWoken
    BY DEF Inv
  <2>3. TypeInv' /\ LockOK'
    BY <2>1, <2>2, Known
       DEF TypeInv, CallersType, ItemsType, MembersType, SetType, Locks, LockOK
  <2>4. \A u \in Task : pc[u] = "remove" => uxMessagesWaiting'[member[u]] = 0
    BY <2>1, <2>2, Known DEF TaskOK
  <2>5. Base'
    BY <2>1, <2>2, <2>3, <2>4, TasksStay
  <2>6. EachItemAnnounced' /\ SelectorsWoken'
    BY <2>1, <2>2 DEF EachItemAnnounced, SelectorsWoken, Announced, Owed, Looking, Waiting
  <2> QED BY <2>5, <2>6 DEF Inv
<1>2. ASSUME NEW t \in Task, Continue(t) PROVE Inv'
  BY <1>2, SentStep, FindsNoneStep, LockMemberStep, TestStep, PlaceOnMemberStep,
     UnlockTxStep, UnlockRxStep, SelectedStep, LockSetStep, PlaceOnSetStep,
     UnlockSetStep, ReceiveStep, RemoveStep DEF Continue
<1>3. ASSUME NEW t \in Task, CallOf(t) PROVE Inv'
  BY <1>3, SelectStep, SendStep, AddStep, RemoveCheckStep DEF CallOf
<1>4. ASSUME NEW t \in Task, Expire(t) PROVE Inv'
  BY <1>4, ExpireStep
<1>5. ASSUME NEW q \in Member, xQueueGenericSendFromISR(q) PROVE Inv'
  BY <1>5, SendFromISRStep
<1>6. ASSUME SelectFromISR PROVE Inv'
  BY <1>6, SelectFromISRStep
<1> QED BY <1>1, <1>2, <1>3, <1>4, <1>5, <1>6 DEF Next

\* At first everything is empty, and all members are in the set.
LEMMA Starts ==
  ASSUME QueueSetAssumption, WellUsed, Init
  PROVE  Inv
<1>1. /\ inSet = [q \in Member |-> TRUE] /\ uxMessagesWaiting = [q \in Member |-> 0]
      /\ handles = << >> /\ cTxLock = [q \in Member |-> queueUNLOCKED]
      /\ cRxLock = [q \in Member |-> queueUNLOCKED] /\ setTxLock = queueUNLOCKED
      /\ xTasksWaitingToSend = [q \in Member |-> << >>]
      /\ xTasksWaitingToReceive = << >> /\ suspender = NoTask
      /\ pc = [t \in Task |-> "app"] /\ member = [t \in Task |-> NoMember]
      /\ selected = [t \in Task |-> NoMember]
  BY DEF Init
<1>2. /\ uxNumberOfTasks \in Nat /\ uxEventQueueLength \in Nat
      /\ uxLength \in [Member -> Nat] /\ NoMember \notin Member /\ NoTask \notin Task
      /\ queueUNLOCKED \in Locks
  BY DEF QueueSetAssumption, Locks, queueUNLOCKED
<1>3. ToSet(<< >>) = {} /\ IsInjective(<< >>)
  BY DEF ToSet, IsInjective
<1>4. CallersType /\ ItemsType /\ MembersType
  BY <1>1, <1>2 DEF CallersType, ItemsType, MembersType, Places
<1>5. SetType
  BY <1>1, <1>2, <1>3 DEF SetType
<1>6. LockOK
  BY <1>1 DEF LockOK, SetHolding
<1>7. \A t \in Task : HolderOK(t) /\ TaskOK(t)
  BY <1>1, <1>2, <1>3 DEF HolderOK, TaskOK, Holding, SetHolding, User
<1>8. Base
  BY <1>1, <1>4, <1>5, <1>6, <1>7 DEF Base, TypeInv
<1>9. \A q \in Member : Announced(q) + Owed(q) = 0
  <2>1. ASSUME NEW q \in Member PROVE Announced(q) + Owed(q) = 0
    <3>1. Hands(q) = {} /\ Count(handles, q) = 0
      BY <1>1, <1>2, <1>5, CountType DEF Hands, SetType
    <3>2. Announced(q) = 0 + 0
      BY <1>8, <3>1, ItemsKnown, FS_EmptySet
    <3> QED BY <1>1, <3>2 DEF Owed, queueUNLOCKED
  <2> QED BY <2>1
<1>10. EachItemAnnounced
  BY <1>1, <1>9 DEF EachItemAnnounced
<1>11. SelectorsWoken
  BY <1>1 DEF SelectorsWoken, queueUNLOCKED
<1> QED BY <1>8, <1>10, <1>11 DEF Inv

\* However sends and receptions of tasks and interrupts, waits for room and for
\* handles and changes of membership interleave: each item of a member is
\* announced by one handle, and while a task waits on the set, each handle in it
\* has a task that was or will be woken for it.
THEOREM SetItemsAnnounced ==
  ASSUME QueueSetAssumption, WellUsed
  PROVE  Spec => [](EachItemAnnounced /\ SelectorsWoken)
<1>1. Init => Inv
  BY Starts
<1>2. Inv /\ [Next]_vars => Inv'
  BY Steps
<1>3. Inv => EachItemAnnounced /\ SelectorsWoken
  BY DEF Inv
<1> QED BY <1>1, <1>2, <1>3, PTL DEF Spec
=============================================================================
