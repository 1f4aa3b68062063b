---------------------------- MODULE ClockedProofs ----------------------------
(***************************************************************************)
(* Proofs about parts of MCClocked: the caches give the words of the       *)
(* memory, for any number of words, lines, tags and values; block times    *)
(* are exact, for any width of the tick count; a processor that stops its  *)
(* ticks wakes each task in time, for any number of tasks; memory is       *)
(* accounted for, for any number of tasks and objects; the reports of the  *)
(* tasks are exact, for any number of tasks and lengths of the rows; and   *)
(* each expiry of a software timer is called, for any number of timers and *)
(* commands, any periods and any width of the tick count.                  *)
(***************************************************************************)
EXTENDS MCClocked, Sequences, SequenceTheorems, FiniteSetTheorems,
        WellFoundedInduction, TLAPS

clockedVars ==
  << part, vars, ofTimers, ofICache, ofDCache, ofTickless, ofObjects, ofTaskInfo >>
-----------------------------------------------------------------------------
(* The instruction cache.                                                   *)

\* The words at an address and beside it.
Pair(a) == << I!PairOf(a), I!PairOf(a) + 1 >>

\* A line that hits for some address has the pair of that address.
Holds(l) ==
  \E a \in I!WordAddr :
    I!LineOf(a) = l /\ I!TagOf(a) = iTag[l] /\ iData[l] = Pair(a)

\* The line that is being filled, whose old tag must not hit meanwhile.
BeingFilled(l) == iState # "IDLE" /\ l = iLine

ICacheTypes ==
  /\ imemaddr \in I!WordAddr
  /\ iValid \subseteq I!Line /\ iLine \in I!Line
  /\ iTag \in [I!Line -> Int] /\ iData \in [I!Line -> [1..2 -> Int]]
  /\ iState \in {"IDLE", "LD1", "LD2"}

ICacheInv ==
  /\ ICacheTypes
  /\ iState # "IDLE" => iLine = I!LineOf(imemaddr)
  /\ iState = "LD2" => iData[iLine][1] = I!PairOf(imemaddr)
  /\ \A l \in iValid : ~BeingFilled(l) => Holds(l)
  /\ I!HitIsMemory

\* A line and a tag are of one address.
LEMMA AddressOf ==
  ASSUME NEW a \in Nat, NEW b \in Nat,
         I!LineOf(a) = I!LineOf(b), I!TagOf(a) = I!TagOf(b)
  PROVE  a = b
<1>1. NUM_LINES \in Nat \ {0}
  BY ClockedAssumption DEF ClockedAssumption
<1>2. \A n \in Nat : n = NUM_LINES * (n \div NUM_LINES) + (n % NUM_LINES)
  BY <1>1
<1>3. a = NUM_LINES * I!TagOf(a) + I!LineOf(a) /\ b = NUM_LINES * I!TagOf(b) + I!LineOf(b)
  BY <1>2 DEF I!TagOf, I!LineOf
<1> QED BY <1>3

\* The word of a pair at an address is that of the address.
LEMMA WordOfPair ==
  ASSUME NEW a \in Nat
  PROVE  Pair(a) \in [1..2 -> Int] /\ Pair(a)[(a % 2) + 1] = a
<1>1. I!PairOf(a) \in Nat /\ a % 2 \in {0, 1} /\ a = I!PairOf(a) + (a % 2)
  BY DEF I!PairOf
<1> QED BY <1>1 DEF Pair

LEMMA LineOfAddress ==
  \A a \in I!WordAddr : a \in Nat /\ I!LineOf(a) \in I!Line /\ I!TagOf(a) \in Nat
                        /\ I!PairOf(a) \in Nat
<1>1. NUM_LINES \in Nat \ {0} /\ Words \in Nat
  BY ClockedAssumption DEF ClockedAssumption
<1>2. \A n \in Nat : n % NUM_LINES \in 0..(NUM_LINES - 1) /\ n \div NUM_LINES \in Nat
  BY <1>1
<1> QED BY <1>1, <1>2 DEF I!WordAddr, I!LineOf, I!TagOf, I!Line, I!PairOf

\* Each action of the cache keeps the invariant.
LEMMA ICacheStep ==
  ASSUME ICacheInv, I!Next
  PROVE  ICacheInv'
<1>1. CASE I!Hit
  <2>1. /\ imemaddr' \in I!WordAddr /\ iState = "IDLE" /\ iState' = iState
        /\ UNCHANGED << iValid, iTag, iData, iLine >>
    BY <1>1 DEF I!Hit
  <2>2. iload'[1] = iload'[2]
    <3>1. PICK a \in I!WordAddr :
             /\ I!LineOf(a) = I!LineOf(imemaddr) /\ I!TagOf(a) = I!TagOf(imemaddr)
             /\ iData[I!LineOf(imemaddr)] = Pair(a)
      BY <1>1, <2>1 DEF I!Hit, I!Hits, ICacheInv, Holds, BeingFilled
    <3>2. a = imemaddr
      BY <3>1, AddressOf, LineOfAddress DEF ICacheInv, ICacheTypes
    <3>3. iData[I!LineOf(imemaddr)][(imemaddr % 2) + 1] = imemaddr
      BY <3>1, <3>2, WordOfPair, LineOfAddress
    <3> QED BY <1>1, <3>3 DEF I!Hit
  <2> QED BY <2>1, <2>2 DEF ICacheInv, ICacheTypes, Holds, BeingFilled, I!HitIsMemory
<1>2. CASE I!Miss
  <2>1. /\ UNCHANGED << imemaddr, iValid, iTag, iData, iload >>
        /\ iState = "IDLE" /\ iState' = "LD1" /\ iLine' = I!LineOf(imemaddr)
    BY <1>2 DEF I!Miss
  <2>2. iLine' \in I!Line
    BY <2>1, LineOfAddress DEF ICacheInv, ICacheTypes
  <2> QED BY <2>1, <2>2 DEF ICacheInv, ICacheTypes, Holds, BeingFilled, I!HitIsMemory
<1>3. CASE I!Beat
  <2>1. /\ imemaddr \in I!WordAddr /\ iLine \in I!Line
        /\ iTag \in [I!Line -> Int] /\ iData \in [I!Line -> [1..2 -> Int]]
        /\ I!PairOf(imemaddr) \in Int /\ I!TagOf(imemaddr) \in Int
        /\ UNCHANGED << imemaddr, iLine, iload >>
    BY <1>3, LineOfAddress DEF I!Beat, ICacheInv, ICacheTypes
  <2>2. CASE iState = "LD1"
    <3>1. /\ iState' = "LD2" /\ UNCHANGED << iTag, iValid >>
          /\ iData' = [iData EXCEPT ![iLine][1] = I!PairOf(imemaddr)]
      BY <1>3, <2>2 DEF I!Beat
    <3>2. /\ iData' \in [I!Line -> [1..2 -> Int]]
          /\ iData'[iLine][1] = I!PairOf(imemaddr)
          /\ \A l \in I!Line \ {iLine} : iData'[l] = iData[l]
      BY <2>1, <3>1
    <3> QED BY <2>1, <2>2, <3>1, <3>2
            DEF ICacheInv, ICacheTypes, Holds, BeingFilled, I!HitIsMemory
  <2>3. CASE iState = "LD2"
    <3>1. /\ iState' = "IDLE" /\ iValid' = iValid \cup {iLine}
          /\ iData' = [iData EXCEPT ![iLine][2] = I!PairOf(imemaddr) + 1]
          /\ iTag' = [iTag EXCEPT ![iLine] = I!TagOf(imemaddr)]
      BY <1>3, <2>3 DEF I!Beat
    <3>2. iData[iLine][1] = I!PairOf(imemaddr) /\ iLine = I!LineOf(imemaddr)
      BY <2>3 DEF ICacheInv
    <3>3. /\ iData' \in [I!Line -> [1..2 -> Int]] /\ iTag' \in [I!Line -> Int]
          /\ iData'[iLine] = Pair(imemaddr) /\ iTag'[iLine] = I!TagOf(imemaddr)
          /\ \A l \in I!Line \ {iLine} : iData'[l] = iData[l] /\ iTag'[l] = iTag[l]
      BY <2>1, <3>1, <3>2 DEF Pair
    <3>4. ASSUME NEW l \in iValid' PROVE Holds(l)'
      BY <2>1, <2>3, <3>1, <3>2, <3>3 DEF ICacheInv, ICacheTypes, Holds, BeingFilled
    <3> QED BY <2>1, <3>1, <3>3, <3>4 DEF ICacheInv, ICacheTypes, I!HitIsMemory
  <2> QED BY <1>3, <2>2, <2>3 DEF I!Beat
<1>4. CASE I!Reset
  <2>1. 0 \in I!Line
    BY ClockedAssumption DEF ClockedAssumption, I!Line
  <2>2. << I!NoWord, I!NoWord >> \in [1..2 -> Int]
    BY ClockedAssumption DEF ClockedAssumption, I!NoWord
  <2> QED BY <1>4, <2>1, <2>2 DEF I!Reset, ICacheInv, ICacheTypes, I!HitIsMemory
<1> QED BY <1>1, <1>2, <1>3, <1>4 DEF I!Next

\* The cache starts empty.
LEMMA ICacheStart ==
  ASSUME I!Init
  PROVE  ICacheInv
<1>1. 0 \in I!Line /\ 0 \in I!WordAddr
  BY ClockedAssumption DEF ClockedAssumption, I!Line, I!WordAddr
<1>2. << I!NoWord, I!NoWord >> \in [1..2 -> Int]
  BY ClockedAssumption DEF ClockedAssumption, I!NoWord
<1> QED BY <1>1, <1>2 DEF I!Init, ICacheInv, ICacheTypes, I!HitIsMemory

\* The other parts leave the cache alone.
LEMMA ICacheStutters ==
  ASSUME ICacheInv, UNCHANGED ofICache
  PROVE  ICacheInv'
BY DEF ofICache, ICacheInv, ICacheTypes, Holds, BeingFilled, I!HitIsMemory
-----------------------------------------------------------------------------
(* The data cache.                                                          *)

\* The values that a word may have, in the memory and in the cache.
Stored == Value \cup {0, 1}

DCacheTypes ==
  /\ access \in D!Access \cup {D!NoAccess}
  /\ valid \subseteq D!Way /\ dirty \subseteq D!Way /\ nWay \in D!Way
  /\ tag \in [D!Way -> Int]
  /\ data \in [D!Way -> [D!Word -> Stored]]
  /\ written \in [Tags -> [D!Word -> Stored]]
  /\ lru \in BOOLEAN
  /\ state \in {"IDLE", "WB1", "WB2", "LD1", "LD2"}

\* A miss goes on for an access that no line holds, and replaces the line that
\* was chosen when it began, which was written back if it had to be.
MissOK ==
  state # "IDLE" =>
    /\ access # D!NoAccess /\ D!HitWays(access) = {}
    /\ nWay = D!Victim
    /\ state \in {"WB1", "WB2"} <=> nWay \in valid \cap dirty
    /\ state = "LD2" => data[nWay][1] = Memory[access.tag][1]

\* What no dirty line holds is as it is in memory.
OnlyDirtyDiffer ==
  /\ \A w \in valid : tag[w] \in Tags
  /\ \A t \in Tags : (\A w \in valid \cap dirty : tag[w] # t) => written[t] = Memory[t]

\* The victim is the way that was not hit last.
VictimOK == recent \in {0, 1, 2} /\ (recent # 0 => D!Victim # recent)

DCacheInv ==
  /\ DCacheTypes /\ MissOK /\ OnlyDirtyDiffer /\ VictimOK
  /\ D!LinesSound

LEMMA MemoryType ==
  /\ \A t \in Tags : t \in Int
  /\ Memory \in [Tags -> [D!Word -> Stored]]
<1>1. \A t \in Tags : << t % 2, 1 >> \in [D!Word -> Stored]
  BY ClockedAssumption DEF ClockedAssumption, D!Word, Stored
<1> QED BY <1>1, ClockedAssumption DEF ClockedAssumption, Memory

\* An access names a block and a word of it.
LEMMA AccessType ==
  ASSUME NEW a \in D!Access
  PROVE  /\ a.tag \in Tags /\ a.word \in D!Word /\ a # D!NoAccess
         /\ a.op # "read" => a.value \in Stored
BY DEF D!Access, D!NoAccess, Stored

\* A hit reads or writes a word of a valid line.
LEMMA DCacheHit ==
  ASSUME DCacheInv, NEW a \in D!Access, D!Hit(a)
  PROVE  DCacheInv'
<1>1. PICK w \in D!HitWays(a) :
         /\ IF a.op = "read"
            THEN /\ dmemload' = << data[w][a.word], written[a.tag][a.word] >>
                 /\ UNCHANGED << data, dirty, written >>
            ELSE /\ data' = [data EXCEPT ![w][a.word] = a.value]
                 /\ dirty' = dirty \cup {w}
                 /\ written' = [written EXCEPT ![a.tag][a.word] = a.value]
                 /\ UNCHANGED dmemload
         /\ lru' = (w = 1) /\ recent' = w
  BY DEF D!Hit, D!WrittenTo
<1>2. /\ state = "IDLE" /\ access' = D!NoAccess
      /\ UNCHANGED << valid, tag, state, nWay >>
  BY DEF D!Hit
<1>3. /\ w \in valid /\ w \in D!Way /\ tag[w] = a.tag /\ a.tag \in Tags /\ a.word \in D!Word
      /\ data[w] = written[a.tag]
      /\ \A v \in valid : v # w => tag[v] # a.tag
  BY <1>1, <1>2, AccessType
     DEF DCacheInv, DCacheTypes, D!HitWays, D!LinesSound, D!Filling
<1>4. MissOK' /\ VictimOK'
  <2>1. w = 1 \/ w = 2
    BY <1>3 DEF D!Way
  <2>2. (lru' <=> w = 1) /\ recent' = w /\ state' = "IDLE"
    BY <1>1, <1>2
  <2> QED BY <2>1, <2>2 DEF MissOK, VictimOK, D!Victim
<1>5. CASE a.op = "read"
  <2>1. /\ dmemload'[1] = dmemload'[2] /\ UNCHANGED << data, dirty, written >>
        /\ lru' \in BOOLEAN
    BY <1>1, <1>3, <1>5
  <2> QED BY <1>2, <1>4, <2>1
          DEF DCacheInv, DCacheTypes, OnlyDirtyDiffer, D!LinesSound, D!Filling
<1>6. CASE a.op # "read"
  <2>1. /\ data' = [data EXCEPT ![w][a.word] = a.value]
        /\ dirty' = dirty \cup {w}
        /\ written' = [written EXCEPT ![a.tag][a.word] = a.value]
        /\ dmemload' = dmemload /\ lru' \in BOOLEAN /\ a.value \in Stored
    BY <1>1, <1>6, AccessType
  <2>2. /\ data' \in [D!Way -> [D!Word -> Stored]]
        /\ written' \in [Tags -> [D!Word -> Stored]]
        /\ data'[w] = [data[w] EXCEPT ![a.word] = a.value]
        /\ written'[a.tag] = [written[a.tag] EXCEPT ![a.word] = a.value]
        /\ \A v \in D!Way : v # w => data'[v] = data[v]
        /\ \A t \in Tags : t # a.tag => written'[t] = written[t]
    BY <1>3, <2>1 DEF DCacheInv, DCacheTypes
  <2>3. DCacheTypes'
    BY <1>2, <1>3, <2>1, <2>2 DEF DCacheInv, DCacheTypes
  <2>4. OnlyDirtyDiffer'
    BY <1>2, <1>3, <2>1, <2>2 DEF DCacheInv, OnlyDirtyDiffer
  <2>5. D!LinesSound'
    <3>1. \A v \in valid : v \in D!Way /\ tag[v] \in Tags
      BY DEF DCacheInv, DCacheTypes, OnlyDirtyDiffer
    <3> QED BY <1>2, <1>3, <2>1, <2>2, <3>1 DEF DCacheInv, D!LinesSound, D!Filling
  <2> QED BY <1>4, <2>3, <2>4, <2>5 DEF DCacheInv
<1> QED BY <1>5, <1>6

LEMMA DCacheMiss ==
  ASSUME DCacheInv, NEW a \in D!Access, D!Miss(a)
  PROVE  DCacheInv'
<1>1. /\ state = "IDLE" /\ D!HitWays(a) = {} /\ nWay' = D!Victim /\ access' = a
      /\ state' = IF D!Victim \in valid \cap dirty THEN "WB1" ELSE "LD1"
      /\ UNCHANGED << valid, dirty, tag, data, lru, dmemload, written, recent >>
  BY DEF D!Miss
<1>2. D!Victim \in D!Way /\ D!Victim' = D!Victim
  BY <1>1 DEF D!Victim, D!Way
<1>3. D!HitWays(a)' = {}
  BY <1>1 DEF D!HitWays
<1>4. DCacheTypes' /\ OnlyDirtyDiffer' /\ VictimOK'
  BY <1>1, <1>2 DEF DCacheInv, DCacheTypes, OnlyDirtyDiffer, VictimOK
<1>5. MissOK'
  BY <1>1, <1>2, <1>3, AccessType DEF MissOK, D!HitWays
<1>6. D!LinesSound'
  BY <1>1 DEF DCacheInv, D!LinesSound, D!Filling
<1> QED BY <1>4, <1>5, <1>6 DEF DCacheInv

LEMMA DCacheWriteBack ==
  ASSUME DCacheInv, D!WriteBack
  PROVE  DCacheInv'
<1>1. UNCHANGED << access, tag, data, lru, nWay, dmemload, recent >>
  BY DEF D!WriteBack
<1>2. D!Victim' = D!Victim
  BY <1>1 DEF D!Victim
<1>3. CASE state = "WB1"
  <2>1. state' = "WB2" /\ UNCHANGED << valid, dirty, written >>
    BY <1>3 DEF D!WriteBack
  <2>2. D!HitWays(access)' = D!HitWays(access)
    BY <1>1, <2>1 DEF D!HitWays
  <2> QED BY <1>1, <1>2, <1>3, <2>1, <2>2
          DEF DCacheInv, DCacheTypes, MissOK, OnlyDirtyDiffer, VictimOK, D!LinesSound,
              D!Filling
<1>4. CASE state = "WB2"
  <2>1. /\ state' = "LD1" /\ valid' = valid \ {nWay} /\ dirty' = dirty \ {nWay}
        /\ written' = [written EXCEPT ![tag[nWay]] = Memory[tag[nWay]]]
    BY <1>4 DEF D!WriteBack
  <2>2. /\ written' \in [Tags -> [D!Word -> Stored]]
        /\ \A t \in Tags : written'[t] = written[t] \/ written'[t] = Memory[t]
        /\ \A t \in Tags : t # tag[nWay] => written'[t] = written[t]
        /\ tag[nWay] \in Tags => written'[tag[nWay]] = Memory[tag[nWay]]
    BY <2>1, MemoryType DEF DCacheInv, DCacheTypes
  <2>3. DCacheTypes'
    BY <1>1, <2>1, <2>2 DEF DCacheInv, DCacheTypes
  <2>4. MissOK'
    BY <1>1, <1>2, <1>4, <2>1 DEF DCacheInv, MissOK, D!HitWays
  <2>5. OnlyDirtyDiffer'
    <3>1. \A w \in valid' : tag'[w] \in Tags
      BY <1>1, <2>1 DEF DCacheInv, OnlyDirtyDiffer
    <3>2. ASSUME NEW t \in Tags, \A w \in valid' \cap dirty' : tag'[w] # t
          PROVE  written'[t] = Memory[t]
      BY <1>1, <2>1, <2>2, <3>2 DEF DCacheInv, OnlyDirtyDiffer
    <3> QED BY <3>1, <3>2 DEF OnlyDirtyDiffer
  <2>6. D!LinesSound'
    <3>1. \A w \in valid' : w \in valid /\ w # nWay /\ tag[w] \in Tags
      BY <2>1 DEF DCacheInv, OnlyDirtyDiffer
    <3>2. D!Filling = {} /\ D!Filling' = {}
      BY <1>4, <2>1 DEF D!Filling
    <3>3. ASSUME NEW w \in valid' \ D!Filling'
          PROVE  /\ data'[w] = written'[tag'[w]]
                 /\ w \notin dirty' => data'[w] = Memory[tag'[w]]
      <4>1. data[w] = written[tag[w]] /\ (w \notin dirty => data[w] = Memory[tag[w]])
        BY <3>1, <3>2, <3>3 DEF DCacheInv, D!LinesSound
      <4>2. w \in dirty' <=> w \in dirty
        BY <2>1, <3>1, <3>3
      <4>3. tag[w] # tag[nWay]
        BY <1>4, <3>1, <3>3 DEF DCacheInv, MissOK, D!LinesSound
      <4>4. written'[tag[w]] = written[tag[w]] /\ tag' = tag /\ data' = data
        BY <1>1, <2>2, <3>1, <3>3, <4>3
      <4> QED BY <4>1, <4>2, <4>4
    <3> QED BY <1>1, <3>1, <3>3 DEF DCacheInv, D!LinesSound
  <2>7. VictimOK'
    BY <1>1, <1>2 DEF DCacheInv, VictimOK
  <2> QED BY <2>3, <2>4, <2>5, <2>6, <2>7 DEF DCacheInv
<1> QED BY <1>3, <1>4 DEF D!WriteBack

\* The second beat of a fill makes the line that of the access.
LEMMA DCacheFill ==
  ASSUME DCacheInv, D!Fill
  PROVE  DCacheInv'
<1>1. UNCHANGED << access, lru, nWay, dmemload, written, recent >>
  BY DEF D!Fill
<1>2. /\ D!Victim' = D!Victim /\ nWay \in D!Way
      /\ access \in D!Access /\ access.tag \in Tags
      /\ state # "IDLE"
      /\ Memory[access.tag] \in [D!Word -> Stored]
  <2>1. state # "IDLE" /\ access # D!NoAccess
    BY DEF D!Fill, DCacheInv, MissOK
  <2>2. access \in D!Access
    BY <2>1 DEF DCacheInv, DCacheTypes
  <2>3. access.tag \in Tags
    BY <2>2, AccessType
  <2> QED BY <1>1, <2>1, <2>2, <2>3, MemoryType DEF DCacheInv, DCacheTypes, D!Victim
<1>3. VictimOK'
  BY <1>1, <1>2 DEF DCacheInv, VictimOK
<1>4. CASE state = "LD1"
  <2>1. /\ state' = "LD2" /\ UNCHANGED << tag, valid, dirty >>
        /\ data' = [data EXCEPT ![nWay][1] = Memory[access.tag][1]]
    BY <1>4 DEF D!Fill
  <2>2. /\ data' \in [D!Way -> [D!Word -> Stored]]
        /\ data'[nWay][1] = Memory[access.tag][1]
        /\ \A w \in D!Way : w # nWay => data'[w] = data[w]
    BY <1>2, <2>1 DEF DCacheInv, DCacheTypes, D!Word
  <2>3. D!HitWays(access)' = D!HitWays(access)
    BY <1>1, <2>1 DEF D!HitWays
  <2>4. DCacheTypes' /\ MissOK' /\ OnlyDirtyDiffer'
    BY <1>1, <1>2, <1>4, <2>1, <2>2, <2>3
       DEF DCacheInv, DCacheTypes, MissOK, OnlyDirtyDiffer
  <2>5. D!LinesSound'
    <3>1. D!Filling = {} /\ D!Filling' = {nWay} /\ valid \subseteq D!Way
      BY <1>1, <1>4, <2>1 DEF D!Filling, DCacheInv, DCacheTypes
    <3> QED BY <1>1, <2>1, <2>2, <3>1 DEF DCacheInv, D!LinesSound
  <2> QED BY <1>3, <2>4, <2>5 DEF DCacheInv
<1>5. CASE state = "LD2"
  <2>1. /\ state' = "IDLE"
        /\ data' = [data EXCEPT ![nWay][2] = Memory[access.tag][2]]
        /\ tag' = [tag EXCEPT ![nWay] = access.tag]
        /\ valid' = valid \cup {nWay} /\ dirty' = dirty \ {nWay}
    BY <1>5 DEF D!Fill
  <2>2. data[nWay][1] = Memory[access.tag][1] /\ nWay \notin valid \cap dirty
        /\ D!HitWays(access) = {}
    BY <1>5 DEF DCacheInv, MissOK
  <2>3. /\ data' \in [D!Way -> [D!Word -> Stored]]
        /\ \A w \in D!Way : w # nWay => data'[w] = data[w] /\ tag'[w] = tag[w]
        /\ tag' \in [D!Way -> Int] /\ tag'[nWay] = access.tag
    <3>1. access.tag \in Int
      BY <1>2, MemoryType
    <3>2. 2 \in D!Word
      BY DEF D!Word
    <3>3. Memory[access.tag][2] \in Stored
      BY <1>2, <3>2
    <3> QED BY <1>2, <2>1, <3>1, <3>3 DEF DCacheInv, DCacheTypes, D!Word
  <2>4. data'[nWay] = Memory[access.tag]
    <3>1. \A i \in D!Word : data'[nWay][i] = Memory[access.tag][i]
      BY <1>2, <2>1, <2>2 DEF DCacheInv, DCacheTypes, D!Word
    <3>2. data'[nWay] \in [D!Word -> Stored]
      BY <1>2, <2>3
    <3> QED BY <1>2, <3>1, <3>2
  <2>5. \A w \in valid : w \in D!Way /\ tag[w] \in Tags /\ tag[w] # access.tag
    BY <2>2 DEF DCacheInv, DCacheTypes, OnlyDirtyDiffer, D!HitWays
  <2>6. \A w \in valid' : w \in D!Way /\ tag'[w] \in Tags
                          /\ (w # nWay => w \in valid /\ tag'[w] # access.tag)
    BY <1>2, <2>1, <2>3, <2>5
  <2>7. DCacheTypes'
    BY <1>1, <1>2, <2>1, <2>3 DEF DCacheInv, DCacheTypes
  <2>8. written'[access.tag] = Memory[access.tag]
    BY <1>1, <1>2, <2>5 DEF DCacheInv, OnlyDirtyDiffer
  <2>9. OnlyDirtyDiffer'
    <3>1. ASSUME NEW t \in Tags, \A w \in valid' \cap dirty' : tag'[w] # t
          PROVE  written'[t] = Memory[t]
      <4>1. ASSUME NEW w \in valid \cap dirty PROVE tag[w] # t
        BY <2>1, <2>2, <2>3, <2>5, <3>1, <4>1
      <4> QED BY <1>1, <4>1 DEF DCacheInv, OnlyDirtyDiffer
    <3> QED BY <2>6, <3>1 DEF OnlyDirtyDiffer
  <2>10. D!LinesSound'
    <3>1. D!Filling = {nWay} /\ D!Filling' = {}
      BY <1>5, <2>1 DEF D!Filling
    <3>2. ASSUME NEW w \in valid', NEW v \in valid', w # v PROVE tag'[w] # tag'[v]
      <4>1. CASE w = nWay \/ v = nWay
        BY <2>3, <2>6, <3>2, <4>1
      <4>2. CASE w # nWay /\ v # nWay
        BY <2>3, <2>6, <3>2, <4>2 DEF DCacheInv, D!LinesSound
      <4> QED BY <4>1, <4>2
    <3>3. ASSUME NEW w \in valid'
          PROVE  /\ data'[w] = written'[tag'[w]]
                 /\ w \notin dirty' => data'[w] = Memory[tag'[w]]
      <4>1. CASE w = nWay
        BY <2>3, <2>4, <2>8, <4>1
      <4>2. CASE w # nWay
        <5>1. w \in valid \ D!Filling /\ (w \in dirty' <=> w \in dirty)
          BY <2>1, <2>6, <3>1, <3>3, <4>2
        <5>2. data[w] = written[tag[w]] /\ (w \notin dirty => data[w] = Memory[tag[w]])
          BY <5>1 DEF DCacheInv, D!LinesSound
        <5> QED BY <1>1, <2>3, <2>6, <3>3, <4>2, <5>1, <5>2
      <4> QED BY <4>1, <4>2
    <3>4. dmemload'[1] = dmemload'[2]
      BY <1>1 DEF DCacheInv, D!LinesSound
    <3> QED BY <3>1, <3>2, <3>3, <3>4 DEF D!LinesSound
  <2>11. MissOK'
    BY <2>1 DEF MissOK
  <2> QED BY <1>3, <2>7, <2>9, <2>10, <2>11 DEF DCacheInv
<1> QED BY <1>4, <1>5 DEF D!Fill

\* setupImpl: nothing is valid, and nothing written is kept.
LEMMA SetUpOK ==
  ASSUME access' = D!NoAccess, valid' = D!SetUp.valid, dirty' = D!SetUp.dirty,
         tag' = D!SetUp.tag, data' = D!SetUp.data, lru' = D!SetUp.lru,
         state' = "IDLE", nWay' = 1, written' = Memory, recent' = 0,
         dmemload'[1] = dmemload'[2]
  PROVE  DCacheInv'
<1>1. /\ valid' = {} /\ dirty' = {} /\ lru' = FALSE
      /\ tag' \in [D!Way -> Int] /\ data' \in [D!Way -> [D!Word -> Stored]]
  <2>1. << 0, 0 >> \in [D!Word -> Stored]
    BY DEF D!Word, Stored
  <2> QED BY <2>1 DEF D!SetUp
<1>2. 1 \in D!Way
  BY DEF D!Way
<1> QED BY <1>1, <1>2, MemoryType
        DEF DCacheInv, DCacheTypes, MissOK, OnlyDirtyDiffer, VictimOK, D!LinesSound

LEMMA DCacheStart ==
  ASSUME D!Init
  PROVE  DCacheInv
<1>1. /\ valid = {} /\ dirty = {} /\ lru = FALSE
      /\ tag \in [D!Way -> Int] /\ data \in [D!Way -> [D!Word -> Stored]]
  <2>1. << 0, 0 >> \in [D!Word -> Stored]
    BY DEF D!Word, Stored
  <2> QED BY <2>1 DEF D!SetUp, D!Init
<1>2. 1 \in D!Way
  BY DEF D!Way
<1> QED BY <1>1, <1>2, MemoryType
        DEF D!Init, DCacheInv, DCacheTypes, MissOK, OnlyDirtyDiffer, VictimOK, D!LinesSound

\* Each action of the cache keeps the invariant.
LEMMA DCacheStep ==
  ASSUME DCacheInv, D!Next
  PROVE  DCacheInv'
<1>1. CASE D!Step
  <2>1. PICK a \in IF access = D!NoAccess THEN D!Access ELSE {access} : D!Hit(a) \/ D!Miss(a)
    BY <1>1 DEF D!Step
  <2>2. a \in D!Access
    BY <2>1 DEF DCacheInv, DCacheTypes
  <2> QED BY <2>1, <2>2, DCacheHit, DCacheMiss
<1>2. CASE D!Reset
  BY <1>2, SetUpOK DEF D!Reset, DCacheInv, D!LinesSound
<1> QED BY <1>1, <1>2, DCacheWriteBack, DCacheFill DEF D!Next

\* The other parts leave the cache alone.
LEMMA DCacheStutters ==
  ASSUME DCacheInv, UNCHANGED ofDCache
  PROVE  DCacheInv'
BY DEF ofDCache, DCacheInv, DCacheTypes, MissOK, OnlyDirtyDiffer, VictimOK, D!LinesSound,
       D!Filling, D!HitWays, D!Victim
-----------------------------------------------------------------------------
\* A hit in the instruction cache gives the word of the memory at the address;
\* the data cache gives what was written last or the words of the memory, and
\* replaces the block that was not hit last: over misses, fills, write-backs
\* and resets in any order, for any number of words, lines, tags and values.
THEOREM CachesGiveTheMemory == ClockedSpec => []CachesRight
<1>1. ClockedInit => ICacheInv /\ DCacheInv
  BY ICacheStart, DCacheStart DEF ClockedInit
<1>2. ICacheInv /\ DCacheInv /\ [ClockedNext]_clockedVars => ICacheInv' /\ DCacheInv'
  <2> SUFFICES ASSUME ICacheInv, DCacheInv, [ClockedNext]_clockedVars
               PROVE  ICacheInv' /\ DCacheInv'
    OBVIOUS
  <2>1. I!Next \/ UNCHANGED ofICache
    BY DEF ClockedNext, clockedVars
  <2>2. D!Next \/ UNCHANGED ofDCache
    BY DEF ClockedNext, clockedVars
  <2> QED BY <2>1, <2>2, ICacheStep, ICacheStutters, DCacheStep, DCacheStutters
<1>3. ICacheInv /\ DCacheInv => CachesRight
  BY DEF ICacheInv, DCacheInv, DCacheTypes, MissOK, VictimOK, CachesRight, D!RecentKept,
         D!Way
<1> QED BY <1>1, <1>2, <1>3, PTL DEF ClockedSpec, clockedVars
-----------------------------------------------------------------------------
(* Block times.                                                             *)

\* A number is taken modulo the width of the tick count from at most one turn
\* away.
LEMMA Turns ==
  ASSUME NEW n \in Int, -TickMod <= n, n < 2 * TickMod
  PROVE  /\ n < 0 => Mod(n) = n + TickMod
         /\ 0 <= n /\ n < TickMod => Mod(n) = n
         /\ TickMod <= n => Mod(n) = n - TickMod
BY BlockTimeAssumption DEF BlockTimeAssumption, Mod

\* The wraps since the TimeOut_t was set are none or one, and are counted.
EnteredAt ==
  \/ /\ xTickCount = xTimeOnEntering + unchecked
     /\ xNumOfOverflows = xOverflowCount
  \/ /\ xTickCount = xTimeOnEntering + unchecked - TickMod
     /\ xNumOfOverflows = (xOverflowCount + 1) % OverflowMod

\* What the code has of a call against the time that has passed.
CallKept ==
  pc = "call" =>
    /\ xTicksToWait # portMAX_DELAY /\ verdict # "over" =>
         EnteredAt /\ left = xTicksToWait - unchecked
    /\ TimeOutExact

\* The previous wake-up was lag ticks ago, unless a whole turn has passed since.
WakeKept ==
  /\ lag \in -(TickMod - 1) .. (TickMod - 1)
  /\ pc = "delayed" => lag < 0
  /\ pc # "delayed" => lag >= 0
  /\ pc # "call" \/ lag < TickMod - 1 => xPreviousWakeTime = Mod(xTickCount - lag)

BlockTimeInv == TypeOK /\ CallKept /\ WakeKept

LEMMA BlockTimeStart ==
  ASSUME Init
  PROVE  BlockTimeInv
<1>1. TypeOK
  BY BlockTimeAssumption DEF BlockTimeAssumption, Init, TypeOK, Tick
<1>2. Mod(xTickCount - 0) = xTickCount
  BY <1>1, Turns, BlockTimeAssumption DEF BlockTimeAssumption, TypeOK, Tick
<1> QED BY <1>1, <1>2, BlockTimeAssumption
        DEF BlockTimeAssumption, Init, BlockTimeInv, CallKept, WakeKept

\* A tick.
LEMMA BlockTimeTick ==
  ASSUME BlockTimeInv, xTaskIncrementTick
  PROVE  BlockTimeInv'
<1>1. /\ TickMod \in Nat /\ TickMod >= 3 /\ OverflowMod \in Nat /\ OverflowMod >= 3
      /\ MaxUnchecked \in 1..TickMod
      /\ xTickCount \in 0..(TickMod - 1) /\ lag \in Int /\ left \in Int
      /\ xNumOfOverflows \in 0..(OverflowMod - 1) /\ xOverflowCount \in 0..(OverflowMod - 1)
      /\ xTimeOnEntering \in 0..(TickMod - 1) /\ xPreviousWakeTime \in 0..(TickMod - 1)
      /\ xTicksToWait \in 0..(TickMod - 1) /\ unchecked \in 0..MaxUnchecked
  BY BlockTimeAssumption DEF BlockTimeAssumption, BlockTimeInv, TypeOK, Tick
<1>2. /\ IF pc = "call" THEN unchecked < MaxUnchecked ELSE lag < TickMod - 1
      /\ xTickCount' = Mod(xTickCount + 1)
      /\ xNumOfOverflows' = IF xTickCount' = 0 THEN (xNumOfOverflows + 1) % OverflowMod
                            ELSE xNumOfOverflows
      /\ lag' = IF lag < TickMod - 1 THEN lag + 1 ELSE lag
      /\ unchecked' = IF pc = "call" THEN unchecked + 1 ELSE unchecked
      /\ left' = IF pc = "call" /\ xTicksToWait # portMAX_DELAY THEN left - 1 ELSE left
      /\ pc' = IF pc = "delayed" /\ xTickCount' = xPreviousWakeTime THEN "app" ELSE pc
      /\ UNCHANGED << xOverflowCount, xTimeOnEntering, xTicksToWait, verdict,
                      xPreviousWakeTime >>
  BY DEF xTaskIncrementTick
<1>3. \/ xTickCount' = xTickCount + 1 /\ xTickCount < TickMod - 1
      \/ xTickCount' = 0 /\ xTickCount = TickMod - 1
  BY <1>1, <1>2, Turns
<1>4. (xNumOfOverflows + 1) % OverflowMod \in 0..(OverflowMod - 1)
  BY <1>1
<1>5. TypeOK'
  BY <1>1, <1>2, <1>3, <1>4 DEF BlockTimeInv, TypeOK, Tick
<1>6. CallKept'
  <2> SUFFICES ASSUME pc' = "call" PROVE CallKept'
    BY DEF CallKept
  <2>1. pc = "call" /\ unchecked' = unchecked + 1 /\ unchecked < MaxUnchecked
    BY <1>2
  <2>2. ASSUME xTicksToWait # portMAX_DELAY, verdict # "over"
        PROVE  EnteredAt' /\ left' = xTicksToWait - unchecked'
    <3>1. EnteredAt /\ left = xTicksToWait - unchecked /\ left' = left - 1
      BY <1>2, <2>1, <2>2 DEF BlockTimeInv, CallKept
    <3>2. EnteredAt'
      BY <1>1, <1>2, <1>3, <2>1, <3>1 DEF EnteredAt
    <3> QED BY <1>1, <2>1, <3>1, <3>2
  <2>3. verdict = "over" => left' <= 0
    BY <1>1, <1>2, <2>1 DEF BlockTimeInv, CallKept, TimeOutExact
  <2>4. unchecked' # 0
    BY <1>1, <2>1
  <2> QED BY <1>2, <2>2, <2>3, <2>4 DEF CallKept, TimeOutExact
<1>7. WakeKept'
  <2>1. /\ lag \in -(TickMod - 1) .. (TickMod - 1) /\ lag' \in -(TickMod - 1) .. (TickMod - 1)
    BY <1>1, <1>2 DEF BlockTimeInv, WakeKept
  <2>2. CASE lag = TickMod - 1
    <3>1. pc = "call" /\ pc' = "call" /\ lag' = lag
      BY <1>1, <1>2, <2>2
    <3> QED BY <1>1, <2>1, <2>2, <3>1 DEF WakeKept
  <2>3. CASE lag < TickMod - 1
    <3>1. lag' = lag + 1 /\ xPreviousWakeTime = Mod(xTickCount - lag)
      BY <1>2, <2>3 DEF BlockTimeInv, WakeKept
    <3>2. Mod(xTickCount' - lag') = Mod(xTickCount - lag)
      <4>1. CASE xTickCount' = xTickCount + 1
        BY <1>1, <2>1, <3>1, <4>1
      <4>2. CASE xTickCount' = 0 /\ xTickCount = TickMod - 1
        <5>1. Mod(0 - lag') = Mod(xTickCount - lag)
          BY <1>1, <2>1, <2>3, <3>1, <4>2, Turns
        <5> QED BY <4>2, <5>1
      <4> QED BY <1>3, <4>1, <4>2
    <3>3. xTickCount' \in 0..(TickMod - 1) /\ xPreviousWakeTime' = Mod(xTickCount' - lag')
      BY <1>1, <1>2, <1>3, <3>1, <3>2
    <3>4. pc = "delayed" => (lag' <= 0 /\ (xTickCount' = xPreviousWakeTime <=> lag' = 0))
      <4> SUFFICES ASSUME pc = "delayed"
                   PROVE  lag' <= 0 /\ (xTickCount' = xPreviousWakeTime <=> lag' = 0)
        OBVIOUS
      <4>1. lag < 0 /\ lag' <= 0
        BY <2>1, <3>1 DEF BlockTimeInv, WakeKept
      <4>2. xPreviousWakeTime = Mod(xTickCount' - lag')
        BY <1>2, <3>3
      <4> QED BY <1>1, <2>1, <3>3, <4>1, <4>2, Turns
    <3>5. pc # "delayed" => (lag >= 0 /\ pc' = pc)
      BY <1>2 DEF BlockTimeInv, WakeKept
    <3> QED BY <1>2, <2>1, <3>1, <3>3, <3>4, <3>5 DEF WakeKept
  <2> QED BY <2>1, <2>2, <2>3, <1>1
<1> QED BY <1>5, <1>6, <1>7 DEF BlockTimeInv

\* A check of a call that is not over.
LEMMA BlockTimeCheck ==
  ASSUME BlockTimeInv, xTaskCheckForTimeOut
  PROVE  BlockTimeInv'
<1>1. /\ TickMod \in Nat /\ TickMod >= 3 /\ OverflowMod \in Nat /\ OverflowMod >= 3
      /\ MaxUnchecked \in 1..TickMod
      /\ xTickCount \in 0..(TickMod - 1) /\ left \in Int
      /\ xNumOfOverflows \in 0..(OverflowMod - 1) /\ xOverflowCount \in 0..(OverflowMod - 1)
      /\ xTimeOnEntering \in 0..(TickMod - 1)
      /\ xTicksToWait \in 0..(TickMod - 1) /\ unchecked \in 0..MaxUnchecked
      /\ portMAX_DELAY = TickMod - 1
  BY BlockTimeAssumption
     DEF BlockTimeAssumption, BlockTimeInv, TypeOK, Tick, portMAX_DELAY
<1>2. pc = "call" /\ verdict # "over" /\ UNCHANGED << clock, left, period, pc >>
  BY DEF xTaskCheckForTimeOut
<1>3. WakeKept'
  BY <1>2 DEF BlockTimeInv, WakeKept, clock, period
<1>4. CASE xTicksToWait = portMAX_DELAY
  <2>1. /\ verdict' = "running" /\ unchecked' = 0
        /\ UNCHANGED << xTicksToWait, xOverflowCount, xTimeOnEntering >>
    BY <1>4 DEF xTaskCheckForTimeOut
  <2>2. TypeOK'
    BY <1>1, <1>2, <2>1 DEF BlockTimeInv, TypeOK, clock, period
  <2>3. CallKept'
    BY <1>2, <1>4, <2>1 DEF CallKept, TimeOutExact
  <2> QED BY <1>3, <2>2, <2>3 DEF BlockTimeInv
<1>5. CASE xTicksToWait # portMAX_DELAY
  <2> DEFINE xElapsedTime == Mod(xTickCount - xTimeOnEntering)
  <2>1. EnteredAt /\ left = xTicksToWait - unchecked
    BY <1>2, <1>5 DEF BlockTimeInv, CallKept
  <2>2. /\ WentAllTheWay => unchecked = TickMod
        /\ ~WentAllTheWay => xElapsedTime = unchecked
    <3>1. CASE /\ xTickCount = xTimeOnEntering + unchecked
               /\ xNumOfOverflows = xOverflowCount
      <4>1. ~WentAllTheWay
        BY <3>1 DEF WentAllTheWay
      <4>2. xElapsedTime = unchecked
        BY <1>1, <3>1, Turns
      <4> QED BY <4>1, <4>2
    <3>2. CASE /\ xTickCount = xTimeOnEntering + unchecked - TickMod
               /\ xNumOfOverflows = (xOverflowCount + 1) % OverflowMod
      <4>1. xNumOfOverflows # xOverflowCount
        BY <1>1, <3>2
      <4>2. unchecked <= TickMod /\ (WentAllTheWay <=> xTickCount >= xTimeOnEntering)
        BY <1>1, <4>1 DEF WentAllTheWay
      <4>3. WentAllTheWay => unchecked = TickMod
        BY <1>1, <3>2, <4>2
      <4>4. ASSUME ~WentAllTheWay PROVE xElapsedTime = unchecked
        <5>1. xTickCount - xTimeOnEntering < 0
          BY <1>1, <4>2, <4>4
        <5>2. xElapsedTime = (xTickCount - xTimeOnEntering) + TickMod
          BY <1>1, <5>1, Turns
        <5> QED BY <1>1, <3>2, <5>2
      <4> QED BY <4>3, <4>4
    <3> QED BY <2>1, <3>1, <3>2 DEF EnteredAt
  <2> HIDE DEF xElapsedTime
  <2>3. CASE ~WentAllTheWay /\ xElapsedTime < xTicksToWait
    <3>1. /\ verdict' = "running" /\ xTicksToWait' = xTicksToWait - xElapsedTime
          /\ xOverflowCount' = xNumOfOverflows /\ xTimeOnEntering' = xTickCount
          /\ unchecked' = 0
      BY <1>5, <2>3 DEF xTaskCheckForTimeOut, SetTimeOutState, xElapsedTime
    <3>2. xTicksToWait' = left' /\ left' > 0 /\ xTicksToWait' \in 0..(TickMod - 1)
      BY <1>1, <1>2, <2>1, <2>2, <2>3, <3>1
    <3>3. TypeOK'
      BY <1>1, <1>2, <3>1, <3>2 DEF BlockTimeInv, TypeOK, clock, period, Tick
    <3>4. CallKept'
      <4>1. EnteredAt' /\ left' = xTicksToWait' - unchecked'
        BY <1>1, <1>2, <3>1, <3>2 DEF EnteredAt, clock
      <4> QED BY <3>1, <3>2, <4>1 DEF CallKept, TimeOutExact
    <3> QED BY <1>3, <3>3, <3>4 DEF BlockTimeInv
  <2>4. CASE WentAllTheWay \/ ~(xElapsedTime < xTicksToWait)
    <3>1. /\ verdict' = "over" /\ xTicksToWait' = 0
          /\ UNCHANGED << xOverflowCount, xTimeOnEntering, unchecked >>
      BY <1>5, <2>4 DEF xTaskCheckForTimeOut, xElapsedTime
    <3>2. left' <= 0
      BY <1>1, <1>2, <2>1, <2>2, <2>4
    <3>3. TypeOK'
      BY <1>1, <1>2, <3>1 DEF BlockTimeInv, TypeOK, clock, period, Tick
    <3>4. CallKept'
      BY <3>1, <3>2 DEF CallKept, TimeOutExact
    <3> QED BY <1>3, <3>3, <3>4 DEF BlockTimeInv
  <2> QED BY <2>3, <2>4
<1> QED BY <1>4, <1>5

\* A call begins or returns.
LEMMA BlockTimeCall ==
  ASSUME BlockTimeInv,
         Return \/ \E xBlockTime \in Tick \ {0} : Call(xBlockTime)
  PROVE  BlockTimeInv'
<1>1. /\ TickMod \in Nat /\ TickMod >= 3 /\ MaxUnchecked \in 1..TickMod
      /\ xTickCount \in 0..(TickMod - 1) /\ 0 \in Tick /\ 0 \in 0..MaxUnchecked
  BY BlockTimeAssumption
     DEF BlockTimeAssumption, BlockTimeInv, TypeOK, Tick
<1>2. ASSUME NEW xBlockTime \in Tick \ {0}, Call(xBlockTime)
      PROVE  BlockTimeInv'
  <2>1. /\ pc = "app" /\ pc' = "call" /\ verdict' = "none"
        /\ xOverflowCount' = xNumOfOverflows /\ xTimeOnEntering' = xTickCount
        /\ unchecked' = 0 /\ xTicksToWait' = xBlockTime /\ left' = xBlockTime
        /\ UNCHANGED << xTickCount, xNumOfOverflows, xPreviousWakeTime, lag >>
    BY <1>2 DEF Call, SetTimeOutState, clock, period
  <2>2. xBlockTime \in Int
    BY <1>1 DEF Tick
  <2>3. TypeOK'
    BY <1>1, <2>1, <2>2 DEF BlockTimeInv, TypeOK, Tick
  <2>4. CallKept'
    BY <1>1, <2>1, <2>2 DEF CallKept, TimeOutExact, EnteredAt
  <2>5. WakeKept'
    BY <2>1 DEF BlockTimeInv, WakeKept
  <2> QED BY <2>3, <2>4, <2>5 DEF BlockTimeInv
<1>3. CASE Return
  <2>1. /\ pc = "call" /\ pc' = "app" /\ verdict' = "none"
        /\ xTicksToWait' = 0 /\ left' = 0 /\ unchecked' = 0
        /\ UNCHANGED << xTickCount, xNumOfOverflows, xOverflowCount, xTimeOnEntering >>
        /\ IF lag < TickMod - 1 THEN UNCHANGED << xPreviousWakeTime, lag >>
           ELSE xPreviousWakeTime' = xTickCount /\ lag' = 0
    BY <1>3 DEF Return, clock, period
  <2>2. TypeOK'
    BY <1>1, <2>1 DEF BlockTimeInv, TypeOK, Tick
  <2>3. CallKept'
    BY <2>1 DEF CallKept, TimeOutExact
  <2>4. WakeKept'
    <3>1. CASE lag < TickMod - 1
      BY <2>1, <3>1 DEF BlockTimeInv, WakeKept
    <3>2. CASE ~(lag < TickMod - 1)
      <4>1. xPreviousWakeTime' = xTickCount' /\ lag' = 0
        BY <2>1, <3>2
      <4>2. xTickCount' = xTickCount /\ xTickCount - 0 = xTickCount
        BY <1>1, <2>1
      <4>3. Mod(xTickCount) = xTickCount
        BY <1>1, Turns
      <4> QED BY <1>1, <2>1, <4>1, <4>2, <4>3 DEF WakeKept
    <3> QED BY <3>1, <3>2
  <2> QED BY <2>2, <2>3, <2>4 DEF BlockTimeInv
<1> QED BY <1>2, <1>3

\* A periodic delay: the task is delayed exactly if its next wake-up is to come.
LEMMA BlockTimeDelayUntil ==
  ASSUME BlockTimeInv, NEW xTimeIncrement \in Increments, xTaskDelayUntil(xTimeIncrement)
  PROVE  BlockTimeInv'
<1> DEFINE xTimeToWake == Mod(xPreviousWakeTime + xTimeIncrement)
<1>1. /\ TickMod \in Nat /\ TickMod >= 3 /\ xTimeIncrement \in 1..(TickMod - 1)
      /\ xTickCount \in 0..(TickMod - 1) /\ xPreviousWakeTime \in 0..(TickMod - 1)
  BY BlockTimeAssumption DEF BlockTimeAssumption, BlockTimeInv, TypeOK, Tick
<1>2. /\ pc = "app" /\ xPreviousWakeTime' = xTimeToWake /\ lag' = lag - xTimeIncrement
      /\ pc' = IF ShouldDelay(xTimeToWake) THEN "delayed" ELSE "app"
      /\ UNCHANGED << xTickCount, xNumOfOverflows, xOverflowCount, xTimeOnEntering,
                      xTicksToWait, verdict, left, unchecked >>
  BY DEF xTaskDelayUntil, clock, timeOut
<1>3. lag \in 0..(TickMod - 1) /\ xPreviousWakeTime = Mod(xTickCount - lag)
  BY <1>1, <1>2 DEF BlockTimeInv, WakeKept
<1>4. \/ xTickCount = xPreviousWakeTime + lag
      \/ xTickCount = xPreviousWakeTime + lag - TickMod
  BY <1>1, <1>3, Turns
<1>5. \/ /\ xPreviousWakeTime + xTimeIncrement < TickMod
         /\ xTimeToWake = xPreviousWakeTime + xTimeIncrement
      \/ /\ xPreviousWakeTime + xTimeIncrement >= TickMod
         /\ xTimeToWake = xPreviousWakeTime + xTimeIncrement - TickMod
  BY <1>1, Turns
<1>6. xTimeToWake = Mod(xTickCount - lag')
  <2>1. /\ xTickCount - lag' \in Int /\ -TickMod <= xTickCount - lag'
        /\ xTickCount - lag' < 2 * TickMod
    BY <1>1, <1>2, <1>3
  <2>2. /\ xTickCount - lag' < 0 => Mod(xTickCount - lag') = (xTickCount - lag') + TickMod
        /\ 0 <= xTickCount - lag' /\ xTickCount - lag' < TickMod =>
             Mod(xTickCount - lag') = xTickCount - lag'
        /\ TickMod <= xTickCount - lag' =>
             Mod(xTickCount - lag') = (xTickCount - lag') - TickMod
    BY <2>1, Turns
  <2> HIDE DEF xTimeToWake
  <2> QED BY <1>1, <1>2, <1>3, <1>4, <1>5, <2>2
<1> HIDE DEF xTimeToWake
<1>7. ShouldDelay(xTimeToWake) <=> xTimeIncrement > lag
  BY <1>1, <1>3, <1>4, <1>5 DEF ShouldDelay
<1>8. TypeOK'
  BY <1>1, <1>2, <1>3, <1>5 DEF BlockTimeInv, TypeOK, Tick
<1>9. CallKept'
  BY <1>2 DEF CallKept
<1>10. WakeKept'
  <2>1. xPreviousWakeTime' = Mod(xTickCount' - lag')
    BY <1>2, <1>6
  <2> QED BY <1>1, <1>2, <1>3, <1>7, <2>1 DEF WakeKept
<1> QED BY <1>8, <1>9, <1>10 DEF BlockTimeInv

\* Block times end when they have passed, and periods keep their ticks: over
\* any number of checks and wraps, for any width of the tick count, as long as
\* a call is checked once in a turn of it.
THEOREM BlockTimesKept == ClockedSpec => []BlockTimesExact
<1>1. ClockedInit => (part = "BlockTime" => BlockTimeInv)
  <2> SUFFICES ASSUME ClockedInit, part = "BlockTime" PROVE Init
    BY BlockTimeStart
  <2> QED BY DEF ClockedInit
<1>2. ASSUME part = "BlockTime" => BlockTimeInv, [ClockedNext]_clockedVars
      PROVE  (part = "BlockTime" => BlockTimeInv)'
  <2> SUFFICES ASSUME part' = "BlockTime" PROVE BlockTimeInv'
    OBVIOUS
  <2>1. part = "BlockTime" /\ (Next \/ UNCHANGED vars)
    BY <1>2 DEF ClockedNext, clockedVars
  <2>2. CASE Next
    BY <1>2, <2>1, <2>2, BlockTimeTick, BlockTimeCheck, BlockTimeCall, BlockTimeDelayUntil
       DEF Next
  <2>3. CASE UNCHANGED vars
    BY <1>2, <2>1, <2>3
       DEF vars, clock, timeOut, period, BlockTimeInv, TypeOK, CallKept, WakeKept,
           TimeOutExact, EnteredAt
  <2> QED BY <2>1, <2>2, <2>3
<1>3. (part = "BlockTime" => BlockTimeInv) => BlockTimesExact
  <2> SUFFICES ASSUME BlockTimeInv PROVE TimeOutExact /\ PeriodKept
    BY DEF BlockTimesExact
  <2>1. TimeOutExact
    BY DEF BlockTimeInv, CallKept, TimeOutExact
  <2>2. PeriodKept
    BY DEF BlockTimeInv, WakeKept, PeriodKept
  <2> QED BY <2>1, <2>2
<1> QED BY <1>1, <1>2, <1>3, PTL DEF ClockedSpec, clockedVars

-----------------------------------------------------------------------------
(* The tickless idle task.                                                  *)

\* A set of numbers has a smallest.
LEMMA Smallest ==
  ASSUME NEW S, S \subseteq Nat, S # {}
  PROVE  \E x \in S : \A y \in S : x <= y
<1> DEFINE Below == {ss \in Nat \X Nat : ss[1] < ss[2]}
<1>1. IsWellFoundedOn(Below, Nat)
  BY NatLessThanWellFounded DEF OpToRel
<1> HIDE DEF Below
<1>2. PICK x \in S : \A y \in S : ~(<< y, x >> \in Below)
  BY <1>1, WFMin
<1>3. ASSUME NEW y \in S PROVE x <= y
  <2>1. << y, x >> \in Nat \X Nat /\ ~(y < x)
    BY <1>2 DEF Below
  <2> QED BY <2>1
<1> QED BY <1>3

Ticks == 0..(TickMod - 1)

Lists == {"none", "suspended", "current", "overflow"}
Untils == [Worker -> [in : Lists, at : Ticks]]

IsTimed(until, t) == until[t].in \in {"current", "overflow"}

\* The ticks until a task's wake time.
Distance(until, count, t) ==
  IF until[t].in = "current" THEN until[t].at - count ELSE until[t].at + TickMod - count

\* A kernel in which each delayed task is in its list, late ticks before its
\* delay has passed, and which knows the first wake time.
OnTime(k, togo, late) ==
  /\ k.count \in Ticks /\ k.until \in Untils
  /\ k.next = K!NextUnblock(k.until)
  /\ \A t \in Worker :
       /\ k.until[t].in = "none" => k.until[t] = K!None
       /\ k.until[t].in = "current" => k.count < k.until[t].at
       /\ k.until[t].in = "overflow" => k.until[t].at < k.count
       /\ IsTimed(k.until, t) => Distance(k.until, k.count, t) = togo[t] + late

\* The first wake time of the current list.
LEMMA FirstWake ==
  ASSUME NEW until \in Untils
  PROVE  /\ K!NextUnblock(until) \in Ticks
         /\ \A t \in Worker : until[t].in = "current" => K!NextUnblock(until) <= until[t].at
         /\ \/ K!NextUnblock(until) = TickMod - 1
            \/ \E t \in Worker : until[t].in = "current" /\ until[t].at = K!NextUnblock(until)
<1> DEFINE times == {until[t].at : t \in {t \in Worker : until[t].in = "current"}}
<1>1. times \subseteq Ticks /\ Ticks \subseteq Nat /\ TickMod \in Nat /\ TickMod >= 3
  BY BlockTimeAssumption DEF BlockTimeAssumption, Untils, Ticks
<1>2. K!NextUnblock(until) = IF times = {} THEN TickMod - 1 ELSE K!Min(times)
  BY DEF K!NextUnblock, K!portMAX_DELAY
<1>3. ASSUME times # {}
      PROVE  K!Min(times) \in times /\ \A n \in times : K!Min(times) <= n
  <2>1. \E x \in times : \A y \in times : x <= y
    BY <1>1, <1>3, Smallest
  <2> HIDE DEF times
  <2> QED BY <2>1 DEF K!Min
<1>4. \A t \in Worker : until[t].in = "current" => until[t].at \in times
  OBVIOUS
<1>5. \A n \in times : \E t \in Worker : until[t].in = "current" /\ until[t].at = n
  OBVIOUS
<1>6. TickMod - 1 \in Ticks
  BY <1>1 DEF Ticks
<1> HIDE DEF times
<1>7. CASE times = {}
  BY <1>2, <1>4, <1>6, <1>7
<1>8. CASE times # {}
  BY <1>1, <1>2, <1>3, <1>4, <1>5, <1>8
<1> QED BY <1>7, <1>8

\* A tick.
LEMMA TickedOnTime ==
  ASSUME NEW k, NEW togo \in [Worker -> Int], NEW late \in Int, OnTime(k, togo, late)
  PROVE  /\ OnTime(K!Ticked(k), togo, late - 1)
         /\ \A t \in Worker : K!Ticked(k).until[t] = K!None
                              \/ /\ k.until[t] # K!None
                                 /\ IsTimed(K!Ticked(k).until, t) <=> IsTimed(k.until, t)
                                 /\ k.until[t].in = "suspended" =>
                                      K!Ticked(k).until[t] = k.until[t]
<1> DEFINE count == K!Mod(k.count + 1)
           until == IF count = 0 THEN K!Switched(k.until) ELSE k.until
           next == IF count = 0 THEN K!NextUnblock(until) ELSE k.next
           called == IF count >= next
                  THEN {t \in Worker : until[t].in = "current" /\ until[t].at <= count}
                  ELSE {}
           rest == K!Readied(until, called)
<1>1. /\ K!Ticked(k).count = count /\ K!Ticked(k).until = rest
      /\ K!Ticked(k).next = IF count >= next THEN K!NextUnblock(rest) ELSE next
  BY DEF K!Ticked
<1>2. /\ TickMod \in Nat /\ TickMod >= 3
      /\ k.count \in 0..(TickMod - 1) /\ k.until \in Untils
      /\ k.next = K!NextUnblock(k.until)
      /\ K!None = [in |-> "none", at |-> 0]
  BY BlockTimeAssumption DEF BlockTimeAssumption, OnTime, Ticks, K!None
<1>3. /\ k.count < TickMod - 1 => count = k.count + 1
      /\ k.count = TickMod - 1 => count = 0
      /\ count \in 0..(TickMod - 1)
  BY <1>2, Turns DEF Mod, K!Mod
<1>4. /\ until \in Untils
      /\ \A t \in Worker :
           /\ until[t].in = "none" => until[t] = K!None
           /\ until[t].in = "current" => count <= until[t].at
           /\ until[t].in = "overflow" => until[t].at < count
           /\ IsTimed(until, t) <=> IsTimed(k.until, t)
           /\ IsTimed(until, t) => Distance(until, count, t) = togo[t] + late - 1
           /\ ~IsTimed(k.until, t) => until[t] = k.until[t]
  <2>1. CASE k.count < TickMod - 1
    <3>1. until = k.until /\ count = k.count + 1
      BY <1>2, <1>3, <2>1
    <3> HIDE DEF until, count
    <3>2. ASSUME NEW t \in Worker
          PROVE  /\ until[t].in = "none" => until[t] = K!None
                 /\ until[t].in = "current" => count <= until[t].at
                 /\ until[t].in = "overflow" => until[t].at < count
      <4>1. until[t].at \in 0..(TickMod - 1)
        BY <1>2, <3>1 DEF Untils, Ticks
      <4> QED BY <1>2, <3>1, <4>1 DEF OnTime
    <3>3. ASSUME NEW t \in Worker, IsTimed(until, t)
          PROVE  Distance(until, count, t) = togo[t] + late - 1
      <4>1. /\ until[t].at \in 0..(TickMod - 1) /\ togo[t] \in Int
            /\ Distance(k.until, k.count, t) = togo[t] + late
        BY <1>2, <3>1, <3>3 DEF OnTime, Untils, Ticks
      <4> DEFINE at == until[t].at
                 remains == togo[t]
                 old == k.count
      <4>2. /\ Distance(k.until, old, t) = IF until[t].in = "current" THEN at - old
                                           ELSE at + TickMod - old
            /\ Distance(until, count, t) = IF until[t].in = "current" THEN at - count
                                           ELSE at + TickMod - count
        BY <3>1 DEF Distance
      <4>3. /\ at \in Int /\ remains \in Int /\ old \in Int /\ count = old + 1
            /\ Distance(k.until, old, t) = remains + late
        BY <1>2, <3>1, <4>1
      <4> HIDE DEF at, remains, old
      <4>4. Distance(until, count, t) = remains + late - 1
        BY <1>2, <4>2, <4>3
      <4> QED BY <4>4 DEF remains
    <3> QED BY <1>2, <3>1, <3>2, <3>3
  <2>2. CASE k.count = TickMod - 1
    <3>1. count = 0 /\ until = K!Switched(k.until)
      BY <1>3, <2>2
    <3>2. \A t \in Worker :
            /\ until[t] = IF k.until[t].in = "overflow"
                          THEN [k.until[t] EXCEPT !.in = "current"] ELSE k.until[t]
            /\ k.until[t].in # "current"
            /\ k.until[t].in \in Lists /\ k.until[t].at \in Ticks
      BY <1>2, <2>2, <3>1 DEF K!Switched, OnTime, Untils, Ticks
    <3>3. until \in Untils
      BY <1>2, <3>1, <3>2 DEF K!Switched, Untils, Lists
    <3> HIDE DEF until, count
    <3>4. ASSUME NEW t \in Worker, k.until[t].in = "overflow"
          PROVE  until[t].in = "current" /\ until[t].at = k.until[t].at
      <4>1. k.until[t] \in [in : Lists, at : Ticks]
        BY <1>2 DEF Untils
      <4>2. until[t] = [k.until[t] EXCEPT !.in = "current"]
        BY <3>2, <3>4
      <4> QED BY ONLY <4>1, <4>2
    <3>5. \A t \in Worker : k.until[t].in # "overflow" => until[t] = k.until[t]
      BY <3>2
    <3>6. ASSUME NEW t \in Worker, IsTimed(until, t)
          PROVE  /\ k.until[t].in = "overflow" /\ until[t].in = "current"
                 /\ until[t].at = k.until[t].at /\ k.until[t].at \in 0..(TickMod - 1)
                 /\ k.until[t].at + TickMod - k.count = togo[t] + late
                 /\ togo[t] \in Int
      BY <1>2, <3>2, <3>4, <3>5, <3>6 DEF OnTime, IsTimed, Distance, Ticks
    <3>7. \A t \in Worker : IsTimed(until, t) => Distance(until, count, t) = togo[t] + late - 1
      BY <1>2, <2>2, <3>1, <3>6 DEF Distance
    <3>8. \A t \in Worker : IsTimed(until, t) <=> IsTimed(k.until, t)
      BY <3>4, <3>5, <3>6 DEF IsTimed
    <3>9. \A t \in Worker : until[t].in = "current" => count <= until[t].at
      BY <3>1, <3>6 DEF IsTimed
    <3> QED BY <3>1, <3>2, <3>3, <3>4, <3>5, <3>6, <3>7, <3>8, <3>9 DEF OnTime, IsTimed
  <2> QED BY <1>2, <2>1, <2>2
<1>5. next = K!NextUnblock(until)
  BY <1>2
<1> HIDE DEF count, until, next
<1>6. \A t \in Worker : rest[t] = IF t \in called THEN K!None ELSE until[t]
  BY DEF K!Readied
<1>7. rest \in Untils
  BY <1>2, <1>4, <1>6 DEF K!Readied, Untils, Lists, Ticks
<1>8. K!Ticked(k).next = K!NextUnblock(rest)
  <2>1. CASE count >= next
    BY <1>1, <2>1
  <2>2. CASE ~(count >= next)
    <3>1. called = {}
      BY <2>2
    <3>2. rest = until
      BY <1>4, <3>1 DEF K!Readied, Untils
    <3> QED BY <1>1, <1>5, <2>2, <3>2
  <2> QED BY <2>1, <2>2
<1>9. \A t \in Worker : until[t].in = "current" => t \in called \/ count < until[t].at
  BY <1>3, <1>4, <1>5, FirstWake DEF Untils, Ticks
<1> HIDE DEF called, rest
<1>10. \A t \in Worker :
         /\ rest[t].in = "none" => rest[t] = K!None
         /\ rest[t].in = "current" => count < rest[t].at
         /\ rest[t].in = "overflow" => rest[t].at < count
         /\ IsTimed(rest, t) => Distance(rest, count, t) = togo[t] + (late - 1)
  BY <1>2, <1>4, <1>6, <1>9 DEF IsTimed, Distance
<1>11. OnTime(K!Ticked(k), togo, late - 1)
  BY <1>1, <1>3, <1>7, <1>8, <1>10 DEF OnTime, Ticks
<1>12. ASSUME NEW t \in Worker, rest[t] # K!None
       PROVE  /\ k.until[t] # K!None
              /\ IsTimed(rest, t) <=> IsTimed(k.until, t)
              /\ k.until[t].in = "suspended" => rest[t] = k.until[t]
  BY <1>2, <1>4, <1>6, <1>12 DEF IsTimed
<1> QED BY <1>1, <1>11, <1>12

\* g is what the steps make of start, one after the other.
Computes(g, step, start, last) ==
  g = [n \in 0..last |-> IF n = 0 THEN start ELSE step[g[n - 1]]]

\* What is computed step by step is defined.
LEMMA Iteration ==
  ASSUME NEW S, NEW step \in [S -> S], NEW start \in S, NEW last \in Nat
  PROVE  \E g \in [0..last -> S] : Computes(g, step, start, last)
<1> DEFINE Bad == {m \in Nat : ~\E g \in [0..m -> S] : Computes(g, step, start, m)}
<1>1. SUFFICES ASSUME Bad # {} PROVE FALSE
  OBVIOUS
<1>2. PICK m \in Bad : \A i \in Bad : m <= i
  <2>1. Bad \subseteq Nat
    OBVIOUS
  <2> HIDE DEF Bad
  <2> QED BY <1>1, <2>1, Smallest
<1>3. m # 0
  <2>1. Computes([n \in 0..0 |-> start], step, start, 0) /\ [n \in 0..0 |-> start] \in [0..0 -> S]
    BY DEF Computes
  <2>2. 0 \notin Bad
    BY <2>1
  <2> QED BY <2>2
<1>4. m - 1 \in Nat /\ m \in Nat /\ m - 1 \notin Bad
  BY <1>2, <1>3
<1>5. PICK g \in [0..(m - 1) -> S] : Computes(g, step, start, m - 1)
  BY <1>4
<1> DEFINE h == [n \in 0..m |-> IF n = m THEN step[g[m - 1]] ELSE g[n]]
<1>6. /\ g[m - 1] \in S /\ \A n \in 0..(m - 1) : n \in 0..m /\ n # m
      /\ \A n \in 0..m : n # m => n \in 0..(m - 1)
      /\ \A n \in 0..m : n # 0 => n - 1 \in 0..(m - 1)
  BY <1>4, <1>5
<1>7. h \in [0..m -> S]
  BY <1>6
<1>8. \A n \in 0..m : h[n] = IF n = 0 THEN start ELSE step[h[n - 1]]
  <2> TAKE n \in 0..m
  <2>1. \A i \in 0..(m - 1) : h[i] = g[i]
    BY <1>6
  <2>2. CASE n = m
    BY <1>3, <1>6, <2>1, <2>2
  <2>3. CASE n # m
    <3>1. g[n] = IF n = 0 THEN start ELSE step[g[n - 1]]
      BY <1>5, <1>6, <2>3 DEF Computes
    <3> HIDE DEF h
    <3> QED BY <1>6, <2>1, <2>3, <3>1
  <2> QED BY <2>2, <2>3
<1>9. Computes(h, step, start, m)
  <2>1. h = [n \in 0..m |-> h[n]]
    OBVIOUS
  <2> HIDE DEF h
  <2> QED BY <1>8, <2>1 DEF Computes
<1> HIDE DEF h
<1> QED BY <1>2, <1>7, <1>9

\* Whatever holds at first and after each step holds at last.
LEMMA StepByStep ==
  ASSUME NEW last \in Nat, NEW Good, 0 \in Good,
         \A n \in Good : n < last => n + 1 \in Good
  PROVE  \A n \in 0..last : n \in Good
<1> DEFINE Bad == {n \in 0..last : n \notin Good}
<1>1. SUFFICES ASSUME Bad # {} PROVE FALSE
  OBVIOUS
<1>2. PICK n \in Bad : \A i \in Bad : n <= i
  <2>1. Bad \subseteq Nat
    OBVIOUS
  <2> HIDE DEF Bad
  <2> QED BY <1>1, <2>1, Smallest
<1>3. n - 1 \in Good /\ n - 1 < last /\ (n - 1) + 1 = n
  BY <1>2
<1>4. n \in Good
  BY <1>3
<1> QED BY <1>2, <1>4

\* The kernels there are.
Kernels == [count : Ticks, until : Untils, next : Ticks]

\* A tick makes a kernel of a kernel.
LEMMA TickedType == \A k \in Kernels : K!Ticked(k) \in Kernels
<1> TAKE k \in Kernels
<1> DEFINE count == K!Mod(k.count + 1)
           until == IF count = 0 THEN K!Switched(k.until) ELSE k.until
           next == IF count = 0 THEN K!NextUnblock(until) ELSE k.next
           called == IF count >= next
                  THEN {t \in Worker : until[t].in = "current" /\ until[t].at <= count}
                  ELSE {}
           rest == K!Readied(until, called)
<1>1. K!Ticked(k) = [count |-> count, until |-> rest,
                     next |-> IF count >= next THEN K!NextUnblock(rest) ELSE next]
  BY DEF K!Ticked
<1>2. count \in Ticks
  BY BlockTimeAssumption, Turns DEF BlockTimeAssumption, Kernels, Ticks, Mod, K!Mod
<1>3. until \in Untils
  <2>1. K!Switched(k.until) \in Untils
    <3>1. ASSUME NEW t \in Worker
          PROVE  [k.until[t] EXCEPT !.in = "current"] \in [in : Lists, at : Ticks]
      BY DEF Kernels, Untils, Lists
    <3> QED BY <3>1 DEF Kernels, Untils, K!Switched
  <2> QED BY <2>1 DEF Kernels
<1>4. K!None \in [in : Lists, at : Ticks]
  BY BlockTimeAssumption DEF BlockTimeAssumption, K!None, Lists, Ticks
<1> HIDE DEF count, until
<1>5. next \in Ticks
  BY <1>3, FirstWake DEF Kernels
<1> HIDE DEF next, called
<1>6. rest \in Untils
  BY <1>3, <1>4 DEF K!Readied, Untils
<1> HIDE DEF rest
<1> QED BY <1>1, <1>2, <1>5, <1>6, FirstWake DEF Kernels

\* What the ticks that were pended make of a kernel.
LEMMA ResumedOnTime ==
  ASSUME NEW k \in Kernels, NEW togo \in [Worker -> Int], NEW late \in 0..(MaxPended + 1),
         OnTime(k, togo, late), NEW after,
         after = CHOOSE g : g = [n \in 0 .. MaxPended + 1 |->
                                   IF n = 0 THEN k ELSE K!Ticked(g[n - 1])]
  PROVE  /\ OnTime(after[late], togo, 0)
         /\ \A t \in Worker : after[late].until[t] = K!None \/ k.until[t] # K!None
<1> DEFINE Steps == 0 .. MaxPended + 1
           step == [j \in Kernels |-> K!Ticked(j)]
           Good == {n \in Steps : n <= late =>
                      /\ OnTime(after[n], togo, late - n)
                      /\ \A t \in Worker : after[n].until[t] = K!None \/ k.until[t] # K!None}
<1>0. MaxPended \in Nat /\ MaxPended + 1 \in Nat
  BY ClockedAssumption DEF ClockedAssumption
<1>1. step \in [Kernels -> Kernels]
  BY TickedType
<1>2. PICK g \in [Steps -> Kernels] : g = [n \in Steps |-> IF n = 0 THEN k ELSE step[g[n - 1]]]
  <2> DEFINE last == MaxPended + 1
  <2>1. last \in Nat /\ Steps = 0..last /\ k \in Kernels
    BY <1>0
  <2> HIDE DEF step, last, Steps
  <2>2. \E g \in [0..last -> Kernels] : Computes(g, step, k, last)
    BY <1>1, <2>1, Iteration
  <2> QED BY <2>1, <2>2 DEF Computes
<1>3. g = [n \in Steps |-> IF n = 0 THEN k ELSE K!Ticked(g[n - 1])]
  <2>1. \A n \in Steps : n # 0 => n - 1 \in Steps
    BY <1>0
  <2>2. \A n \in Steps : n # 0 => step[g[n - 1]] = K!Ticked(g[n - 1])
    BY <1>2, <2>1
  <2> HIDE DEF step
  <2> QED BY <1>2, <2>2
<1>4. after = [n \in Steps |-> IF n = 0 THEN k ELSE K!Ticked(after[n - 1])]
  BY <1>3
<1>5. 0 \in Good
  <2>1. 0 \in Steps /\ late - 0 = late
    BY <1>0
  <2>2. after[0] = k
    BY <1>4, <2>1
  <2> HIDE DEF Steps
  <2> QED BY <2>1, <2>2
<1>6. ASSUME NEW n \in Good, n < MaxPended + 1 PROVE n + 1 \in Good
  <2>1. n \in Steps /\ n + 1 \in Steps /\ n + 1 # 0 /\ (n + 1) - 1 = n
    BY <1>0, <1>6
  <2>2. after[n + 1] = K!Ticked(after[n])
    BY <1>4, <2>1
  <2>3. ASSUME n + 1 <= late
        PROVE  /\ OnTime(after[n + 1], togo, late - (n + 1))
               /\ \A t \in Worker : after[n + 1].until[t] = K!None \/ k.until[t] # K!None
    <3>1. /\ OnTime(after[n], togo, late - n) /\ late - n \in Int
          /\ \A t \in Worker : after[n].until[t] = K!None \/ k.until[t] # K!None
          /\ late - n - 1 = late - (n + 1)
      BY <1>6, <2>1, <2>3
    <3> HIDE DEF Good
    <3>2. OnTime(after[n + 1], togo, late - n - 1)
      BY <2>2, <3>1, TickedOnTime
    <3>3. \A t \in Worker : after[n + 1].until[t] = K!None \/ after[n].until[t] # K!None
      BY <2>2, <3>1, TickedOnTime
    <3> QED BY <3>1, <3>2, <3>3
  <2> QED BY <2>1, <2>3
<1>7. late \in Good
  <2> HIDE DEF Good
  <2>1. \A n \in 0..(MaxPended + 1) : n \in Good
    BY <1>0, <1>5, <1>6, StepByStep
  <2> QED BY <2>1
<1> QED BY <1>7

\* Where the idle task is.
IdlePlaces == {"loop", "again", "suppress", "asleep", "unlimited", "awake"}

TicklessTypes ==
  /\ xTickCount \in Ticks /\ delayedUntil \in Untils
  /\ xPendedTicks \in 0..(MaxPended + 1)
  /\ remaining \in [Worker -> Int]
  /\ idlePc \in IdlePlaces /\ slept \in Nat

\* Tasks are ready or blocked, and the idle task runs in its suspension, in
\* which the ticks and the tasks are pended.
PlacesKept ==
  /\ ready = Worker \ K!Blocked(delayedUntil)
  /\ pended \subseteq K!Blocked(delayedUntil)
  /\ K!Suspended => idleRuns
  /\ ~K!Suspended => xPendedTicks = 0 /\ pended = {}

\* What the idle task has found by the time it sleeps.
SleepKept ==
  /\ idlePc # "asleep" => slept = 0
  /\ idlePc \in {"suppress", "asleep", "unlimited"} => ready = {}
  /\ idlePc \in {"suppress", "asleep"} =>
       xExpectedIdleTime = xNextTaskUnblockTime - xTickCount
  /\ idlePc \in {"asleep", "unlimited"} => xPendedTicks = 0 /\ pended = {}
  /\ idlePc = "asleep" => slept <= xExpectedIdleTime
  /\ idlePc = "unlimited" => \A t \in Worker : delayedUntil[t].in = "suspended"

TicklessInv ==
  /\ TicklessTypes /\ PlacesKept /\ SleepKept
  /\ OnTime(K!Kernel, remaining, xPendedTicks + slept)

\* What a step makes of the kernel is in time after it.
LEMMA InTimeAfter ==
  ASSUME NEW k, k.count = xTickCount', k.until = delayedUntil', k.next = xNextTaskUnblockTime',
         NEW togo, NEW late, OnTime(k, togo, late),
         \A t \in Worker : IsTimed(k.until, t) =>
           togo[t] + late = remaining'[t] + (xPendedTicks' + slept')
  PROVE  OnTime(K!Kernel, remaining, xPendedTicks + slept)'
<1>1. /\ (K!Kernel').count = k.count /\ (K!Kernel').until = k.until
      /\ (K!Kernel').next = k.next
  BY DEF K!Kernel
<1>2. K!NextUnblock((K!Kernel').until) = K!NextUnblock(k.until)
  BY <1>1
<1> QED BY <1>1, <1>2 DEF OnTime, IsTimed, Distance

\* The next unblock time is not passed.
LEMMA NextToCome ==
  ASSUME TicklessInv
  PROVE  /\ xNextTaskUnblockTime \in Ticks /\ xTickCount <= xNextTaskUnblockTime
         /\ \A t \in Worker : delayedUntil[t].in = "current" =>
              xNextTaskUnblockTime <= delayedUntil[t].at
<1>1. /\ xNextTaskUnblockTime = K!NextUnblock(delayedUntil)
      /\ \A t \in Worker : delayedUntil[t].in = "current" => xTickCount < delayedUntil[t].at
  BY DEF TicklessInv, OnTime, K!Kernel
<1>2. delayedUntil \in Untils /\ xTickCount \in 0..(TickMod - 1) /\ TickMod \in Nat
  BY BlockTimeAssumption DEF BlockTimeAssumption, TicklessInv, TicklessTypes, Ticks
<1> QED BY <1>1, <1>2, FirstWake DEF Ticks

\* The invariant says what NoneOversleeps does.
LEMMA TicklessInvSound == TicklessInv => K!NoneOversleeps
<1> SUFFICES ASSUME TicklessInv PROVE K!NoneOversleeps
  OBVIOUS
<1>1. /\ TickMod \in Nat /\ TickMod >= 3
      /\ xTickCount \in 0..(TickMod - 1) /\ delayedUntil \in Untils
      /\ xPendedTicks \in Nat /\ slept \in Nat /\ remaining \in [Worker -> Int]
      /\ xNextTaskUnblockTime \in 0..(TickMod - 1)
  BY BlockTimeAssumption, ClockedAssumption, NextToCome
     DEF BlockTimeAssumption, ClockedAssumption, TicklessInv, TicklessTypes, Ticks
<1>2. \A t \in K!In("current") \cup K!In("overflow") :
        /\ t \in Worker /\ delayedUntil[t].at \in 0..(TickMod - 1)
        /\ remaining[t] \in Int
        /\ \/ /\ delayedUntil[t].in = "current" /\ xTickCount < delayedUntil[t].at
              /\ delayedUntil[t].at - xTickCount = remaining[t] + (xPendedTicks + slept)
           \/ /\ delayedUntil[t].in = "overflow" /\ delayedUntil[t].at < xTickCount
              /\ delayedUntil[t].at + TickMod - xTickCount =
                   remaining[t] + (xPendedTicks + slept)
  BY <1>1 DEF TicklessInv, OnTime, K!Kernel, K!In, IsTimed, Distance, Untils, Ticks
<1>3. ASSUME ~K!Suspended, NEW t \in K!In("current") \cup K!In("overflow")
      PROVE  /\ remaining[t] > 0
             /\ K!Mod(delayedUntil[t].at - xTickCount) = K!Mod(remaining[t])
  <2> DEFINE n == delayedUntil[t].at - xTickCount
  <2>1. xPendedTicks + slept = 0
    BY <1>3 DEF TicklessInv, PlacesKept, SleepKept, K!Suspended
  <2>2. n \in Int /\ remaining[t] \in 1..(TickMod - 1)
        /\ \/ remaining[t] = n
           \/ remaining[t] = n + TickMod /\ n < 0 /\ -TickMod <= n
    BY <1>1, <1>2, <2>1
  <2> HIDE DEF n
  <2>3. Mod(remaining[t]) = remaining[t]
    BY <1>1, <2>2, Turns
  <2>4. Mod(n) = Mod(remaining[t])
    BY <1>1, <2>2, <2>3, Turns
  <2> QED BY <2>2, <2>4 DEF n, Mod, K!Mod
<1>4. idlePc \in {"asleep", "unlimited"} => ready = {} /\ pended = {}
  BY DEF TicklessInv, SleepKept
<1>5. idlePc = "unlimited" => K!In("current") \cup K!In("overflow") = {}
  BY DEF TicklessInv, SleepKept, K!In
<1>6. ASSUME idlePc = "asleep", NEW t \in K!In("current") \cup K!In("overflow")
      PROVE  remaining[t] >= 0
  <2>1. /\ xPendedTicks = 0 /\ slept <= xNextTaskUnblockTime - xTickCount
    BY <1>6 DEF TicklessInv, SleepKept
  <2>2. delayedUntil[t].in = "current" => xNextTaskUnblockTime <= delayedUntil[t].at
    BY <1>2, NextToCome
  <2> QED BY <1>1, <1>2, <2>1, <2>2
<1>7. K!Suspended => xNextTaskUnblockTime >= xTickCount + slept
  <2>1. CASE idlePc = "asleep"
    BY <1>1, <2>1 DEF TicklessInv, SleepKept
  <2>2. CASE idlePc # "asleep"
    BY <1>1, <2>2, NextToCome DEF TicklessInv, SleepKept
  <2> QED BY <2>1, <2>2
<1> QED BY <1>3, <1>4, <1>5, <1>6, <1>7 DEF K!NoneOversleeps

\* The scheduler starts with every task ready.
LEMMA TicklessStart == K!Init => TicklessInv
<1> SUFFICES ASSUME K!Init PROVE TicklessInv
  OBVIOUS
<1>1. TickMod \in Nat /\ TickMod >= 3 /\ MaxPended \in Nat
  BY BlockTimeAssumption, ClockedAssumption DEF BlockTimeAssumption, ClockedAssumption
<1>2. /\ delayedUntil = [t \in Worker |-> K!None] /\ K!None = [in |-> "none", at |-> 0]
      /\ xTickCount = 0 /\ xNextTaskUnblockTime = TickMod - 1 /\ xPendedTicks = 0
      /\ remaining = [t \in Worker |-> 0] /\ ready = Worker /\ pended = {}
      /\ idlePc = "loop" /\ slept = 0
  BY DEF K!Init, K!None, K!portMAX_DELAY
<1>3. TicklessTypes
  BY <1>1, <1>2 DEF TicklessTypes, Ticks, Untils, Lists, IdlePlaces
<1>4. K!NextUnblock(delayedUntil) = TickMod - 1
  <2>1. {delayedUntil[t].at : t \in {t \in Worker : delayedUntil[t].in = "current"}} = {}
    BY <1>2
  <2> QED BY <2>1 DEF K!NextUnblock, K!portMAX_DELAY
<1>5. OnTime(K!Kernel, remaining, xPendedTicks + slept)
  BY <1>1, <1>2, <1>3, <1>4 DEF OnTime, TicklessTypes, K!Kernel, IsTimed
<1>6. K!Blocked(delayedUntil) = {}
  BY <1>2 DEF K!Blocked
<1> QED BY <1>1, <1>2, <1>3, <1>5, <1>6
        DEF TicklessInv, PlacesKept, SleepKept, K!Suspended

\* An idle task that goes on touches neither the kernel nor the lists.
LEMMA IdleGoesOn ==
  ASSUME TicklessInv, K!prvIdleTask \/ K!LooksAgain \/ K!Suppress \/ K!WokenByInterrupt
  PROVE  TicklessInv'
<1>1. /\ UNCHANGED << xTickCount, xNextTaskUnblockTime, xPendedTicks, remaining, ready,
                     pended, delayedUntil, idleRuns, slept >>
      /\ idleRuns
      /\ idlePc' \in IdlePlaces
      /\ \/ idlePc = "loop" /\ idlePc' = "again"
         \/ /\ idlePc = "again" /\ xExpectedIdleTime' = K!prvGetExpectedIdleTime
            /\ \/ K!Suffices(xExpectedIdleTime') /\ idlePc' = "suppress"
               \/ idlePc' = "awake"
         \/ /\ idlePc = "suppress" /\ xExpectedIdleTime' = xExpectedIdleTime
            /\ \/ idlePc' = "awake"
               \/ /\ pended = {} /\ xPendedTicks = 0
                  /\ \/ idlePc' = "asleep"
                     \/ idlePc' = "unlimited" /\ K!In("suspended") = Worker
         \/ idlePc = "unlimited" /\ idlePc' = "awake"
  BY DEF K!prvIdleTask, K!LooksAgain, K!Suppress, K!WokenByInterrupt, K!Goes, K!Idles,
         K!clock, K!lists, K!eTaskConfirmSleepModeStatus, IdlePlaces
<1>2. TicklessTypes'
  BY <1>1 DEF TicklessInv, TicklessTypes
<1>3. OnTime(K!Kernel, remaining, xPendedTicks + slept)'
  <2>1. OnTime(K!Kernel, remaining, xPendedTicks + slept)
    BY DEF TicklessInv
  <2>2. /\ K!Kernel.count = xTickCount' /\ K!Kernel.until = delayedUntil'
        /\ K!Kernel.next = xNextTaskUnblockTime'
    BY <1>1 DEF K!Kernel
  <2> QED BY <1>1, <2>1, <2>2, InTimeAfter
<1>4. PlacesKept'
  BY <1>1 DEF TicklessInv, PlacesKept, K!Suspended, K!Blocked
<1>5. ASSUME idlePc = "again", K!Suffices(xExpectedIdleTime')
      PROVE  ready = {} /\ xExpectedIdleTime' = xNextTaskUnblockTime - xTickCount
  <2>1. xExpectedIdleTime' = IF ready # {} THEN 0
                            ELSE K!Mod(xNextTaskUnblockTime - xTickCount)
    BY <1>1, <1>5 DEF K!prvGetExpectedIdleTime
  <2>2. xExpectedIdleTime' # 0
    BY <1>5, ClockedAssumption DEF ClockedAssumption, K!Suffices
  <2>3. K!Mod(xNextTaskUnblockTime - xTickCount) = xNextTaskUnblockTime - xTickCount
    BY NextToCome, Turns, BlockTimeAssumption
       DEF BlockTimeAssumption, TicklessInv, TicklessTypes, Ticks, Mod, K!Mod
  <2> QED BY <2>1, <2>2, <2>3
<1>6. SleepKept'
  <2>1. CASE idlePc = "loop"
    BY <1>1, <2>1 DEF TicklessInv, SleepKept
  <2>2. CASE idlePc = "again"
    BY <1>1, <1>5, <2>2 DEF TicklessInv, SleepKept
  <2>3. CASE idlePc = "suppress"
    <3>1. slept = 0 /\ xExpectedIdleTime = xNextTaskUnblockTime - xTickCount /\ ready = {}
          /\ xExpectedIdleTime \in Nat
      BY <2>3, NextToCome DEF TicklessInv, SleepKept, TicklessTypes, Ticks
    <3>2. K!In("suspended") = Worker => \A t \in Worker : delayedUntil[t].in = "suspended"
      BY DEF K!In
    <3> QED BY <1>1, <2>3, <3>1, <3>2 DEF SleepKept
  <2>4. CASE idlePc = "unlimited"
    BY <1>1, <2>4 DEF TicklessInv, SleepKept
  <2> QED BY <1>1, <2>1, <2>2, <2>3, <2>4
<1> QED BY <1>2, <1>3, <1>4, <1>6 DEF TicklessInv

\* A tick asleep, which the timer of the port counts.
LEMMA SleepsStep ==
  ASSUME TicklessInv, K!Sleeps
  PROVE  TicklessInv'
<1>1. /\ UNCHANGED << xTickCount, xNextTaskUnblockTime, xPendedTicks, ready, pended,
                     delayedUntil, idleRuns, idlePc, xExpectedIdleTime >>
      /\ idlePc = "asleep" /\ slept < xExpectedIdleTime /\ slept' = slept + 1
      /\ remaining' = [t \in Worker |-> IF IsTimed(delayedUntil, t)
                                       THEN remaining[t] - 1 ELSE remaining[t]]
  BY DEF K!Sleeps, K!Idles, K!lists, K!TimePasses, IsTimed
<1>2. TicklessTypes'
  BY <1>1 DEF TicklessInv, TicklessTypes
<1>3. OnTime(K!Kernel, remaining, xPendedTicks + slept)'
  <2>1. xPendedTicks \in Int /\ slept \in Int /\ remaining \in [Worker -> Int]
    BY DEF TicklessInv, TicklessTypes
  <2>2. \A t \in Worker : IsTimed(delayedUntil, t) =>
          remaining'[t] + (xPendedTicks' + slept') = remaining[t] + (xPendedTicks + slept)
    BY <1>1, <2>1
  <2>3. OnTime(K!Kernel, remaining, xPendedTicks + slept)
    BY DEF TicklessInv
  <2>4. /\ K!Kernel.count = xTickCount' /\ K!Kernel.until = delayedUntil
        /\ K!Kernel.until = delayedUntil' /\ K!Kernel.next = xNextTaskUnblockTime'
    BY <1>1 DEF K!Kernel
  <2>5. \A t \in Worker : IsTimed(K!Kernel.until, t) =>
          remaining[t] + (xPendedTicks + slept) = remaining'[t] + (xPendedTicks' + slept')
    BY <2>2, <2>4
  <2> QED BY <2>3, <2>4, <2>5, InTimeAfter
<1>4. PlacesKept'
  BY <1>1 DEF TicklessInv, PlacesKept, K!Suspended, K!Blocked
<1>5. SleepKept'
  <2>1. xExpectedIdleTime \in Int
    BY <1>1, NextToCome DEF TicklessInv, SleepKept, TicklessTypes, Ticks
  <2> QED BY <1>1, <1>2, <2>1 DEF TicklessInv, SleepKept, TicklessTypes
<1> QED BY <1>2, <1>3, <1>4, <1>5 DEF TicklessInv

\* A distance carries what was added to the count over to what is left.
Carries(old, new, rest, over, sum) ==
  \A until, t : until[t].at \in Int =>
    (Distance(until, old, t) = rest + sum => Distance(until, new, t) = rest + over)

\* What is added to the count and what is left over come from one sum.
LEMMA SameSum ==
  ASSUME NEW old \in Int, NEW new \in Int, NEW over \in Int,
         NEW rest \in Int, NEW sum \in Int,
         new + over = old + sum
  PROVE  Carries(old, new, rest, over, sum)
<1> SUFFICES ASSUME NEW until, NEW t, until[t].at \in Int,
                    Distance(until, old, t) = rest + sum
             PROVE  Distance(until, new, t) = rest + over
  BY DEF Carries
<1> DEFINE at == until[t].at
<1>1. at \in Int /\ TickMod \in Int
  BY BlockTimeAssumption DEF BlockTimeAssumption
<1>2. /\ Distance(until, old, t) = IF until[t].in = "current" THEN at - old ELSE at + TickMod - old
      /\ Distance(until, new, t) = IF until[t].in = "current" THEN at - new ELSE at + TickMod - new
  BY DEF Distance
<1> HIDE DEF at
<1> QED BY <1>1, <1>2

\* The step of the count, of which the tick that wakes a task is left over.
LEMMA WakesStep ==
  ASSUME TicklessInv, K!Wakes
  PROVE  TicklessInv'
<1>1. /\ UNCHANGED << xNextTaskUnblockTime, remaining, ready, pended, delayedUntil,
                     idleRuns, xExpectedIdleTime >>
      /\ idlePc = "asleep" /\ idlePc' = "awake" /\ slept' = 0
      /\ IF slept = 0 THEN UNCHANGED << xTickCount, xPendedTicks >>
         ELSE IF xTickCount + slept = xNextTaskUnblockTime
         THEN xTickCount' = xTickCount + slept - 1 /\ xPendedTicks' = xPendedTicks + 1
         ELSE xTickCount' = xTickCount + slept /\ UNCHANGED xPendedTicks
  BY DEF K!Wakes, K!Idles, K!lists, K!vTaskStepTick
<1>2. /\ xPendedTicks = 0 /\ slept \in Nat /\ MaxPended \in Nat /\ TickMod \in Nat
      /\ xTickCount \in 0..(TickMod - 1) /\ xNextTaskUnblockTime \in 0..(TickMod - 1)
      /\ slept <= xNextTaskUnblockTime - xTickCount
      /\ delayedUntil \in Untils /\ remaining \in [Worker -> Int]
  BY <1>1, NextToCome, ClockedAssumption, BlockTimeAssumption
     DEF BlockTimeAssumption, ClockedAssumption, TicklessInv, SleepKept, TicklessTypes, Ticks
<1>3. /\ xTickCount' + xPendedTicks' = xTickCount + slept
      /\ xTickCount' \in Ticks /\ xPendedTicks' \in 0..(MaxPended + 1)
      /\ xTickCount <= xTickCount'
      /\ xTickCount' = xTickCount \/ xTickCount' < xNextTaskUnblockTime
  BY <1>1, <1>2 DEF Ticks
<1>4. TicklessTypes'
  BY <1>1, <1>3 DEF TicklessInv, TicklessTypes, IdlePlaces
<1>5. OnTime(K!Kernel, remaining, xPendedTicks + slept)'
  <2>1. OnTime(K!Kernel, remaining, slept)
    BY <1>2 DEF TicklessInv
  <2>2. \A t \in Worker : delayedUntil[t].at \in Int /\ remaining[t] \in Int
    BY <1>2 DEF Untils, Ticks
  <2>3. \A t \in Worker :
          /\ delayedUntil[t].in = "current" => xTickCount' < delayedUntil[t].at
          /\ delayedUntil[t].in = "overflow" => delayedUntil[t].at < xTickCount'
    BY <1>2, <1>3, <2>1, <2>2, NextToCome DEF OnTime, K!Kernel, Ticks
  <2>4. ASSUME NEW t \in Worker, IsTimed(delayedUntil, t)
        PROVE  Distance(delayedUntil, xTickCount', t) = remaining[t] + xPendedTicks'
    <3>1. Distance(delayedUntil, xTickCount, t) = remaining[t] + slept
      BY <2>1, <2>4 DEF OnTime, K!Kernel
    <3>2. /\ xTickCount \in Int /\ xTickCount' \in Int /\ xPendedTicks' \in Int
          /\ delayedUntil[t].at \in Int /\ remaining[t] \in Int /\ TickMod \in Int
          /\ slept \in Int
      BY <1>2, <1>3, <2>2 DEF Ticks
    <3>3. xTickCount' + xPendedTicks' = xTickCount + slept
      BY <1>3
    <3>4. PICK old \in Int, new \in Int, over \in Int, rest \in Int, sum \in Int :
            /\ old = xTickCount /\ new = xTickCount' /\ over = xPendedTicks'
            /\ rest = remaining[t] /\ sum = slept
      BY <3>2
    <3>5. new + over = old + sum
      BY <3>3, <3>4
    <3>6. Carries(old, new, rest, over, sum)
      BY <3>5, SameSum
    <3> QED BY <3>1, <3>2, <3>4, <3>6 DEF Carries
  <2> DEFINE k == [count |-> xTickCount', until |-> delayedUntil,
                   next |-> xNextTaskUnblockTime]
  <2>5. OnTime(k, remaining, xPendedTicks')
    <3>1. /\ delayedUntil \in Untils /\ xNextTaskUnblockTime = K!NextUnblock(delayedUntil)
          /\ \A t \in Worker : delayedUntil[t].in = "none" => delayedUntil[t] = K!None
      BY <2>1 DEF OnTime, K!Kernel
    <3>2. /\ k.count = xTickCount' /\ k.until = delayedUntil
          /\ k.next = xNextTaskUnblockTime
      OBVIOUS
    <3> HIDE DEF k
    <3> QED BY <1>3, <2>3, <2>4, <3>1, <3>2 DEF OnTime
  <2>6. /\ k.count = xTickCount' /\ k.until = delayedUntil'
        /\ k.next = xNextTaskUnblockTime'
    BY <1>1
  <2>7. \A t \in Worker : remaining[t] + xPendedTicks' = remaining'[t] + (xPendedTicks' + slept')
    BY <1>1, <1>2, <1>3
  <2> HIDE DEF k
  <2> QED BY <2>5, <2>6, <2>7, InTimeAfter
<1>6. PlacesKept'
  BY <1>1 DEF TicklessInv, PlacesKept, K!Suspended, K!Blocked
<1>7. SleepKept'
  BY <1>1 DEF SleepKept
<1> QED BY <1>4, <1>5, <1>6, <1>7 DEF TicklessInv

\* The lists after a kernel's change, of which the tasks that left are ready.
LEMMA ReadyAfter ==
  ASSUME ready = Worker \ K!Blocked(delayedUntil), NEW k, K!Becomes(k),
         \A t \in Worker : k.until[t] = K!None \/ delayedUntil[t] # K!None
  PROVE  /\ xTickCount' = k.count /\ delayedUntil' = k.until
         /\ xNextTaskUnblockTime' = k.next
         /\ ready' = Worker \ K!Blocked(delayedUntil')
BY DEF K!Becomes, K!Blocked

\* The tick interrupt.
LEMMA TickStep ==
  ASSUME TicklessInv, K!xTaskIncrementTick
  PROVE  TicklessInv'
<1>1. /\ idlePc \notin {"asleep", "unlimited"}
      /\ remaining' = [t \in Worker |-> IF IsTimed(delayedUntil, t)
                                       THEN remaining[t] - 1 ELSE remaining[t]]
      /\ UNCHANGED << idlePc, xExpectedIdleTime, slept >>
      /\ slept = 0
  BY DEF K!xTaskIncrementTick, K!TimePasses, K!idle, IsTimed, TicklessInv, SleepKept
<1>2. /\ remaining \in [Worker -> Int] /\ remaining' \in [Worker -> Int]
      /\ xPendedTicks \in Int /\ xPendedTicks \in 0..(MaxPended + 1) /\ MaxPended \in Nat
      /\ OnTime(K!Kernel, remaining, xPendedTicks)
      /\ K!Kernel.until = delayedUntil
  BY <1>1, ClockedAssumption
     DEF ClockedAssumption, TicklessInv, TicklessTypes, K!Kernel
<1>3. CASE K!Suspended
  <2>1. /\ xPendedTicks < MaxPended /\ xPendedTicks' = xPendedTicks + 1
        /\ UNCHANGED << xTickCount, xNextTaskUnblockTime, ready, pended, delayedUntil,
                       idleRuns >>
    BY <1>3 DEF K!xTaskIncrementTick, K!lists
  <2>2. TicklessTypes'
    BY <1>1, <1>2, <2>1 DEF TicklessInv, TicklessTypes
  <2>3. OnTime(K!Kernel, remaining, xPendedTicks + slept)'
    <3>1. /\ K!Kernel.count = xTickCount' /\ K!Kernel.until = delayedUntil'
          /\ K!Kernel.next = xNextTaskUnblockTime'
      BY <2>1 DEF K!Kernel
    <3>2. \A t \in Worker : IsTimed(K!Kernel.until, t) =>
            remaining[t] + xPendedTicks = remaining'[t] + (xPendedTicks' + slept')
      BY <1>1, <1>2, <2>1
    <3> QED BY <1>2, <3>1, <3>2, InTimeAfter
  <2>4. PlacesKept'
    BY <1>1, <1>3, <2>1 DEF TicklessInv, PlacesKept, K!Suspended, K!Blocked
  <2>5. SleepKept'
    BY <1>1, <2>1 DEF TicklessInv, SleepKept
  <2> QED BY <2>2, <2>3, <2>4, <2>5 DEF TicklessInv
<1>4. CASE ~K!Suspended
  <2> DEFINE k == K!Ticked(K!Kernel)
  <2>1. K!Becomes(k) /\ UNCHANGED << pended, xPendedTicks >>
    BY <1>4 DEF K!xTaskIncrementTick
  <2>2. xPendedTicks = 0 /\ pended = {} /\ ready = Worker \ K!Blocked(delayedUntil)
    BY <1>4 DEF TicklessInv, PlacesKept
  <2>3. /\ OnTime(k, remaining, -1)
        /\ \A t \in Worker : k.until[t] = K!None
                            \/ /\ delayedUntil[t] # K!None
                               /\ IsTimed(k.until, t) <=> IsTimed(delayedUntil, t)
    BY <1>2, <2>2, TickedOnTime
  <2> HIDE DEF k
  <2>4. /\ k.count = xTickCount' /\ k.until = delayedUntil'
        /\ k.next = xNextTaskUnblockTime'
        /\ ready' = Worker \ K!Blocked(delayedUntil')
    BY <2>1, <2>2, <2>3, ReadyAfter
  <2>5. OnTime(K!Kernel, remaining, xPendedTicks + slept)'
    <3>1. \A t \in Worker : IsTimed(k.until, t) => IsTimed(delayedUntil, t)
      BY <2>3 DEF IsTimed, K!None
    <3>2. \A t \in Worker : IsTimed(k.until, t) =>
            remaining[t] + (-1) = remaining'[t] + (xPendedTicks' + slept')
      BY <1>1, <1>2, <2>1, <2>2, <3>1
    <3> QED BY <2>3, <2>4, <3>2, InTimeAfter
  <2>6. TicklessTypes'
    BY <1>1, <1>2, <2>1, <2>3, <2>4 DEF TicklessInv, TicklessTypes, OnTime
  <2>7. PlacesKept' /\ SleepKept'
    BY <1>1, <1>4, <2>1, <2>2, <2>4
       DEF TicklessInv, PlacesKept, SleepKept, K!Suspended
  <2> QED BY <2>5, <2>6, <2>7 DEF TicklessInv
<1> QED BY <1>3, <1>4

\* A kernel out of which tasks are taken, and which looks for its next wake time.
LEMMA ReadiedOnTime ==
  ASSUME NEW k, NEW togo, NEW late, OnTime(k, togo, late), NEW woken, NEW j,
         j.count = k.count, j.until = K!Readied(k.until, woken),
         \/ j.next = K!NextUnblock(j.until)
         \/ j.next = k.next /\ woken = {}
  PROVE  OnTime(j, togo, late)
<1>1. \A t \in Worker : j.until[t] = IF t \in woken THEN K!None ELSE k.until[t]
  BY DEF K!Readied
<1>2. K!None \in [in : Lists, at : Ticks] /\ K!None.in = "none"
  BY BlockTimeAssumption DEF BlockTimeAssumption, K!None, Lists, Ticks
<1>3. j.until \in Untils
  BY <1>1, <1>2 DEF K!Readied, OnTime, Untils
<1>4. j.next = K!NextUnblock(j.until)
  <2>1. woken = {} => j.until = k.until
    BY DEF K!Readied, OnTime, Untils
  <2> QED BY <2>1 DEF OnTime
<1> QED BY <1>1, <1>2, <1>3, <1>4 DEF OnTime, IsTimed, Distance

\* xTaskResumeAll: what was pended is caught up with.
LEMMA ResumeStep ==
  ASSUME TicklessInv, K!xTaskResumeAll
  PROVE  TicklessInv'
<1> DEFINE moved == [K!Kernel EXCEPT !.until = K!Readied(delayedUntil, pended)]
           reset == [moved EXCEPT !.next = IF pended = {} THEN @
                                           ELSE K!NextUnblock(moved.until)]
           after == CHOOSE g : g = [n \in 0 .. MaxPended + 1 |->
                                      IF n = 0 THEN reset ELSE K!Ticked(g[n - 1])]
<1>1. /\ idlePc = "awake" /\ K!Becomes(after[xPendedTicks])
      /\ pended' = {} /\ xPendedTicks' = 0 /\ idlePc' = "loop"
      /\ UNCHANGED << remaining, slept >>
  BY DEF K!xTaskResumeAll, K!Idles
<1>2. /\ OnTime(K!Kernel, remaining, xPendedTicks) /\ slept = 0
      /\ xPendedTicks \in 0..(MaxPended + 1) /\ remaining \in [Worker -> Int]
      /\ K!Kernel.until = delayedUntil /\ K!Kernel.count = xTickCount
      /\ delayedUntil \in Untils /\ xTickCount \in Ticks
      /\ ready = Worker \ K!Blocked(delayedUntil)
  <2>1. slept = 0
    BY <1>1 DEF TicklessInv, SleepKept
  <2>2. xPendedTicks + slept = xPendedTicks
    BY <2>1 DEF TicklessInv, TicklessTypes
  <2> QED BY <2>1, <2>2 DEF TicklessInv, TicklessTypes, PlacesKept, K!Kernel
<1>3. /\ reset.count = xTickCount /\ reset.until = K!Readied(delayedUntil, pended)
      /\ \/ reset.next = K!NextUnblock(reset.until)
         \/ reset.next = K!Kernel.next /\ pended = {}
      /\ reset = [count |-> reset.count, until |-> reset.until, next |-> reset.next]
  <2>1. moved = [count |-> xTickCount, until |-> K!Readied(delayedUntil, pended),
                 next |-> xNextTaskUnblockTime]
    BY DEF K!Kernel
  <2> HIDE DEF moved
  <2>2. reset = [count |-> xTickCount, until |-> K!Readied(delayedUntil, pended),
                 next |-> IF pended = {} THEN xNextTaskUnblockTime
                          ELSE K!NextUnblock(K!Readied(delayedUntil, pended))]
    BY <2>1
  <2>3. K!Kernel.next = xNextTaskUnblockTime
    BY DEF K!Kernel
  <2> HIDE DEF reset
  <2> QED BY <2>2, <2>3
<1> HIDE DEF reset, moved
<1>4. OnTime(reset, remaining, xPendedTicks)
  BY <1>2, <1>3, ReadiedOnTime
<1>5. reset \in Kernels
  <2>1. reset.count \in Ticks /\ reset.until \in Untils /\ reset.next \in Ticks
    BY <1>4, FirstWake DEF OnTime
  <2> QED BY <1>3, <2>1 DEF Kernels
<1>6. /\ OnTime(after[xPendedTicks], remaining, 0)
      /\ \A t \in Worker : after[xPendedTicks].until[t] = K!None \/ reset.until[t] # K!None
  <2>1. after = CHOOSE g : g = [n \in 0 .. MaxPended + 1 |->
                                  IF n = 0 THEN reset ELSE K!Ticked(g[n - 1])]
    OBVIOUS
  <2> HIDE DEF after
  <2> QED BY <1>2, <1>4, <1>5, <2>1, ResumedOnTime
<1> DEFINE k == after[xPendedTicks]
<1>7. K!Becomes(k) /\ OnTime(k, remaining, 0)
  BY <1>1, <1>6
<1>8. \A t \in Worker : k.until[t] = K!None \/ delayedUntil[t] # K!None
  BY <1>3, <1>6 DEF K!Readied
<1> HIDE DEF k, after
<1>9. /\ xTickCount' = k.count /\ delayedUntil' = k.until
      /\ xNextTaskUnblockTime' = k.next
      /\ ready' = Worker \ K!Blocked(delayedUntil')
  BY <1>2, <1>7, <1>8, ReadyAfter
<1>10. OnTime(K!Kernel, remaining, xPendedTicks + slept)'
  <2>1. \A t \in Worker : remaining[t] + 0 = remaining'[t] + (xPendedTicks' + slept')
    BY <1>1, <1>2
  <2> QED BY <1>7, <1>9, <2>1, InTimeAfter
<1>11. TicklessTypes'
  BY <1>1, <1>2, <1>7, <1>9, ClockedAssumption
     DEF ClockedAssumption, TicklessInv, TicklessTypes, OnTime, IdlePlaces
<1>12. PlacesKept' /\ SleepKept'
  BY <1>1, <1>2, <1>9 DEF PlacesKept, SleepKept, K!Suspended
<1> QED BY <1>10, <1>11, <1>12 DEF TicklessInv

\* An interrupt readies a task.
LEMMA RemoveStep ==
  ASSUME TicklessInv, NEW t \in Worker, K!xTaskRemoveFromEventList(t)
  PROVE  TicklessInv'
<1>1. /\ t \in K!Blocked(delayedUntil) /\ idlePc \notin {"asleep", "unlimited"}
      /\ UNCHANGED << xTickCount, xPendedTicks, remaining, idleRuns, idlePc,
                     xExpectedIdleTime, slept >>
  BY DEF K!xTaskRemoveFromEventList, K!idle
<1>2. OnTime(K!Kernel, remaining, xPendedTicks + slept)
  BY DEF TicklessInv
<1>3. CASE K!Suspended
  <2>1. /\ pended' = pended \cup {t}
        /\ UNCHANGED << ready, delayedUntil, xNextTaskUnblockTime >>
    BY <1>3 DEF K!xTaskRemoveFromEventList
  <2>2. OnTime(K!Kernel, remaining, xPendedTicks + slept)'
    <3>1. /\ K!Kernel.count = xTickCount' /\ K!Kernel.until = delayedUntil'
          /\ K!Kernel.next = xNextTaskUnblockTime'
      BY <1>1, <2>1 DEF K!Kernel
    <3> QED BY <1>1, <1>2, <3>1, InTimeAfter
  <2>3. TicklessTypes'
    BY <1>1, <2>1 DEF TicklessInv, TicklessTypes
  <2>4. PlacesKept'
    BY <1>1, <1>3, <2>1 DEF TicklessInv, PlacesKept, K!Suspended, K!Blocked
  <2>5. SleepKept'
    BY <1>1, <2>1 DEF TicklessInv, SleepKept
  <2> QED BY <2>2, <2>3, <2>4, <2>5 DEF TicklessInv
<1>4. CASE ~K!Suspended
  <2>1. /\ ready' = ready \cup {t} /\ delayedUntil' = K!Readied(delayedUntil, {t})
        /\ xNextTaskUnblockTime' = K!NextUnblock(delayedUntil')
        /\ pended' = pended
    BY <1>4 DEF K!xTaskRemoveFromEventList
  <2> DEFINE j == [count |-> xTickCount, until |-> K!Readied(delayedUntil, {t}),
                   next |-> K!NextUnblock(K!Readied(delayedUntil, {t}))]
  <2>2. OnTime(j, remaining, xPendedTicks + slept)
    <3>1. j.count = K!Kernel.count /\ j.until = K!Readied(K!Kernel.until, {t})
          /\ j.next = K!NextUnblock(j.until)
      BY DEF K!Kernel
    <3> HIDE DEF j
    <3> QED BY <1>2, <3>1, ReadiedOnTime
  <2>3. j.count = xTickCount' /\ j.until = delayedUntil' /\ j.next = xNextTaskUnblockTime'
    BY <1>1, <2>1
  <2> HIDE DEF j
  <2>4. OnTime(K!Kernel, remaining, xPendedTicks + slept)'
    BY <1>1, <2>2, <2>3, InTimeAfter
  <2>5. TicklessTypes'
    BY <1>1, <2>2, <2>3 DEF TicklessInv, TicklessTypes, OnTime
  <2>6. ready' = Worker \ K!Blocked(delayedUntil') /\ pended' = {}
    BY <1>1, <1>4, <2>1 DEF TicklessInv, PlacesKept, K!Blocked, K!Readied
  <2>7. PlacesKept' /\ SleepKept'
    BY <1>1, <1>4, <2>1, <2>6
       DEF TicklessInv, PlacesKept, SleepKept, K!Suspended
  <2> QED BY <2>4, <2>5, <2>7 DEF TicklessInv
<1> QED BY <1>3, <1>4

\* A step on the lists of a scheduler that runs.
LEMMA SwitchStep ==
  ASSUME TicklessInv, K!vTaskSwitchContext
  PROVE  TicklessInv'
<1>1. /\ UNCHANGED << xTickCount, xNextTaskUnblockTime, xPendedTicks, remaining, ready, pended,
                     delayedUntil, idlePc, xExpectedIdleTime, slept >>
      /\ ~K!Suspended
  BY DEF K!vTaskSwitchContext, K!clock, K!lists, K!idle
<1>2. OnTime(K!Kernel, remaining, xPendedTicks + slept)'
  <2>1. /\ K!Kernel.count = xTickCount' /\ K!Kernel.until = delayedUntil'
        /\ K!Kernel.next = xNextTaskUnblockTime'
    BY <1>1 DEF K!Kernel
  <2> QED BY <1>1, <2>1, InTimeAfter DEF TicklessInv
<1>3. TicklessTypes' /\ PlacesKept' /\ SleepKept'
  BY <1>1 DEF TicklessInv, TicklessTypes, PlacesKept, SleepKept, K!Suspended, K!Blocked
<1> QED BY <1>2, <1>3 DEF TicklessInv

\* A task enters a list, and the others stay where they are.
Enters(old, new, t, where, at) ==
  \A u \in Worker : new[u] = IF u = t THEN [in |-> where, at |-> at] ELSE old[u]

\* A task that blocks leaves the ready list for another.
LEMMA BlocksPlaces ==
  ASSUME TicklessInv, NEW t \in Worker, NEW where \in Lists \ {"none"}, NEW at \in Ticks,
         K!Blocks(t, where, at)
  PROVE  /\ UNCHANGED << xTickCount, xPendedTicks, pended, idlePc, xExpectedIdleTime, slept >>
         /\ xPendedTicks = 0 /\ slept = 0 /\ ~K!Suspended
         /\ delayedUntil[t] = K!None
         /\ delayedUntil' \in Untils
         /\ Enters(delayedUntil, delayedUntil', t, where, at)
         /\ PlacesKept' /\ SleepKept'
<1>1. /\ UNCHANGED << xTickCount, xPendedTicks, pended, idlePc, xExpectedIdleTime, slept >>
      /\ ~idleRuns /\ t \in ready /\ ready' = ready \ {t}
      /\ delayedUntil' = [delayedUntil EXCEPT ![t] = [in |-> where, at |-> at]]
  BY DEF K!Blocks, K!idle
<1>2. ~K!Suspended /\ ready = Worker \ K!Blocked(delayedUntil) /\ delayedUntil \in Untils
  BY <1>1 DEF TicklessInv, TicklessTypes, PlacesKept, K!Suspended
<1>3. xPendedTicks = 0 /\ slept = 0 /\ delayedUntil[t] = K!None /\ pended = {}
  BY <1>1, <1>2 DEF TicklessInv, PlacesKept, SleepKept, K!Suspended, K!Blocked
<1>4. [in |-> where, at |-> at] \in [in : Lists, at : Ticks]
  OBVIOUS
<1>5. /\ delayedUntil' \in Untils
      /\ Enters(delayedUntil, delayedUntil', t, where, at)
  BY <1>1, <1>2, <1>4 DEF Untils, Enters
<1>6. K!Blocked(delayedUntil') = K!Blocked(delayedUntil) \cup {t}
  BY <1>5 DEF Enters, K!Blocked, K!None
<1>7. PlacesKept' /\ SleepKept'
  BY <1>1, <1>2, <1>3, <1>6 DEF TicklessInv, PlacesKept, SleepKept, K!Suspended
<1> QED BY <1>1, <1>2, <1>3, <1>5, <1>7


\* The first wake time, with a task more.
LEMMA EntersNext ==
  ASSUME NEW old \in Untils, NEW new \in Untils, NEW t \in Worker, NEW where, NEW at \in Ticks,
         old[t] = K!None,
         Enters(old, new, t, where, at)
  PROVE  K!NextUnblock(new) = IF where = "current" /\ at < K!NextUnblock(old)
                              THEN at ELSE K!NextUnblock(old)
<1>1. /\ TickMod \in Nat /\ at \in 0..(TickMod - 1)
      /\ \A u \in Worker : old[u].at \in 0..(TickMod - 1) /\ new[u].at \in 0..(TickMod - 1)
      /\ old[t].in = "none" /\ new[t].in = where /\ new[t].at = at
      /\ \A u \in Worker \ {t} : new[u] = old[u]
  BY BlockTimeAssumption DEF BlockTimeAssumption, Enters, Untils, Ticks, K!None
<1>2. \E n \in 0..(TickMod - 1) : n = K!NextUnblock(old)
  BY FirstWake DEF Ticks
<1>3. \E m \in 0..(TickMod - 1) : m = K!NextUnblock(new)
  BY FirstWake DEF Ticks
<1>4. PICK n \in 0..(TickMod - 1) : n = K!NextUnblock(old)
  BY <1>2
<1>5. PICK m \in 0..(TickMod - 1) : m = K!NextUnblock(new)
  BY <1>3
<1>6. /\ \A u \in Worker : old[u].in = "current" => n <= old[u].at
      /\ \/ n = TickMod - 1
         \/ \E u \in Worker : old[u].in = "current" /\ old[u].at = n
  BY <1>4, FirstWake
<1>7. /\ \A u \in Worker : new[u].in = "current" => m <= new[u].at
      /\ \/ m = TickMod - 1
         \/ \E u \in Worker : new[u].in = "current" /\ new[u].at = m
  BY <1>5, FirstWake
<1>8. m = IF where = "current" /\ at < n THEN at ELSE n
  <2>1. where = "current" => m <= at
    BY <1>1, <1>7
  <2>2. m <= n
    <3>1. CASE n = TickMod - 1
      BY <1>1, <3>1
    <3>2. CASE \E u \in Worker : old[u].in = "current" /\ old[u].at = n
      BY <1>1, <1>7, <3>2
    <3> QED BY <1>6, <3>1, <3>2
  <2>3. \/ m = TickMod - 1
        \/ where = "current" /\ m = at
        \/ n <= m
    BY <1>1, <1>6, <1>7
  <2> QED BY <1>1, <2>1, <2>2, <2>3
<1> QED BY <1>4, <1>5, <1>8

\* Where vTaskDelay puts a task: after the count, or after its wrap.
LEMMA DelayPlaces ==
  ASSUME NEW d \in 1..(TickMod - 1), xTickCount \in Ticks
  PROVE  LET at == K!Mod(xTickCount + d)
         IN /\ at \in Ticks /\ at # xTickCount
            /\ at < xTickCount => at + TickMod - xTickCount = d
            /\ ~(at < xTickCount) => xTickCount < at /\ at - xTickCount = d
<1>1. TickMod \in Nat /\ TickMod >= 3 /\ xTickCount \in 0..(TickMod - 1)
  BY BlockTimeAssumption DEF BlockTimeAssumption, Ticks
<1> DEFINE at == Mod(xTickCount + d)
<1>2. /\ xTickCount + d < TickMod => at = xTickCount + d
      /\ TickMod <= xTickCount + d => at = xTickCount + d - TickMod
  BY <1>1, Turns
<1>3. K!Mod(xTickCount + d) = at
  BY DEF K!Mod, Mod
<1> HIDE DEF at
<1> QED BY <1>1, <1>2, <1>3 DEF Ticks

\* vTaskDelay: a task enters the list its wake time is for.
LEMMA DelayStep ==
  ASSUME TicklessInv, NEW t \in Worker, NEW d \in Delays, K!vTaskDelay(t, d)
  PROVE  TicklessInv'
<1> DEFINE at == K!Mod(xTickCount + d)
           where == IF at < xTickCount THEN "overflow" ELSE "current"
<1>1. /\ K!Blocks(t, where, at)
      /\ xNextTaskUnblockTime' = IF where = "current" /\ at < xNextTaskUnblockTime
                                 THEN at ELSE xNextTaskUnblockTime
      /\ remaining' = [remaining EXCEPT ![t] = d]
  BY DEF K!vTaskDelay
<1>2. xTickCount \in Ticks /\ d \in 1..(TickMod - 1) /\ remaining \in [Worker -> Int]
  BY ClockedAssumption DEF ClockedAssumption, TicklessInv, TicklessTypes
<1>3. /\ at \in Ticks /\ at # xTickCount
      /\ at < xTickCount => at + TickMod - xTickCount = d
      /\ ~(at < xTickCount) => xTickCount < at /\ at - xTickCount = d
  BY <1>2, DelayPlaces
<1>4. /\ where \in Lists \ {"none"} /\ where \in {"current", "overflow"}
      /\ where = "current" <=> ~(at < xTickCount)
  BY DEF Lists
<1> HIDE DEF where, at
<1>5. /\ UNCHANGED << xTickCount, xPendedTicks, pended, idlePc, xExpectedIdleTime, slept >>
      /\ xPendedTicks = 0 /\ slept = 0
      /\ delayedUntil[t] = K!None
      /\ delayedUntil' \in Untils
      /\ Enters(delayedUntil, delayedUntil', t, where, at)
      /\ PlacesKept' /\ SleepKept'
  BY <1>1, <1>3, <1>4, BlocksPlaces
<1>6. OnTime(K!Kernel, remaining, 0)
  <2>1. xPendedTicks + slept = 0
    BY <1>5
  <2> QED BY <2>1 DEF TicklessInv
<1>7. xNextTaskUnblockTime' = K!NextUnblock(delayedUntil')
  <2>1. delayedUntil \in Untils /\ xNextTaskUnblockTime = K!NextUnblock(delayedUntil)
    BY <1>6 DEF OnTime, K!Kernel
  <2> QED BY <1>1, <1>3, <1>5, <2>1, EntersNext
<1> DEFINE k == [count |-> xTickCount, until |-> delayedUntil',
                 next |-> xNextTaskUnblockTime']
<1>8. OnTime(k, remaining', 0)
  <2>1. k.count = xTickCount /\ k.until = delayedUntil' /\ k.next = xNextTaskUnblockTime'
    OBVIOUS
  <2> HIDE DEF k
  <2>2. \A u \in Worker : u # t => remaining'[u] = remaining[u]
    BY <1>1, <1>2
  <2>3. remaining'[t] = d
    BY <1>1, <1>2
  <2>4. ASSUME NEW u \in Worker
        PROVE  /\ k.until[u].in = "none" => k.until[u] = K!None
               /\ k.until[u].in = "current" => k.count < k.until[u].at
               /\ k.until[u].in = "overflow" => k.until[u].at < k.count
               /\ IsTimed(k.until, u) => Distance(k.until, k.count, u) = remaining'[u] + 0
    <3>1. CASE u = t
      <4>1. k.until[u].in = where /\ k.until[u].at = at
        BY <1>5, <2>1, <3>1 DEF Enters
      <4>2. Distance(k.until, k.count, u) = IF where = "current" THEN at - xTickCount
                                            ELSE at + TickMod - xTickCount
        BY <2>1, <4>1 DEF Distance
      <4>3. at \in Int /\ xTickCount \in Int /\ d \in Int
        BY <1>2, <1>3 DEF Ticks
      <4> QED BY <1>3, <1>4, <2>1, <2>3, <3>1, <4>1, <4>2, <4>3
    <3>2. CASE u # t
      BY <1>5, <1>6, <2>1, <2>2, <3>2 DEF Enters, OnTime, K!Kernel, IsTimed, Distance
    <3> QED BY <3>1, <3>2
  <2> QED BY <1>2, <1>5, <1>7, <2>1, <2>4 DEF OnTime
<1>9. OnTime(K!Kernel, remaining, xPendedTicks + slept)'
  <2>1. k.count = xTickCount' /\ k.until = delayedUntil' /\ k.next = xNextTaskUnblockTime'
    BY <1>5
  <2> HIDE DEF k
  <2>2. \A u \in Worker : remaining'[u] + 0 = remaining'[u] + (xPendedTicks' + slept')
    BY <1>5
  <2> QED BY <1>8, <2>1, <2>2, InTimeAfter
<1>10. TicklessTypes'
  BY <1>1, <1>2, <1>5 DEF TicklessInv, TicklessTypes
<1> QED BY <1>5, <1>9, <1>10 DEF TicklessInv

\* A task waits without a time.
LEMMA ForeverStep ==
  ASSUME TicklessInv, NEW t \in Worker, K!WaitsForever(t)
  PROVE  TicklessInv'
<1>1. /\ K!Blocks(t, "suspended", 0)
      /\ UNCHANGED << xNextTaskUnblockTime, remaining >>
  BY DEF K!WaitsForever
<1>2. "suspended" \in Lists \ {"none"} /\ 0 \in Ticks
  BY BlockTimeAssumption DEF BlockTimeAssumption, Lists, Ticks
<1>3. /\ UNCHANGED << xTickCount, xPendedTicks, pended, idlePc, xExpectedIdleTime, slept >>
      /\ xPendedTicks = 0 /\ slept = 0
      /\ delayedUntil[t] = K!None
      /\ delayedUntil' \in Untils
      /\ Enters(delayedUntil, delayedUntil', t, "suspended", 0)
      /\ PlacesKept' /\ SleepKept'
  BY <1>1, <1>2, BlocksPlaces
<1>4. OnTime(K!Kernel, remaining, xPendedTicks + slept)
  BY DEF TicklessInv
<1>5. xNextTaskUnblockTime' = K!NextUnblock(delayedUntil')
  <2>1. delayedUntil \in Untils /\ xNextTaskUnblockTime = K!NextUnblock(delayedUntil)
    BY <1>4 DEF OnTime, K!Kernel
  <2> QED BY <1>1, <1>2, <1>3, <2>1, EntersNext
<1> DEFINE k == [count |-> xTickCount, until |-> delayedUntil',
                 next |-> xNextTaskUnblockTime]
<1>6. k.count = xTickCount /\ k.until = delayedUntil' /\ k.next = xNextTaskUnblockTime
  OBVIOUS
<1> HIDE DEF k
<1>7. OnTime(k, remaining, xPendedTicks + slept)
  <2>1. ASSUME NEW u \in Worker
        PROVE  /\ k.until[u].in = "none" => k.until[u] = K!None
               /\ k.until[u].in = "current" => k.count < k.until[u].at
               /\ k.until[u].in = "overflow" => k.until[u].at < k.count
               /\ IsTimed(k.until, u) =>
                    Distance(k.until, k.count, u) = remaining[u] + (xPendedTicks + slept)
    <3>1. CASE u = t
      BY <1>3, <1>6, <3>1 DEF Enters, IsTimed
    <3>2. CASE u # t
      BY <1>3, <1>4, <1>6, <3>2 DEF Enters, OnTime, K!Kernel, IsTimed, Distance
    <3> QED BY <3>1, <3>2
  <2> QED BY <1>1, <1>3, <1>4, <1>5, <1>6, <2>1 DEF OnTime, K!Kernel
<1>8. OnTime(K!Kernel, remaining, xPendedTicks + slept)'
  <2>1. /\ k.count = xTickCount' /\ k.until = delayedUntil'
        /\ k.next = xNextTaskUnblockTime'
    BY <1>1, <1>3, <1>6
  <2> QED BY <1>1, <1>3, <1>7, <2>1, InTimeAfter
<1>9. TicklessTypes'
  BY <1>1, <1>3 DEF TicklessInv, TicklessTypes
<1> QED BY <1>3, <1>8, <1>9 DEF TicklessInv

\* A step of another part.
LEMMA TicklessStutters ==
  ASSUME TicklessInv, UNCHANGED K!vars
  PROVE  TicklessInv'
<1>1. UNCHANGED << xTickCount, xNextTaskUnblockTime, xPendedTicks, remaining, ready, pended,
                  delayedUntil, idleRuns, idlePc, xExpectedIdleTime, slept >>
  BY DEF K!vars, K!clock, K!lists, K!idle
<1>2. OnTime(K!Kernel, remaining, xPendedTicks + slept)'
  <2>1. /\ K!Kernel.count = xTickCount' /\ K!Kernel.until = delayedUntil'
        /\ K!Kernel.next = xNextTaskUnblockTime'
    BY <1>1 DEF K!Kernel
  <2> QED BY <1>1, <2>1, InTimeAfter DEF TicklessInv
<1>3. TicklessTypes' /\ PlacesKept' /\ SleepKept'
  BY <1>1 DEF TicklessInv, TicklessTypes, PlacesKept, SleepKept, K!Suspended, K!Blocked
<1> QED BY <1>2, <1>3 DEF TicklessInv

\* Nobody oversleeps while the ticks are stopped.
THEOREM SleepersWake == ClockedSpec => []NoneOversleeps
<1>1. ClockedInit => (part = "Tickless" => TicklessInv)
  <2> SUFFICES ASSUME ClockedInit, part = "Tickless" PROVE K!Init
    BY TicklessStart
  <2> QED BY DEF ClockedInit
<1>2. ASSUME part = "Tickless" => TicklessInv, [ClockedNext]_clockedVars
      PROVE  (part = "Tickless" => TicklessInv)'
  <2> SUFFICES ASSUME part' = "Tickless" PROVE TicklessInv'
    OBVIOUS
  <2>1. part = "Tickless" /\ (K!Next \/ UNCHANGED K!vars)
    <3>1. CASE ClockedNext
      BY <3>1 DEF ClockedNext, shared, ofTickless, K!vars, K!clock, K!lists, K!idle
    <3>2. CASE UNCHANGED clockedVars
      BY <3>2 DEF clockedVars, vars, clock, ofTickless, K!vars, K!clock, K!lists, K!idle
    <3> QED BY <1>2, <3>1, <3>2
  <2>2. CASE K!Next
    BY <1>2, <2>1, <2>2, SwitchStep, TickStep, RemoveStep, ForeverStep, DelayStep, IdleGoesOn,
       SleepsStep, WakesStep, ResumeStep
       DEF K!Next
  <2>3. CASE UNCHANGED K!vars
    BY <1>2, <2>1, <2>3, TicklessStutters
  <2> QED BY <2>1, <2>2, <2>3
<1>3. (part = "Tickless" => TicklessInv) => NoneOversleeps
  BY TicklessInvSound DEF NoneOversleeps
<1> QED BY <1>1, <1>2, <1>3, PTL DEF ClockedSpec, clockedVars
-----------------------------------------------------------------------------
(* Objects.                                                                 *)

Handle == O!Task \cup O!Object
Actor == O!Task \cup {"main"}

Places == {"app", "TCB", "add", "free", "deleted", "timer", "register", "freeObject"}
InHand == [at : Places, of : Handle \cup {NoTask}, entry : O!Entry \cup {0}]

ObjectTypes ==
  /\ heap \subseteq (O!Task \X {"stack", "TCB"}) \cup (O!Object \X {"object"})
  /\ statically \in [Handle -> {"none", "stack", "all"}]
  /\ uxPriority \in [O!Task -> Nat]
  /\ listed \subseteq O!Task /\ IsFiniteSet(listed)
  /\ xTasksWaitingTermination \in Seq(Worker)
  /\ uxCurrentNumberOfTasks \in Int
  /\ xSchedulerRunning \in BOOLEAN /\ timerQueueCreated \in BOOLEAN
  /\ objects \subseteq O!Object
  /\ xQueueRegistry \in [O!Entry -> Queues \cup {"none", "TmrQ"}]
  /\ ownPc \in [Actor -> InHand]

Once(s) == \A i, j \in 1 .. Len(s) : s[i] = s[j] => i = j

Waiting == O!ToSet(xTasksWaitingTermination)

\* Who deleted itself is in xTasksWaitingTermination, once.
WaitingKept ==
  /\ Once(xTasksWaitingTermination) /\ IsFiniteSet(Waiting)
  /\ Waiting \cap listed = {}

\* Who may act: before the scheduler runs, main() alone.
ActorsKept ==
  /\ \A t \in O!Task : (t \in Waiting) <=> (ownPc[t].at = "deleted")
  /\ \A t \in O!Task : t \notin O!Existing => ownPc[t].at = "app"
  /\ ownPc["main"].at # "deleted"
  /\ xSchedulerRunning =>
       /\ ownPc["main"].at = "app" /\ {"IDLE", "Tmr Svc"} \subseteq listed
       /\ pxCurrentTCB \in O!Existing
  /\ ~xSchedulerRunning =>
       /\ {"IDLE", "Tmr Svc"} \cap listed = {} /\ Waiting = {}
       /\ \A t \in O!Task : ownPc[t].at = "app"
       /\ pxCurrentTCB \in listed \cup {NoTask}
       /\ pxCurrentTCB = NoTask => listed = {}
       /\ \A t \in listed : uxPriority[t] <= uxPriority[pxCurrentTCB]

\* What a call has in its hands.
HandRight(a) ==
  /\ ownPc[a].at \in {"app", "deleted"} <=> ownPc[a].of = NoTask
  /\ ownPc[a].at \in {"TCB", "add", "free"} =>
       ownPc[a].of \in Worker /\ ownPc[a].of \notin O!Existing
  /\ ownPc[a].at = "TCB" => statically[ownPc[a].of] = "none"
  /\ ownPc[a].at = "timer" => ownPc[a].of \in Timers \ objects
  /\ ownPc[a].at = "freeObject" => ownPc[a].of \in O!Object \ objects
  /\ ownPc[a].at = "register" =>
       /\ ownPc[a].of \in Queues \cap objects
       /\ ownPc[a].entry \in O!Entry
       /\ \A i \in O!Entry : xQueueRegistry[i] = ownPc[a].of => i = ownPc[a].entry

HandsKept == \A a \in Actor : HandRight(a)

\* It is in nobody else's.
OneHolder ==
  \A a, b \in Actor : ownPc[a].of = ownPc[b].of /\ ownPc[a].of # NoTask => a = b

IsHeld(h, places) == \E a \in Actor : ownPc[a].of = h /\ ownPc[a].at \in places

\* Each part of the memory belongs to what there is or what is being made or freed.
StackKept(t) ==
  (<< t, "stack" >> \in heap) <=>
    (statically[t] = "none" /\ (t \in O!Existing \/ IsHeld(t, {"TCB", "add", "free"})))
TCBKept(t) ==
  (<< t, "TCB" >> \in heap) <=>
    (statically[t] # "all" /\ (t \in O!Existing \/ IsHeld(t, {"add", "free"})))
ObjectKept(o) ==
  (<< o, "object" >> \in heap) <=>
    (statically[o] = "none" /\ (o \in objects \/ IsHeld(o, {"timer", "freeObject"})))

PartsKept ==
  /\ \A t \in O!Task : StackKept(t) /\ TCBKept(t)
  /\ \A o \in O!Object : ObjectKept(o)

RegistryKept ==
  /\ O!RegistryCurrent
  /\ ~timerQueueCreated => \A i \in O!Entry : xQueueRegistry[i] # "TmrQ"

ObjectsInv ==
  /\ ObjectTypes /\ WaitingKept /\ ActorsKept /\ HandsKept /\ OneHolder /\ PartsKept
  /\ RegistryKept /\ O!CountsAgree

\* The handles are different.
LEMMA HandlesDiffer ==
  /\ NoTask \notin Handle /\ O!Task \cap O!Object = {} /\ "main" \notin O!Task
  /\ Queues \cap Timers = {} /\ Queues \cap EventGroups = {} /\ Timers \cap EventGroups = {}
  /\ "TmrQ" \notin Queues /\ "none" \notin Queues
  /\ 0 \notin O!Entry /\ O!Entry \subseteq Nat
  /\ {"IDLE", "Tmr Svc"} \cap Worker = {} /\ Worker \subseteq O!Task
  /\ Worker \subseteq Handle /\ O!Object \subseteq Handle /\ O!Task \subseteq Actor
<1>1. /\ Worker \cap {NoTask, "main", "IDLE", "Tmr Svc"} = {}
      /\ NoTask \notin {"main", "IDLE", "Tmr Svc"}
      /\ O!Object \cap (Worker \cup {NoTask, "IDLE", "Tmr Svc", "TmrQ", "none"}) = {}
      /\ Queues \cap Timers = {} /\ Queues \cap EventGroups = {} /\ Timers \cap EventGroups = {}
  BY HandlesApart DEF HandlesApart, O!Object
<1>2. O!Task \cap O!Object = {} /\ "main" \notin O!Task /\ NoTask \notin Handle
  BY <1>1 DEF O!Task, Handle
<1>3. "TmrQ" \notin Queues /\ "none" \notin Queues
  BY <1>1 DEF O!Object
<1>4. 0 \notin O!Entry /\ O!Entry \subseteq Nat
  <2>1. configQUEUE_REGISTRY_SIZE \in Nat
    BY HandlesApart DEF HandlesApart
  <2> QED BY <2>1 DEF O!Entry
<1> QED BY <1>1, <1>2, <1>3, <1>4 DEF Handle, O!Task, Actor

\* One who acts takes a handle that nobody has, keeps the one he has, or gives it away.
LEMMA HandsMove ==
  ASSUME ownPc \in [Actor -> InHand], OneHolder,
         NEW a \in Actor, NEW h \in Handle \cup {NoTask}, NEW at \in Places,
         NEW e \in O!Entry \cup {0},
         ownPc' = [ownPc EXCEPT ![a] = [at |-> at, of |-> h, entry |-> e]],
         h = NoTask \/ h = ownPc[a].of \/ ~O!InUse(h)
  PROVE  /\ ownPc' \in [Actor -> InHand]
         /\ ownPc'[a].at = at /\ ownPc'[a].of = h /\ ownPc'[a].entry = e
         /\ \A b \in Actor : b # a => ownPc'[b] = ownPc[b]
         /\ OneHolder'
         /\ \A g \in Handle : \A places :
              IsHeld(g, places)' <=>
                \/ g = h /\ at \in places
                \/ g # h /\ g # ownPc[a].of /\ IsHeld(g, places)
<1> DEFINE r == [at |-> at, of |-> h, entry |-> e]
<1>1. r \in InHand /\ r.at = at /\ r.of = h /\ r.entry = e
  BY DEF InHand
<1> HIDE DEF r
<1>2. ownPc' = [ownPc EXCEPT ![a] = r]
  BY DEF r
<1>3. ownPc' \in [Actor -> InHand] /\ ownPc'[a] = r /\ \A b \in Actor : b # a => ownPc'[b] = ownPc[b]
  BY <1>1, <1>2
<1>4. \A b \in Actor : b # a => ownPc[b].of # h \/ h = NoTask
  BY DEF O!InUse, OneHolder
<1>5. OneHolder'
  BY <1>1, <1>3, <1>4 DEF OneHolder
<1>6. ASSUME NEW g \in Handle, NEW places
      PROVE  IsHeld(g, places)' <=>
               \/ g = h /\ at \in places
               \/ g # h /\ g # ownPc[a].of /\ IsHeld(g, places)
  <2>1. g # NoTask
    BY HandlesDiffer
  <2>3. CASE g = h
    BY <1>1, <1>3, <1>4, <2>1, <2>3 DEF IsHeld
  <2>4. CASE g # h
    BY <1>1, <1>3, <2>1, <2>4 DEF IsHeld, OneHolder
  <2> QED BY <2>3, <2>4
<1> QED BY <1>1, <1>3, <1>5, <1>6

\* What one has in his hands is where he is.
LEMMA HeldThere ==
  ASSUME OneHolder, NEW a \in Actor, NEW h \in Handle, h = ownPc[a].of
  PROVE  \A places : IsHeld(h, places) <=> ownPc[a].at \in places
  BY HandlesDiffer DEF OneHolder, IsHeld

\* What nobody has in his hands.
LEMMA NotHeld ==
  ASSUME ownPc \in [Actor -> InHand], NEW h, ~O!InUse(h), NEW places
  PROVE  ~IsHeld(h, places)
  BY DEF O!InUse, IsHeld

\* Who deletes itself waits last.
LEMMA WaitsLast ==
  ASSUME NEW s \in Seq(Worker), NEW a \in Worker, Once(s), a \notin O!ToSet(s)
  PROVE  /\ Append(s, a) \in Seq(Worker) /\ Len(Append(s, a)) = Len(s) + 1
         /\ O!ToSet(Append(s, a)) = O!ToSet(s) \cup {a}
         /\ Once(Append(s, a))
<1> DEFINE n == Len(s)
           r == Append(s, a)
<1>1. /\ n \in Nat /\ DOMAIN s = 1..n /\ r \in Seq(Worker) /\ Len(r) = n + 1
      /\ DOMAIN r = 1..(n + 1) /\ r[n + 1] = a
      /\ \A i \in 1..n : r[i] = s[i]
  OBVIOUS
<1>2. \A i \in 1..(n + 1) : i \in 1..n \/ i = n + 1
  BY <1>1
<1>3. \A i \in 1..n : s[i] # a /\ i \in 1..(n + 1)
  BY <1>1 DEF O!ToSet
<1> HIDE DEF r
<1>4. Once(r)
  BY <1>1, <1>2, <1>3 DEF Once
<1>5. O!ToSet(r) = O!ToSet(s) \cup {a}
  BY <1>1, <1>2, <1>3 DEF O!ToSet
<1> QED BY <1>1, <1>4, <1>5 DEF r

\* The first is taken out.
LEMMA FirstLeaves ==
  ASSUME NEW s \in Seq(Worker), s # << >>, Once(s)
  PROVE  /\ Head(s) \in Worker /\ Head(s) \in O!ToSet(s)
         /\ Tail(s) \in Seq(Worker) /\ Len(Tail(s)) = Len(s) - 1
         /\ O!ToSet(Tail(s)) = O!ToSet(s) \ {Head(s)}
         /\ Once(Tail(s))
<1> DEFINE n == Len(s)
           r == Tail(s)
<1>1. /\ n \in Nat /\ n > 0 /\ DOMAIN s = 1..n /\ r \in Seq(Worker) /\ Len(r) = n - 1
      /\ DOMAIN r = 1..(n - 1) /\ s[1] = Head(s) /\ s[1] \in Worker
      /\ \A i \in 1..(n - 1) : r[i] = s[i + 1]
  OBVIOUS
<1>2. /\ \A i \in 1..(n - 1) : i + 1 \in 1..n /\ i + 1 # 1
      /\ \A i \in 1..n : i # 1 => i - 1 \in 1..(n - 1) /\ (i - 1) + 1 = i
      /\ 1 \in 1..n
  BY <1>1
<1> HIDE DEF r
<1>3. Once(r)
  BY <1>1, <1>2 DEF Once
<1>4. O!ToSet(r) = O!ToSet(s) \ {s[1]}
  <2>1. ASSUME NEW x, x \in O!ToSet(r) PROVE x \in O!ToSet(s) /\ x # s[1]
    <3>1. PICK i \in 1..(n - 1) : x = s[i + 1]
      BY <1>1, <2>1 DEF O!ToSet
    <3> QED BY <1>1, <1>2, <3>1 DEF O!ToSet, Once
  <2>2. ASSUME NEW x, x \in O!ToSet(s), x # s[1] PROVE x \in O!ToSet(r)
    <3>1. PICK i \in 1..n : x = s[i]
      BY <1>1, <2>2 DEF O!ToSet
    <3>2. i - 1 \in 1..(n - 1) /\ r[i - 1] = s[i]
      BY <1>1, <1>2, <2>2, <3>1
    <3> QED BY <1>1, <3>1, <3>2 DEF O!ToSet
  <2> QED BY <2>1, <2>2
<1>5. s[1] \in O!ToSet(s)
  BY <1>1, <1>2 DEF O!ToSet
<1> QED BY <1>1, <1>3, <1>4, <1>5 DEF r

\* Only tasks exist as such.
LEMMA ExistingType ==
  ASSUME ObjectsInv
  PROVE  O!Existing \subseteq O!Task /\ Waiting \subseteq Worker
<1>1. Waiting \subseteq Worker
  <2>1. DOMAIN xTasksWaitingTermination = 1..Len(xTasksWaitingTermination)
    BY DEF ObjectsInv, ObjectTypes
  <2> QED BY <2>1 DEF ObjectsInv, ObjectTypes, Waiting, O!ToSet
<1> QED BY <1>1, HandlesDiffer DEF ObjectsInv, ObjectTypes, O!Existing, Waiting

\* The current task acts, or main() before there is one.
LEMMA RunsOK ==
  ASSUME ObjectsInv, NEW a \in Actor, NEW at \in Places, O!Runs(a, at)
  PROVE  /\ ownPc[a].at = at
         /\ xSchedulerRunning => a \in O!Existing /\ a = pxCurrentTCB
         /\ xSchedulerRunning /\ at # "deleted" => a \in listed
         /\ ~xSchedulerRunning => a = "main"
<1>1. ownPc[a].at = at /\ a = IF xSchedulerRunning THEN pxCurrentTCB ELSE "main"
  BY DEF O!Runs
<1>2. xSchedulerRunning => pxCurrentTCB \in O!Existing
  BY DEF ObjectsInv, ActorsKept
<1>3. xSchedulerRunning => a \in O!Task
  BY <1>1, <1>2, ExistingType
<1>4. xSchedulerRunning /\ at # "deleted" => a \notin Waiting
  BY <1>1, <1>3 DEF ObjectsInv, ActorsKept
<1> QED BY <1>1, <1>2, <1>4 DEF O!Existing, Waiting

\* A step of one who neither was deleted nor deletes itself, that leaves the
\* lists and the counts.
LEMMA ActorsFrame ==
  ASSUME ObjectsInv, NEW a \in Actor,
         xSchedulerRunning => a \in listed, ~xSchedulerRunning => a = "main",
         ownPc[a].at # "deleted", ownPc'[a].at # "deleted",
         \A b \in Actor : b # a => ownPc'[b] = ownPc[b],
         UNCHANGED << listed, xTasksWaitingTermination, uxDeletedTasksWaitingCleanUp,
                      uxCurrentNumberOfTasks, pxCurrentTCB, xSchedulerRunning >>,
         \A t \in listed : uxPriority'[t] = uxPriority[t]
  PROVE  WaitingKept' /\ ActorsKept' /\ O!CountsAgree' /\ O!Existing' = O!Existing
<1>1. Waiting' = Waiting /\ O!Existing' = O!Existing
  BY DEF Waiting, O!Existing
<1>2. WaitingKept' /\ O!CountsAgree'
  BY <1>1 DEF WaitingKept, O!CountsAgree, ObjectsInv
<1>3. O!Task \subseteq Actor /\ "main" \in Actor /\ "main" \notin O!Task /\ listed \subseteq O!Task
  BY HandlesDiffer DEF Actor, ObjectsInv, ObjectTypes
<1>4. listed \subseteq O!Existing
  BY DEF O!Existing
<1>5. ActorsKept
  BY DEF ObjectsInv
<1>6. \A t \in O!Task : (t \in Waiting)' <=> (ownPc'[t].at = "deleted")
  BY <1>1, <1>3, <1>5 DEF ActorsKept
<1>7. \A t \in O!Task : t \notin O!Existing' => ownPc'[t].at = "app"
  BY <1>1, <1>3, <1>4, <1>5 DEF ActorsKept
<1>8. ownPc'["main"].at # "deleted"
  BY <1>3, <1>5 DEF ActorsKept
<1>9. ASSUME xSchedulerRunning
      PROVE  /\ ownPc'["main"].at = "app" /\ {"IDLE", "Tmr Svc"} \subseteq listed
             /\ pxCurrentTCB \in O!Existing
  BY <1>3, <1>5, <1>9 DEF ActorsKept
<1>10. ASSUME ~xSchedulerRunning
       PROVE  /\ {"IDLE", "Tmr Svc"} \cap listed = {} /\ Waiting = {}
              /\ \A t \in O!Task : ownPc'[t].at = "app"
              /\ pxCurrentTCB \in listed \cup {NoTask}
              /\ pxCurrentTCB = NoTask => listed = {}
              /\ \A t \in listed : uxPriority'[t] <= uxPriority'[pxCurrentTCB]
  BY <1>3, <1>5, <1>10 DEF ActorsKept
<1>11. ActorsKept'
  BY <1>1, <1>6, <1>7, <1>8, <1>9, <1>10 DEF ActorsKept
<1> QED BY <1>1, <1>2, <1>11

\* The parts of a handle that a step does not touch.
LEMMA PartsFrame ==
  ASSUME PartsKept, NEW g \in Handle,
         statically'[g] = statically[g],
         \A x \in {"stack", "TCB", "object"} : << g, x >> \in heap' <=> << g, x >> \in heap,
         g \in O!Existing' <=> g \in O!Existing,
         g \in objects' <=> g \in objects,
         \A places : IsHeld(g, places)' <=> IsHeld(g, places)
  PROVE  /\ g \in O!Task => StackKept(g)' /\ TCBKept(g)'
         /\ g \in O!Object => ObjectKept(g)'
<1>1. CASE g \in O!Task
  <2>1. StackKept(g) /\ TCBKept(g) /\ g \notin O!Object
    BY <1>1, HandlesDiffer DEF PartsKept
  <2> QED BY <1>1, <2>1 DEF StackKept, TCBKept
<1>2. CASE g \in O!Object
  <2>1. ObjectKept(g) /\ g \notin O!Task
    BY <1>2, HandlesDiffer DEF PartsKept
  <2> QED BY <1>2, <2>1 DEF ObjectKept
<1> QED BY <1>1, <1>2 DEF Handle

\* The registry, when no object goes.
LEMMA RegistryFrame ==
  ASSUME RegistryKept, objects \subseteq objects', UNCHANGED << timerQueueCreated, xQueueRegistry >>
  PROVE  RegistryKept'
  BY DEF RegistryKept, O!RegistryCurrent

\* What others have in their hands.
LEMMA HandsFrame ==
  ASSUME ObjectsInv, NEW b \in Actor, ownPc'[b] = ownPc[b],
         ownPc[b].of \in O!Existing' => ownPc[b].of \in O!Existing,
         ownPc[b].of \in Queues =>
           \A i \in O!Entry : xQueueRegistry'[i] = ownPc[b].of => xQueueRegistry[i] = ownPc[b].of,
         ownPc[b].of # NoTask =>
           /\ statically'[ownPc[b].of] = statically[ownPc[b].of]
           /\ ownPc[b].of \in objects' <=> ownPc[b].of \in objects
  PROVE  HandRight(b)'
<1>1. HandRight(b)
  BY DEF ObjectsInv, HandsKept
<1>2. CASE ownPc[b].of = NoTask
  <2>1. ownPc[b].at \in {"app", "deleted"}
    BY <1>1, <1>2 DEF HandRight
  <2> QED BY <1>2, <2>1 DEF HandRight
<1>3. CASE ownPc[b].of # NoTask
  BY <1>1, <1>3 DEF HandRight
<1> QED BY <1>2, <1>3

\* Whoever acts and is not in a call has nothing in his hands.
LEMMA AppOK ==
  ASSUME ObjectsInv, NEW a \in Actor, O!App(a)
  PROVE  /\ ownPc[a].at = "app" /\ ownPc[a].of = NoTask /\ a # "IDLE"
         /\ xSchedulerRunning => a \in listed /\ a = pxCurrentTCB
         /\ ~xSchedulerRunning => a = "main"
<1>1. O!Runs(a, "app") /\ a # "IDLE"
  BY DEF O!App
<1>2. HandRight(a)
  BY DEF ObjectsInv, HandsKept
<1> QED BY <1>1, <1>2, RunsOK DEF Places, HandRight

\* A handle that nobody uses is taken for a new task.
LEMMA TakesTask ==
  ASSUME ObjectsInv, NEW a \in Actor, O!App(a),
         NEW t \in Worker, O!Unused(t), NEW p \in Priorities,
         NEW at, NEW s, NEW new,
         \/ at = "TCB" /\ s = "none" /\ new = {<< t, "stack" >>}
         \/ at = "add" /\ s = "stack" /\ new = {<< t, "TCB" >>}
         \/ at = "add" /\ s = "all" /\ new = {},
         heap' = heap \cup new,
         statically' = [statically EXCEPT ![t] = s],
         uxPriority' = [uxPriority EXCEPT ![t] = p],
         ownPc' = [ownPc EXCEPT ![a] = [at |-> at, of |-> t, entry |-> 0]],
         UNCHANGED << listed, xTasksWaitingTermination, uxDeletedTasksWaitingCleanUp,
                      uxCurrentNumberOfTasks, pxCurrentTCB, xSchedulerRunning,
                      objects, timerQueueCreated, xQueueRegistry >>
  PROVE  ObjectsInv'
<1>1. /\ ownPc[a].at = "app" /\ ownPc[a].of = NoTask
      /\ xSchedulerRunning => a \in listed
      /\ ~xSchedulerRunning => a = "main"
  BY AppOK
<1>2. /\ ~O!InUse(t) /\ t \notin O!Existing /\ t \notin listed
      /\ \A x : << t, x >> \notin heap
  BY DEF O!Unused, O!Existing
<1>3. ObjectTypes /\ OneHolder /\ PartsKept /\ RegistryKept
  BY DEF ObjectsInv
<1>4. /\ t \in Handle /\ t \in O!Task /\ t \notin O!Object /\ NoTask \notin Handle /\ p \in Nat
      /\ at \in {"TCB", "add"} /\ at \in Places /\ 0 \in O!Entry \cup {0}
  BY HandlesDiffer, HandlesApart DEF HandlesApart, Places
<1>5. /\ ownPc' \in [Actor -> InHand]
      /\ ownPc'[a].at = at /\ ownPc'[a].of = t
      /\ \A b \in Actor : b # a => ownPc'[b] = ownPc[b]
      /\ OneHolder'
      /\ \A g \in Handle : \A places :
           IsHeld(g, places)' <=> (g = t /\ at \in places) \/ (g # t /\ IsHeld(g, places))
  <2>1. ownPc \in [Actor -> InHand] /\ t \in Handle \cup {NoTask}
    BY <1>3, <1>4 DEF ObjectTypes
  <2>2. /\ ownPc' \in [Actor -> InHand]
        /\ ownPc'[a].at = at /\ ownPc'[a].of = t
        /\ \A b \in Actor : b # a => ownPc'[b] = ownPc[b]
        /\ OneHolder'
        /\ \A g \in Handle : \A places :
             IsHeld(g, places)' <=>
               \/ g = t /\ at \in places
               \/ g # t /\ g # ownPc[a].of /\ IsHeld(g, places)
    BY ONLY <1>2, <1>3, <1>4, <2>1, HandsMove, a \in Actor, t \in Worker,
       ownPc' = [ownPc EXCEPT ![a] = [at |-> at, of |-> t, entry |-> 0]]
  <2> QED BY <1>1, <1>4, <2>2
<1>6. \A g \in Handle : g # t => statically'[g] = statically[g]
  BY <1>3 DEF ObjectTypes
<1>7. statically'[t] = s
  BY <1>3, <1>4 DEF ObjectTypes
<1>8. WaitingKept' /\ ActorsKept' /\ O!CountsAgree' /\ O!Existing' = O!Existing
  <2>1. \A u \in listed : uxPriority'[u] = uxPriority[u]
    BY <1>2, <1>3 DEF ObjectTypes
  <2>2. ownPc[a].at # "deleted" /\ ownPc'[a].at # "deleted"
    BY <1>1, <1>4, <1>5
  <2> QED BY <1>1, <1>5, <2>1, <2>2, ActorsFrame
<1>9. ASSUME NEW b \in Actor PROVE HandRight(b)'
  <2>1. CASE b = a
    BY <1>2, <1>4, <1>5, <1>7, <1>8, <2>1 DEF HandRight
  <2>2. CASE b # a
    <3>1. ownPc[b].of # t /\ ownPc[b].of \in Handle \cup {NoTask}
      BY <1>2, <1>3 DEF O!InUse, ObjectTypes, InHand
    <3> QED BY <1>5, <1>6, <1>8, <2>2, <3>1, HandsFrame
  <2> QED BY <2>1, <2>2
<1>10. PartsKept'
  <2>1. ASSUME NEW g \in Handle
        PROVE  /\ g \in O!Task => StackKept(g)' /\ TCBKept(g)'
               /\ g \in O!Object => ObjectKept(g)'
    <3>1. CASE g = t
      BY <1>2, <1>4, <1>5, <1>7, <1>8, <3>1 DEF StackKept, TCBKept
    <3>2. CASE g # t
      <4>1. \A x \in {"stack", "TCB", "object"} : << g, x >> \in heap' <=> << g, x >> \in heap
        BY <3>2
      <4> QED BY <1>3, <1>5, <1>6, <1>8, <3>2, <4>1, PartsFrame
    <3> QED BY <3>1, <3>2
  <2> QED BY <2>1 DEF PartsKept, Handle
<1>11. RegistryKept'
  BY <1>3, RegistryFrame
<1>12. ObjectTypes'
  BY <1>3, <1>4, <1>5 DEF ObjectTypes
<1> QED BY <1>5, <1>8, <1>9, <1>10, <1>11, <1>12 DEF ObjectsInv, HandsKept

\* A task is created.
LEMMA CreatesTask ==
  ASSUME ObjectsInv, NEW a \in Actor, NEW t \in Worker, NEW p \in Priorities,
         \/ O!prvCreateTask(a, t, p) \/ O!prvCreateRestrictedTask(a, t, p)
         \/ O!prvCreateStaticTask(a, t, p)
  PROVE  ObjectsInv'
<1> USE DEF O!prvInitialiseNewTask, O!Goto, O!counts, O!others
<1>1. CASE O!prvCreateTask(a, t, p)
  BY <1>1, TakesTask DEF O!prvCreateTask
<1>2. CASE O!prvCreateRestrictedTask(a, t, p)
  BY <1>2, TakesTask DEF O!prvCreateRestrictedTask
<1>3. CASE O!prvCreateStaticTask(a, t, p)
  <2>1. heap' = heap \cup {}
    BY <1>3 DEF O!prvCreateStaticTask
  <2> QED BY <1>3, <2>1, TakesTask DEF O!prvCreateStaticTask
<1> QED BY <1>1, <1>2, <1>3

\* A handle that nobody uses is taken for a new object, which is there at once or
\* remains in the hands of the one who creates it.
LEMMA TakesObject ==
  ASSUME ObjectsInv, NEW a \in Actor, O!App(a),
         NEW o \in O!Object, O!Unused(o), NEW s, NEW new,
         \/ s = "none" /\ new = {<< o, "object" >>}
         \/ s = "all" /\ new = {},
         heap' = heap \cup new,
         statically' = [statically EXCEPT ![o] = s],
         \/ objects' = objects \cup {o} /\ UNCHANGED ownPc
         \/ /\ o \in Timers /\ UNCHANGED objects
            /\ ownPc' = [ownPc EXCEPT ![a] = [at |-> "timer", of |-> o, entry |-> 0]],
         UNCHANGED << uxPriority, listed, xTasksWaitingTermination,
                      uxDeletedTasksWaitingCleanUp, uxCurrentNumberOfTasks, pxCurrentTCB,
                      xSchedulerRunning, timerQueueCreated, xQueueRegistry >>
  PROVE  ObjectsInv'
<1>1. /\ ownPc[a].at = "app" /\ ownPc[a].of = NoTask
      /\ xSchedulerRunning => a \in listed
      /\ ~xSchedulerRunning => a = "main"
  BY AppOK
<1>2. /\ ~O!InUse(o) /\ o \notin objects /\ \A x : << o, x >> \notin heap
  BY DEF O!Unused
<1>3. ObjectTypes /\ OneHolder /\ PartsKept /\ RegistryKept /\ HandsKept
  BY DEF ObjectsInv
<1>4. /\ o \in Handle /\ o \notin O!Task /\ NoTask \notin Handle
      /\ "timer" \in Places /\ 0 \in O!Entry \cup {0}
  BY HandlesDiffer DEF Places
<1>5. /\ ownPc' \in [Actor -> InHand] /\ OneHolder'
      /\ \A b \in Actor : b # a => ownPc'[b] = ownPc[b]
      /\ \/ ownPc'[a] = ownPc[a] /\ objects' = objects \cup {o}
         \/ /\ ownPc'[a].at = "timer" /\ ownPc'[a].of = o
            /\ objects' = objects /\ o \in Timers
      /\ \A g \in Handle : \A places : g # o => (IsHeld(g, places)' <=> IsHeld(g, places))
      /\ IsHeld(o, {"timer", "freeObject"})' \/ o \in objects'
  <2>1. CASE UNCHANGED ownPc /\ objects' = objects \cup {o}
    BY <1>3, <2>1 DEF ObjectTypes, OneHolder, IsHeld
  <2>2. CASE /\ o \in Timers /\ UNCHANGED objects
             /\ ownPc' = [ownPc EXCEPT ![a] = [at |-> "timer", of |-> o, entry |-> 0]]
    <3>1. ownPc \in [Actor -> InHand] /\ o \in Handle \cup {NoTask}
      BY <1>3, <1>4 DEF ObjectTypes
    <3>2. /\ ownPc' \in [Actor -> InHand]
          /\ ownPc'[a].at = "timer" /\ ownPc'[a].of = o
          /\ \A b \in Actor : b # a => ownPc'[b] = ownPc[b]
          /\ OneHolder'
          /\ \A g \in Handle : \A places :
               IsHeld(g, places)' <=>
                 \/ g = o /\ "timer" \in places
                 \/ g # o /\ g # ownPc[a].of /\ IsHeld(g, places)
      BY ONLY <1>2, <1>3, <1>4, <2>2, <3>1, HandsMove, a \in Actor
    <3> QED BY <1>1, <1>4, <2>2, <3>2
  <2> QED BY <2>1, <2>2
<1>6. /\ \A g \in Handle : g # o => statically'[g] = statically[g]
      /\ statically'[o] = s
  BY <1>3, <1>4 DEF ObjectTypes
<1>7. WaitingKept' /\ ActorsKept' /\ O!CountsAgree' /\ O!Existing' = O!Existing
  <2>1. ownPc[a].at # "deleted" /\ ownPc'[a].at # "deleted"
    BY <1>1, <1>5
  <2> QED BY <1>1, <1>5, <2>1, ActorsFrame
<1>8. ASSUME NEW b \in Actor PROVE HandRight(b)'
  <2>1. CASE ownPc'[b] = ownPc[b]
    <3>1. ownPc[b].of # o /\ ownPc[b].of \in Handle \cup {NoTask}
      BY <1>2, <1>3 DEF O!InUse, ObjectTypes, InHand
    <3>2. ownPc[b].of # NoTask =>
            /\ statically'[ownPc[b].of] = statically[ownPc[b].of]
            /\ ownPc[b].of \in objects' <=> ownPc[b].of \in objects
      BY <1>5, <1>6, <3>1
    <3> QED BY <1>7, <2>1, <3>2, HandsFrame
  <2>2. CASE b = a /\ ownPc'[a].at = "timer" /\ ownPc'[a].of = o /\ objects' = objects
             /\ o \in Timers
    BY <1>2, <1>4, <2>2 DEF HandRight
  <2> QED BY <1>5, <2>1, <2>2
<1>9. PartsKept'
  <2>1. ASSUME NEW g \in Handle
        PROVE  /\ g \in O!Task => StackKept(g)' /\ TCBKept(g)'
               /\ g \in O!Object => ObjectKept(g)'
    <3>1. CASE g = o
      BY <1>2, <1>4, <1>5, <1>6, <3>1 DEF ObjectKept
    <3>2. CASE g # o
      <4>1. \A x \in {"stack", "TCB", "object"} : << g, x >> \in heap' <=> << g, x >> \in heap
        BY <3>2
      <4> QED BY <1>3, <1>5, <1>6, <1>7, <3>2, <4>1, PartsFrame
    <3> QED BY <3>1, <3>2
  <2> QED BY <2>1 DEF PartsKept, Handle
<1>10. RegistryKept'
  BY <1>3, <1>5, RegistryFrame
<1>11. ObjectTypes'
  BY <1>3, <1>4, <1>5 DEF ObjectTypes
<1> QED BY <1>5, <1>7, <1>8, <1>9, <1>10, <1>11 DEF ObjectsInv, HandsKept

\* A queue, an event group or a timer is created.
LEMMA CreatesObject ==
  ASSUME ObjectsInv, NEW a \in Actor,
         \/ \E q \in Queues : O!xQueueGenericCreate(a, q) \/ O!xQueueGenericCreateStatic(a, q)
         \/ \E g \in EventGroups : O!xEventGroupCreate(a, g) \/ O!xEventGroupCreateStatic(a, g)
         \/ \E r \in Timers : O!xTimerCreate(a, r) \/ O!xTimerCreateStatic(a, r)
  PROVE  ObjectsInv'
<1>1. PICK o \in O!Object :
        /\ O!App(a) /\ (O!Dynamic(o) \/ O!Static(o))
        /\ \/ O!Initialised(o)
           \/ o \in Timers /\ O!Goto(a, "timer", o) /\ UNCHANGED << O!tasks, O!others >>
  BY DEF O!xQueueGenericCreate, O!xQueueGenericCreateStatic, O!xEventGroupCreate,
         O!xEventGroupCreateStatic, O!xTimerCreate, O!xTimerCreateStatic, O!Object
<1>2. /\ O!Unused(o)
      /\ \/ /\ heap' = heap \cup {<< o, "object" >>}
            /\ statically' = [statically EXCEPT ![o] = "none"]
         \/ /\ heap' = heap \cup {}
            /\ statically' = [statically EXCEPT ![o] = "all"]
  BY <1>1 DEF O!Dynamic, O!Static
<1>3. /\ \/ objects' = objects \cup {o} /\ UNCHANGED ownPc
         \/ /\ o \in Timers /\ UNCHANGED objects
            /\ ownPc' = [ownPc EXCEPT ![a] = [at |-> "timer", of |-> o, entry |-> 0]]
      /\ UNCHANGED << uxPriority, listed, xTasksWaitingTermination,
                      uxDeletedTasksWaitingCleanUp, uxCurrentNumberOfTasks, pxCurrentTCB,
                      xSchedulerRunning, timerQueueCreated, xQueueRegistry >>
  BY <1>1 DEF O!Initialised, O!Goto, O!tasks, O!counts, O!others
<1> QED BY <1>1, <1>2, <1>3, TakesObject

\* Whoever returns from a call has nothing in his hands.
LEMMA HandsOpen ==
  ASSUME ObjectsInv, NEW a \in Actor, O!Return(a), NEW h \in Handle, h = ownPc[a].of
  PROVE  /\ ownPc' \in [Actor -> InHand] /\ OneHolder'
         /\ ownPc'[a].at = "app" /\ HandRight(a)'
         /\ \A b \in Actor : b # a => ownPc'[b] = ownPc[b] /\ ownPc[b].of # h
         /\ \A g \in Handle : \A places :
              IsHeld(g, places)' <=> g # h /\ IsHeld(g, places)
         /\ \A places : IsHeld(h, places) <=> ownPc[a].at \in places
<1>1. ownPc \in [Actor -> InHand] /\ OneHolder
  BY DEF ObjectsInv, ObjectTypes
<1>2. NoTask \in Handle \cup {NoTask} /\ "app" \in Places /\ 0 \in O!Entry \cup {0}
      /\ NoTask \notin Handle
  BY HandlesDiffer DEF Places
<1>3. ownPc' = [ownPc EXCEPT ![a] = [at |-> "app", of |-> NoTask, entry |-> 0]]
  BY DEF O!Return, O!AtRest
<1>4. /\ ownPc' \in [Actor -> InHand]
      /\ ownPc'[a].at = "app" /\ ownPc'[a].of = NoTask
      /\ \A b \in Actor : b # a => ownPc'[b] = ownPc[b]
      /\ OneHolder'
      /\ \A g \in Handle : \A places :
           IsHeld(g, places)' <=>
             \/ g = NoTask /\ "app" \in places
             \/ g # NoTask /\ g # ownPc[a].of /\ IsHeld(g, places)
  BY ONLY <1>1, <1>2, <1>3, HandsMove, a \in Actor
<1>5. \A b \in Actor : b # a => ownPc[b].of # h
  BY <1>1, <1>2 DEF OneHolder
<1>6. HandRight(a)'
  BY <1>4 DEF HandRight
<1>7. \A places : IsHeld(h, places) <=> ownPc[a].at \in places
  BY <1>1, HeldThere
<1> QED BY <1>2, <1>4, <1>5, <1>6, <1>7

\* Whoever goes on with a call keeps what he has in his hands.
GoesOn(a, at, h) ==
  /\ ownPc' \in [Actor -> InHand]
  /\ ownPc'[a].at = at /\ ownPc'[a].of = h
  /\ \A b \in Actor : b # a => ownPc'[b] = ownPc[b]
  /\ OneHolder'
  /\ \A g \in Handle : \A places :
       IsHeld(g, places)' <=>
         \/ g = h /\ at \in places
         \/ g # h /\ IsHeld(g, places)
  /\ \A places : IsHeld(h, places) <=> ownPc[a].at \in places

LEMMA HandsGoOn ==
  ASSUME ownPc \in [Actor -> InHand], OneHolder,
         NEW a \in Actor, NEW h \in Handle, NEW at \in Places, h = ownPc[a].of,
         ownPc' = [ownPc EXCEPT ![a] = [at |-> at, of |-> h, entry |-> 0]]
  PROVE  GoesOn(a, at, h)
<1>1. h \in Handle \cup {NoTask} /\ 0 \in O!Entry \cup {0}
  OBVIOUS
<1>2. h = NoTask \/ h = ownPc[a].of \/ ~O!InUse(h)
  OBVIOUS
<1>3. /\ ownPc' \in [Actor -> InHand]
      /\ ownPc'[a].at = at /\ ownPc'[a].of = h /\ ownPc'[a].entry = 0
      /\ \A b \in Actor : b # a => ownPc'[b] = ownPc[b]
      /\ OneHolder'
      /\ \A g \in Handle : \A places :
           IsHeld(g, places)' <=>
             \/ g = h /\ at \in places
             \/ g # h /\ g # ownPc[a].of /\ IsHeld(g, places)
  BY <1>1, <1>2, HandsMove
<1>4. \A places : IsHeld(h, places) <=> ownPc[a].at \in places
  BY HeldThere
<1> QED BY <1>3, <1>4 DEF GoesOn

\* A task that is being created is given its TCB, or gives its stack back.
LEMMA AllocatesTCB ==
  ASSUME ObjectsInv, NEW a \in Actor, O!AllocateTCB(a)
  PROVE  ObjectsInv'
<1>0. PICK t : t = ownPc[a].of
  OBVIOUS
<1>1. /\ ownPc[a].at = "TCB"
      /\ xSchedulerRunning => a \in listed
      /\ ~xSchedulerRunning => a = "main"
  <2>1. O!Runs(a, "TCB") /\ "TCB" \in Places
    BY DEF O!AllocateTCB, Places
  <2> QED BY <2>1, RunsOK
<1>2. ObjectTypes /\ OneHolder /\ PartsKept /\ RegistryKept /\ HandsKept
  BY DEF ObjectsInv
<1>3. /\ t \in Worker /\ t \in Handle /\ t \in O!Task /\ t \notin O!Object /\ t # NoTask
      /\ t \notin O!Existing /\ t \notin listed /\ statically[t] = "none"
  <2>1. HandRight(a)
    BY <1>2 DEF HandsKept
  <2> QED BY <1>0, <1>1, <2>1, HandlesDiffer DEF HandRight, O!Existing
<1>4. UNCHANGED << statically, listed, xTasksWaitingTermination,
                   uxDeletedTasksWaitingCleanUp, uxCurrentNumberOfTasks, pxCurrentTCB,
                   xSchedulerRunning, objects, timerQueueCreated, xQueueRegistry >>
  BY DEF O!AllocateTCB, O!counts, O!others
<1>5. CASE /\ heap' = heap \cup {<< t, "TCB" >>} /\ UNCHANGED uxPriority
           /\ ownPc' = [ownPc EXCEPT ![a] = [at |-> "add", of |-> t, entry |-> 0]]
  <2>1. /\ ownPc \in [Actor -> InHand] /\ t \in Handle \cup {NoTask} /\ t = ownPc[a].of
        /\ "add" \in Places /\ 0 \in O!Entry \cup {0}
    BY <1>0, <1>2, <1>3 DEF ObjectTypes, Places
  <2>2. /\ ownPc' \in [Actor -> InHand]
        /\ ownPc'[a].at = "add" /\ ownPc'[a].of = t
        /\ \A b \in Actor : b # a => ownPc'[b] = ownPc[b]
        /\ OneHolder'
        /\ \A g \in Handle : \A places :
             IsHeld(g, places)' <=>
               \/ g = t /\ "add" \in places
               \/ g # t /\ IsHeld(g, places)
        /\ \A places : IsHeld(t, places) <=> ownPc[a].at \in places
    <3>1. t \in Handle /\ ownPc \in [Actor -> InHand] /\ OneHolder
      BY <1>2, <1>3, <2>1
    <3>2. ownPc' = [ownPc EXCEPT ![a] = [at |-> "add", of |-> t, entry |-> 0]]
      BY <1>5
    <3>3. GoesOn(a, "add", t)
      BY ONLY <2>1, <3>1, <3>2, HandsGoOn, a \in Actor
    <3> QED BY ONLY <3>3 DEF GoesOn
  <2>3. WaitingKept' /\ ActorsKept' /\ O!CountsAgree' /\ O!Existing' = O!Existing
    <3>1. ownPc[a].at # "deleted" /\ ownPc'[a].at # "deleted"
      BY <1>1, <2>2
    <3> QED BY <1>1, <1>4, <1>5, <2>2, <3>1, ActorsFrame
  <2>4. ASSUME NEW b \in Actor PROVE HandRight(b)'
    <3>1. CASE b = a
      BY <1>3, <2>2, <2>3, <3>1 DEF HandRight
    <3>2. CASE b # a
      BY <1>4, <2>2, <2>3, <3>2, HandsFrame
    <3> QED BY <3>1, <3>2
  <2>5. PartsKept'
    <3>1. ASSUME NEW g \in Handle
          PROVE  /\ g \in O!Task => StackKept(g)' /\ TCBKept(g)'
                 /\ g \in O!Object => ObjectKept(g)'
      <4>1. CASE g = t
        <5>1. StackKept(t)
          BY <1>2, <1>3 DEF PartsKept
        <5> QED BY <1>1, <1>3, <1>4, <1>5, <2>1, <2>2, <2>3, <4>1, <5>1 DEF StackKept, TCBKept
      <4>2. CASE g # t
        <5>1. \A x \in {"stack", "TCB", "object"} : << g, x >> \in heap' <=> << g, x >> \in heap
          BY <1>5, <4>2
        <5>2. \A places : IsHeld(g, places)' <=> IsHeld(g, places)
          BY <2>1, <2>2, <4>2
        <5> QED BY <1>2, <1>4, <2>3, <4>2, <5>1, <5>2, PartsFrame
      <4> QED BY <4>1, <4>2
    <3> QED BY <3>1 DEF PartsKept, Handle
  <2>6. RegistryKept'
    BY <1>2, <1>4, RegistryFrame
  <2>7. ObjectTypes'
    BY <1>2, <1>3, <1>4, <1>5, <2>2 DEF ObjectTypes
  <2> QED BY <2>2, <2>3, <2>4, <2>5, <2>6, <2>7 DEF ObjectsInv, HandsKept
<1>6. CASE heap' = heap \ {<< t, "stack" >>} /\ O!Return(a) /\ O!Wipe(t)
  <2>1. t = ownPc[a].of
    BY <1>0
  <2>2. /\ ownPc' \in [Actor -> InHand] /\ OneHolder'
        /\ ownPc'[a].at = "app" /\ HandRight(a)'
        /\ \A b \in Actor : b # a => ownPc'[b] = ownPc[b] /\ ownPc[b].of # t
        /\ \A g \in Handle : \A places :
             IsHeld(g, places)' <=> g # t /\ IsHeld(g, places)
        /\ \A places : IsHeld(t, places) <=> ownPc[a].at \in places
    BY <1>3, <1>6, <2>1, HandsOpen
  <2>3. WaitingKept' /\ ActorsKept' /\ O!CountsAgree' /\ O!Existing' = O!Existing
    <3>1. ownPc[a].at # "deleted" /\ ownPc'[a].at # "deleted"
      BY <1>1, <2>2
    <3>2. \A u \in listed : uxPriority'[u] = uxPriority[u]
      BY <1>2, <1>3, <1>6 DEF O!Wipe, ObjectTypes
    <3> QED BY <1>1, <1>4, <2>2, <3>1, <3>2, ActorsFrame
  <2>4. ASSUME NEW b \in Actor, b # a PROVE HandRight(b)'
    BY <1>4, <2>2, <2>3, <2>4, HandsFrame
  <2>5. PartsKept'
    <3>1. ASSUME NEW g \in Handle
          PROVE  /\ g \in O!Task => StackKept(g)' /\ TCBKept(g)'
                 /\ g \in O!Object => ObjectKept(g)'
      <4>1. CASE g = t
        <5>1. TCBKept(t)
          BY <1>2, <1>3 DEF PartsKept
        <5> QED BY <1>1, <1>3, <1>4, <1>6, <2>2, <2>3, <4>1, <5>1 DEF StackKept, TCBKept
      <4>2. CASE g # t
        <5>1. \A x \in {"stack", "TCB", "object"} : << g, x >> \in heap' <=> << g, x >> \in heap
          BY <1>6, <4>2
        <5> QED BY <1>2, <1>4, <2>2, <2>3, <4>2, <5>1, PartsFrame
      <4> QED BY <4>1, <4>2
    <3> QED BY <3>1 DEF PartsKept, Handle
  <2>6. RegistryKept'
    BY <1>2, <1>4, RegistryFrame
  <2>7. ObjectTypes'
    BY <1>2, <1>3, <1>4, <1>6, <2>2 DEF ObjectTypes, O!Wipe
  <2> QED BY <2>2, <2>3, <2>4, <2>5, <2>6, <2>7 DEF ObjectsInv, HandsKept
<1> QED BY <1>0, <1>5, <1>6 DEF O!AllocateTCB, O!Goto

\* A deleted task is freed.
LEMMA DeletesTCB ==
  ASSUME ObjectsInv, NEW a \in Actor, O!prvDeleteTCB(a)
  PROVE  ObjectsInv'
<1>0. PICK t : t = ownPc[a].of
  OBVIOUS
<1>1. /\ ownPc[a].at = "free"
      /\ xSchedulerRunning => a \in listed
      /\ ~xSchedulerRunning => a = "main"
  <2>1. O!Runs(a, "free") /\ "free" \in Places
    BY DEF O!prvDeleteTCB, Places
  <2> QED BY <2>1, RunsOK
<1>2. ObjectTypes /\ OneHolder /\ PartsKept /\ RegistryKept /\ HandsKept
  BY DEF ObjectsInv
<1>3. /\ t \in Worker /\ t \in Handle /\ t \in O!Task /\ t \notin O!Object /\ t # NoTask
      /\ t \notin O!Existing /\ t \notin listed
  <2>1. HandRight(a)
    BY <1>2 DEF HandsKept
  <2> QED BY <1>0, <1>1, <2>1, HandlesDiffer DEF HandRight, O!Existing
<1>4. /\ UNCHANGED << listed, xTasksWaitingTermination,
                      uxDeletedTasksWaitingCleanUp, uxCurrentNumberOfTasks, pxCurrentTCB,
                      xSchedulerRunning, objects, timerQueueCreated, xQueueRegistry >>
      /\ heap' = heap \ O!Freed(t) /\ statically' = [statically EXCEPT ![t] = "none"]
      /\ uxPriority' = [uxPriority EXCEPT ![t] = 0] /\ O!Return(a)
  BY <1>0 DEF O!prvDeleteTCB, O!counts, O!others, O!Wipe
<1>5. /\ ownPc' \in [Actor -> InHand] /\ OneHolder'
      /\ ownPc'[a].at = "app" /\ HandRight(a)'
      /\ \A b \in Actor : b # a => ownPc'[b] = ownPc[b] /\ ownPc[b].of # t
      /\ \A g \in Handle : \A places :
           IsHeld(g, places)' <=> g # t /\ IsHeld(g, places)
      /\ \A places : IsHeld(t, places) <=> ownPc[a].at \in places
  BY <1>0, <1>3, <1>4, HandsOpen
<1>6. /\ \A g \in Handle : g # t => statically'[g] = statically[g]
      /\ statically'[t] = "none" /\ statically[t] \in {"none", "stack", "all"}
  BY <1>2, <1>3, <1>4 DEF ObjectTypes
<1>7. WaitingKept' /\ ActorsKept' /\ O!CountsAgree' /\ O!Existing' = O!Existing
  <2>1. ownPc[a].at # "deleted" /\ ownPc'[a].at # "deleted"
    BY <1>1, <1>5
  <2>2. \A u \in listed : uxPriority'[u] = uxPriority[u]
    BY <1>2, <1>3, <1>4 DEF ObjectTypes
  <2> QED BY <1>1, <1>4, <1>5, <2>1, <2>2, ActorsFrame
<1>8. ASSUME NEW b \in Actor, b # a PROVE HandRight(b)'
  <2>1. ownPc[b].of \in Handle \cup {NoTask}
    BY <1>2 DEF ObjectTypes, InHand
  <2> QED BY <1>4, <1>5, <1>6, <1>7, <1>8, <2>1, HandsFrame
<1>9. PartsKept'
  <2>1. ASSUME NEW g \in Handle
        PROVE  /\ g \in O!Task => StackKept(g)' /\ TCBKept(g)'
               /\ g \in O!Object => ObjectKept(g)'
    <3>1. CASE g = t
      <4>1. StackKept(t) /\ TCBKept(t)
        BY <1>2, <1>3 DEF PartsKept
      <4>2. << t, "stack" >> \notin heap' /\ << t, "TCB" >> \notin heap'
        BY <1>4, <1>6, <4>1 DEF StackKept, TCBKept, O!Freed
      <4> QED BY <1>3, <1>5, <1>7, <3>1, <4>2 DEF StackKept, TCBKept
    <3>2. CASE g # t
      <4>1. \A x \in {"stack", "TCB", "object"} : << g, x >> \in heap' <=> << g, x >> \in heap
        BY <1>4, <3>2 DEF O!Freed
      <4> QED BY <1>2, <1>4, <1>5, <1>6, <1>7, <3>2, <4>1, PartsFrame
    <3> QED BY <3>1, <3>2
  <2> QED BY <2>1 DEF PartsKept, Handle
<1>10. RegistryKept'
  BY <1>2, <1>4, RegistryFrame
<1>11. ObjectTypes'
  BY <1>2, <1>3, <1>4, <1>5 DEF ObjectTypes
<1> QED BY <1>5, <1>7, <1>8, <1>9, <1>10, <1>11 DEF ObjectsInv, HandsKept

\* An object that was deleted is freed.
LEMMA FreesObject ==
  ASSUME ObjectsInv, NEW a \in Actor, O!FreeObject(a)
  PROVE  ObjectsInv'
<1>0. PICK o : o = ownPc[a].of
  OBVIOUS
<1>1. /\ ownPc[a].at = "freeObject"
      /\ xSchedulerRunning => a \in listed
      /\ ~xSchedulerRunning => a = "main"
  <2>1. O!Runs(a, "freeObject") /\ "freeObject" \in Places
    BY DEF O!FreeObject, Places
  <2> QED BY <2>1, RunsOK
<1>2. ObjectTypes /\ OneHolder /\ PartsKept /\ RegistryKept /\ HandsKept
  BY DEF ObjectsInv
<1>3. o \in O!Object /\ o \in Handle /\ o \notin O!Task /\ o \notin objects
  <2>1. HandRight(a)
    BY <1>2 DEF HandsKept
  <2> QED BY <1>0, <1>1, <2>1, HandlesDiffer DEF HandRight
<1>4. /\ UNCHANGED << uxPriority, listed, xTasksWaitingTermination,
                      uxDeletedTasksWaitingCleanUp, uxCurrentNumberOfTasks, pxCurrentTCB,
                      xSchedulerRunning, objects, timerQueueCreated, xQueueRegistry >>
      /\ heap' = (IF statically[o] = "none" THEN heap \ {<< o, "object" >>} ELSE heap)
      /\ statically' = [statically EXCEPT ![o] = "none"]
      /\ O!Return(a)
  BY <1>0 DEF O!FreeObject, O!tasks, O!counts, O!others
<1>5. /\ ownPc' \in [Actor -> InHand] /\ OneHolder'
      /\ ownPc'[a].at = "app" /\ HandRight(a)'
      /\ \A b \in Actor : b # a => ownPc'[b] = ownPc[b] /\ ownPc[b].of # o
      /\ \A g \in Handle : \A places :
           IsHeld(g, places)' <=> g # o /\ IsHeld(g, places)
      /\ \A places : IsHeld(o, places) <=> ownPc[a].at \in places
  BY <1>0, <1>3, <1>4, HandsOpen
<1>6. /\ \A g \in Handle : g # o => statically'[g] = statically[g]
  BY <1>2, <1>3, <1>4 DEF ObjectTypes
<1>7. WaitingKept' /\ ActorsKept' /\ O!CountsAgree' /\ O!Existing' = O!Existing
  <2>1. ownPc[a].at # "deleted" /\ ownPc'[a].at # "deleted"
    BY <1>1, <1>5
  <2> QED BY <1>1, <1>4, <1>5, <2>1, ActorsFrame
<1>8. ASSUME NEW b \in Actor, b # a PROVE HandRight(b)'
  <2>1. ownPc[b].of \in Handle \cup {NoTask}
    BY <1>2 DEF ObjectTypes, InHand
  <2> QED BY <1>4, <1>5, <1>6, <1>7, <1>8, <2>1, HandsFrame
<1>9. PartsKept'
  <2>1. ASSUME NEW g \in Handle
        PROVE  /\ g \in O!Task => StackKept(g)' /\ TCBKept(g)'
               /\ g \in O!Object => ObjectKept(g)'
    <3>1. CASE g = o
      <4>1. ObjectKept(o)
        BY <1>2, <1>3 DEF PartsKept
      <4>2. << o, "object" >> \notin heap'
        BY <1>4, <4>1 DEF ObjectKept
      <4> QED BY <1>3, <1>4, <1>5, <3>1, <4>2 DEF ObjectKept
    <3>2. CASE g # o
      <4>1. \A x \in {"stack", "TCB", "object"} : << g, x >> \in heap' <=> << g, x >> \in heap
        BY <1>4, <3>2
      <4> QED BY <1>2, <1>4, <1>5, <1>6, <1>7, <3>2, <4>1, PartsFrame
    <3> QED BY <3>1, <3>2
  <2> QED BY <2>1 DEF PartsKept, Handle
<1>10. RegistryKept'
  BY <1>2, <1>4, RegistryFrame
<1>11. ObjectTypes'
  BY <1>2, <1>3, <1>4, <1>5 DEF ObjectTypes
<1> QED BY <1>5, <1>7, <1>8, <1>9, <1>10, <1>11 DEF ObjectsInv, HandsKept

Registries == [O!Entry -> Queues \cup {"none", "TmrQ"}]

\* The first of some entries is one of them.
LEMMA FirstEntry ==
  ASSUME NEW S, S \subseteq O!Entry, S # {}
  PROVE  O!Min(S) \in S
<1>1. \E x \in S : \A y \in S : x <= y
  BY HandlesDiffer, Smallest
<1> QED BY <1>1 DEF O!Min

\* The queue of the timer task is registered when it is created.
LEMMA RegistryChecked ==
  ASSUME ObjectsInv, objects \subseteq objects', timerQueueCreated' = TRUE,
         xQueueRegistry' = O!prvCheckForValidListAndQueue(xQueueRegistry)
  PROVE  /\ RegistryKept' /\ xQueueRegistry' \in Registries
         /\ \A i \in O!Entry :
              xQueueRegistry'[i] = xQueueRegistry[i] \/ xQueueRegistry'[i] = "TmrQ"
<1>1. RegistryKept /\ xQueueRegistry \in Registries
  BY DEF ObjectsInv, ObjectTypes, Registries
<1> DEFINE free == {i \in O!Entry : xQueueRegistry[i] = "none"}
<1>2. CASE timerQueueCreated \/ free = {}
  <2>1. xQueueRegistry' = xQueueRegistry
    BY <1>2 DEF O!prvCheckForValidListAndQueue
  <2> QED BY <1>1, <2>1 DEF RegistryKept, O!RegistryCurrent
<1>3. CASE ~timerQueueCreated /\ free # {}
  <2>1. PICK e \in free : xQueueRegistry' = [xQueueRegistry EXCEPT ![e] = "TmrQ"]
    <3>1. O!Min(free) \in free
      BY <1>3, FirstEntry
    <3>2. xQueueRegistry' = [xQueueRegistry EXCEPT ![O!Min(free)] = "TmrQ"]
      BY <1>3 DEF O!prvCheckForValidListAndQueue
    <3> QED BY <3>1, <3>2
  <2>2. \A i \in O!Entry : xQueueRegistry[i] # "TmrQ"
    BY <1>1, <1>3 DEF RegistryKept
  <2>3. /\ xQueueRegistry' \in Registries
        /\ \A i \in O!Entry : xQueueRegistry'[i] = IF i = e THEN "TmrQ" ELSE xQueueRegistry[i]
    BY <1>1, <2>1 DEF Registries
  <2>4. RegistryKept'
    BY <1>1, <2>2, <2>3 DEF RegistryKept, O!RegistryCurrent
  <2> QED BY <2>3, <2>4
<1> QED BY <1>2, <1>3

\* A timer is ready.
LEMMA InitialisesTimer ==
  ASSUME ObjectsInv, NEW a \in Actor, O!prvInitialiseNewTimer(a)
  PROVE  ObjectsInv'
<1>0. PICK o : o = ownPc[a].of
  OBVIOUS
<1>1. /\ ownPc[a].at = "timer"
      /\ xSchedulerRunning => a \in listed
      /\ ~xSchedulerRunning => a = "main"
  <2>1. O!Runs(a, "timer") /\ "timer" \in Places
    BY DEF O!prvInitialiseNewTimer, Places
  <2> QED BY <2>1, RunsOK
<1>2. ObjectTypes /\ OneHolder /\ PartsKept /\ RegistryKept /\ HandsKept
  BY DEF ObjectsInv
<1>3. o \in O!Object /\ o \in Handle /\ o \notin O!Task /\ o \notin objects
  <2>1. HandRight(a)
    BY <1>2 DEF HandsKept
  <2> QED BY <1>0, <1>1, <2>1, HandlesDiffer DEF HandRight, O!Object
<1>4. /\ UNCHANGED << heap, statically, uxPriority, listed, xTasksWaitingTermination,
                      uxDeletedTasksWaitingCleanUp, uxCurrentNumberOfTasks, pxCurrentTCB,
                      xSchedulerRunning >>
      /\ timerQueueCreated' = TRUE /\ objects' = objects \cup {o}
      /\ xQueueRegistry' = O!prvCheckForValidListAndQueue(xQueueRegistry)
      /\ O!Return(a)
  BY <1>0 DEF O!prvInitialiseNewTimer, O!tasks, O!counts
<1>5. /\ ownPc' \in [Actor -> InHand] /\ OneHolder'
      /\ ownPc'[a].at = "app" /\ HandRight(a)'
      /\ \A b \in Actor : b # a => ownPc'[b] = ownPc[b] /\ ownPc[b].of # o
      /\ \A g \in Handle : \A places :
           IsHeld(g, places)' <=> g # o /\ IsHeld(g, places)
      /\ \A places : IsHeld(o, places) <=> ownPc[a].at \in places
  BY <1>0, <1>3, <1>4, HandsOpen
<1>6. /\ RegistryKept' /\ xQueueRegistry' \in Registries
      /\ \A i \in O!Entry :
           xQueueRegistry'[i] = xQueueRegistry[i] \/ xQueueRegistry'[i] = "TmrQ"
  BY <1>4, RegistryChecked
<1>7. WaitingKept' /\ ActorsKept' /\ O!CountsAgree' /\ O!Existing' = O!Existing
  <2>1. ownPc[a].at # "deleted" /\ ownPc'[a].at # "deleted"
    BY <1>1, <1>5
  <2> QED BY <1>1, <1>4, <1>5, <2>1, ActorsFrame
<1>8. ASSUME NEW b \in Actor, b # a PROVE HandRight(b)'
  <2>1. \A i \in O!Entry : ownPc[b].of \in Queues /\ xQueueRegistry'[i] = ownPc[b].of =>
                             xQueueRegistry[i] = ownPc[b].of
    BY <1>6, HandlesDiffer
  <2> QED BY <1>4, <1>5, <1>7, <1>8, <2>1, HandsFrame
<1>9. PartsKept'
  <2>1. ASSUME NEW g \in Handle
        PROVE  /\ g \in O!Task => StackKept(g)' /\ TCBKept(g)'
               /\ g \in O!Object => ObjectKept(g)'
    <3>1. CASE g = o
      <4>1. ObjectKept(o)
        BY <1>2, <1>3 DEF PartsKept
      <4> QED BY <1>1, <1>3, <1>4, <1>5, <3>1, <4>1 DEF ObjectKept
    <3>2. CASE g # o
      BY <1>2, <1>4, <1>5, <1>7, <3>2, PartsFrame
    <3> QED BY <3>1, <3>2
  <2> QED BY <2>1 DEF PartsKept, Handle
<1>10. ObjectTypes'
  BY <1>2, <1>3, <1>4, <1>5, <1>6 DEF ObjectTypes, Registries
<1> QED BY <1>5, <1>6, <1>7, <1>8, <1>9, <1>10 DEF ObjectsInv, HandsKept

\* The entry that was chosen is written.
LEMMA WritesEntry ==
  ASSUME ObjectsInv, NEW a \in Actor, O!WriteEntry(a)
  PROVE  ObjectsInv'
<1>0. PICK q, e : q = ownPc[a].of /\ e = ownPc[a].entry
  OBVIOUS
<1>1. /\ ownPc[a].at = "register"
      /\ xSchedulerRunning => a \in listed
      /\ ~xSchedulerRunning => a = "main"
  <2>1. O!Runs(a, "register") /\ "register" \in Places
    BY DEF O!WriteEntry, Places
  <2> QED BY <2>1, RunsOK
<1>2. ObjectTypes /\ OneHolder /\ PartsKept /\ RegistryKept /\ HandsKept
  BY DEF ObjectsInv
<1>3. /\ q \in O!Object /\ q \in Queues /\ q \in Handle /\ q \notin O!Task /\ q \in objects
      /\ e \in O!Entry /\ \A i \in O!Entry : xQueueRegistry[i] = q => i = e
  <2>1. HandRight(a)
    BY <1>2 DEF HandsKept
  <2> QED BY <1>0, <1>1, <2>1, HandlesDiffer DEF HandRight, O!Object
<1>4. /\ UNCHANGED << heap, statically, uxPriority, listed, xTasksWaitingTermination,
                      uxDeletedTasksWaitingCleanUp, uxCurrentNumberOfTasks, pxCurrentTCB,
                      xSchedulerRunning, objects, timerQueueCreated >>
      /\ xQueueRegistry' = [xQueueRegistry EXCEPT ![e] = q]
      /\ O!Return(a)
  BY <1>0 DEF O!WriteEntry, O!tasks, O!counts
<1>5. /\ ownPc' \in [Actor -> InHand] /\ OneHolder'
      /\ ownPc'[a].at = "app" /\ HandRight(a)'
      /\ \A b \in Actor : b # a => ownPc'[b] = ownPc[b] /\ ownPc[b].of # q
      /\ \A g \in Handle : \A places :
           IsHeld(g, places)' <=> g # q /\ IsHeld(g, places)
      /\ \A places : IsHeld(q, places) <=> ownPc[a].at \in places
  BY <1>0, <1>3, <1>4, HandsOpen
<1>6. /\ xQueueRegistry' \in Registries
      /\ \A i \in O!Entry : xQueueRegistry'[i] = IF i = e THEN q ELSE xQueueRegistry[i]
  BY <1>2, <1>3, <1>4 DEF ObjectTypes, Registries
<1>7. WaitingKept' /\ ActorsKept' /\ O!CountsAgree' /\ O!Existing' = O!Existing
  <2>1. ownPc[a].at # "deleted" /\ ownPc'[a].at # "deleted"
    BY <1>1, <1>5
  <2> QED BY <1>1, <1>4, <1>5, <2>1, ActorsFrame
<1>8. ASSUME NEW b \in Actor, b # a PROVE HandRight(b)'
  BY <1>4, <1>5, <1>6, <1>7, <1>8, HandsFrame
<1>9. PartsKept'
  <2>1. ASSUME NEW g \in Handle
        PROVE  /\ g \in O!Task => StackKept(g)' /\ TCBKept(g)'
               /\ g \in O!Object => ObjectKept(g)'
    <3>1. CASE g = q
      <4>1. ObjectKept(q)
        BY <1>2, <1>3 DEF PartsKept
      <4> QED BY <1>1, <1>3, <1>4, <1>5, <3>1, <4>1 DEF ObjectKept
    <3>2. CASE g # q
      BY <1>2, <1>4, <1>5, <1>7, <3>2, PartsFrame
    <3> QED BY <3>1, <3>2
  <2> QED BY <2>1 DEF PartsKept, Handle
<1>10. RegistryKept'
  <2>1. q \notin {"none", "TmrQ"}
    BY <1>3, HandlesDiffer
  <2>2. \A i \in O!Entry : xQueueRegistry'[i] \in objects' \cup {"none", "TmrQ"}
    BY <1>2, <1>3, <1>4, <1>6 DEF RegistryKept, O!RegistryCurrent
  <2>3. \A i, j \in O!Entry :
          xQueueRegistry'[i] = xQueueRegistry'[j] /\ xQueueRegistry'[i] # "none" => i = j
    BY <1>2, <1>3, <1>6, <2>1 DEF RegistryKept, O!RegistryCurrent
  <2>4. ~timerQueueCreated => \A i \in O!Entry : xQueueRegistry'[i] # "TmrQ"
    BY <1>2, <1>6, <2>1 DEF RegistryKept
  <2> QED BY <1>4, <2>2, <2>3, <2>4 DEF RegistryKept, O!RegistryCurrent
<1>11. ObjectTypes'
  BY <1>2, <1>3, <1>4, <1>5, <1>6 DEF ObjectTypes, Registries
<1> QED BY <1>5, <1>7, <1>8, <1>9, <1>10, <1>11 DEF ObjectsInv, HandsKept

\* A queue has no entry once its entry is given back.
LEMMA RegistryWithout ==
  ASSUME ObjectsInv, NEW q \in Queues, xQueueRegistry' = O!Unregistered(q),
         objects' = objects \/ objects' = objects \ {q}, UNCHANGED timerQueueCreated
  PROVE  /\ RegistryKept' /\ xQueueRegistry' \in Registries
         /\ \A i \in O!Entry :
              xQueueRegistry'[i] = xQueueRegistry[i] \/ xQueueRegistry'[i] = "none"
<1>1. RegistryKept /\ xQueueRegistry \in Registries
  BY DEF ObjectsInv, ObjectTypes, Registries
<1>2. q \notin {"none", "TmrQ"}
  BY HandlesDiffer
<1> DEFINE own == {i \in O!Entry : xQueueRegistry[i] = q}
<1>3. CASE own = {}
  <2>1. xQueueRegistry' = xQueueRegistry
    BY <1>3 DEF O!Unregistered
  <2> QED BY <1>1, <1>2, <1>3, <2>1 DEF RegistryKept, O!RegistryCurrent
<1>4. CASE own # {}
  <2>1. PICK e \in own : xQueueRegistry' = [xQueueRegistry EXCEPT ![e] = "none"]
    <3>1. O!Min(own) \in own
      BY <1>4, FirstEntry
    <3>2. xQueueRegistry' = [xQueueRegistry EXCEPT ![O!Min(own)] = "none"]
      BY <1>4 DEF O!Unregistered
    <3> QED BY <3>1, <3>2
  <2>2. \A i \in O!Entry : xQueueRegistry[i] = q => i = e
    BY <1>1, <1>2, <2>1 DEF RegistryKept, O!RegistryCurrent
  <2>3. /\ xQueueRegistry' \in Registries
        /\ \A i \in O!Entry : xQueueRegistry'[i] = IF i = e THEN "none" ELSE xQueueRegistry[i]
    BY <1>1, <2>1 DEF Registries
  <2>4. RegistryKept'
    BY <1>1, <1>2, <2>2, <2>3 DEF RegistryKept, O!RegistryCurrent
  <2> QED BY <2>3, <2>4
<1> QED BY <1>3, <1>4

\* An entry is chosen for a queue: the one that it has.
LEMMA AddsToRegistry ==
  ASSUME ObjectsInv, NEW a \in Actor, NEW q \in Queues, O!vQueueAddToRegistry(a, q)
  PROVE  ObjectsInv'
<1>0. PICK e : e = O!EntryFor(q)
  OBVIOUS
<1>1. /\ ownPc[a].at = "app" /\ ownPc[a].of = NoTask
      /\ xSchedulerRunning => a \in listed
      /\ ~xSchedulerRunning => a = "main"
  BY AppOK DEF O!vQueueAddToRegistry
<1>2. ObjectTypes /\ OneHolder /\ PartsKept /\ RegistryKept /\ HandsKept
  BY DEF ObjectsInv
<1>3. /\ q \in O!Object /\ q \in Handle /\ q \notin O!Task /\ q # NoTask /\ "register" \in Places
      /\ q \notin {"none", "TmrQ"} /\ 0 \notin O!Entry
  BY HandlesDiffer DEF O!Object, Places
<1>4. /\ UNCHANGED << heap, statically, uxPriority, listed, xTasksWaitingTermination,
                      uxDeletedTasksWaitingCleanUp, uxCurrentNumberOfTasks, pxCurrentTCB,
                      xSchedulerRunning, objects, timerQueueCreated, xQueueRegistry >>
      /\ ownPc' = [ownPc EXCEPT ![a] = [at |-> "register", of |-> q, entry |-> e]]
      /\ q \in objects /\ ~O!InUse(q) /\ e # 0
  BY <1>0 DEF O!vQueueAddToRegistry, O!tasks, O!counts, O!others
<1>5. e \in O!Entry /\ \A i \in O!Entry : xQueueRegistry[i] = q => i = e
  <2> DEFINE own == {i \in O!Entry : xQueueRegistry[i] = q}
             free == {i \in O!Entry : xQueueRegistry[i] = "none"}
  <2>1. e = IF own # {} THEN O!Min(own) ELSE IF free # {} THEN O!Min(free) ELSE 0
    BY <1>0 DEF O!EntryFor
  <2>2. CASE own # {}
    <3>1. e \in own
      BY <2>1, <2>2, FirstEntry
    <3> QED BY <1>2, <1>3, <3>1 DEF RegistryKept, O!RegistryCurrent
  <2>3. CASE own = {}
    <3>1. e \in free
      BY <1>4, <2>1, <2>3, FirstEntry
    <3> QED BY <2>3, <3>1
  <2> QED BY <2>2, <2>3
<1>6. /\ ownPc' \in [Actor -> InHand]
      /\ ownPc'[a].at = "register" /\ ownPc'[a].of = q /\ ownPc'[a].entry = e
      /\ \A b \in Actor : b # a => ownPc'[b] = ownPc[b]
      /\ OneHolder'
      /\ \A g \in Handle : \A places :
           IsHeld(g, places)' <=>
             \/ g = q /\ "register" \in places
             \/ g # q /\ g # ownPc[a].of /\ IsHeld(g, places)
  <2>1. ownPc \in [Actor -> InHand] /\ q \in Handle \cup {NoTask} /\ e \in O!Entry \cup {0}
    BY <1>2, <1>3, <1>5 DEF ObjectTypes
  <2> QED BY ONLY <1>2, <1>3, <1>4, <2>1, HandsMove, a \in Actor
<1>7. WaitingKept' /\ ActorsKept' /\ O!CountsAgree' /\ O!Existing' = O!Existing
  <2>1. ownPc[a].at # "deleted" /\ ownPc'[a].at # "deleted"
    BY <1>1, <1>6
  <2> QED BY <1>1, <1>4, <1>6, <2>1, ActorsFrame
<1>8. ASSUME NEW b \in Actor PROVE HandRight(b)'
  <2>1. CASE b = a
    BY <1>3, <1>4, <1>5, <1>6, <2>1 DEF HandRight
  <2>2. CASE b # a
    BY <1>4, <1>6, <1>7, <2>2, HandsFrame
  <2> QED BY <2>1, <2>2
<1>9. PartsKept'
  <2>1. ASSUME NEW g \in Handle
        PROVE  /\ g \in O!Task => StackKept(g)' /\ TCBKept(g)'
               /\ g \in O!Object => ObjectKept(g)'
    <3>1. CASE g = q
      <4>1. ObjectKept(q) /\ ~IsHeld(q, {"timer", "freeObject"})
        BY <1>2, <1>3, <1>4, NotHeld DEF PartsKept, ObjectTypes
      <4> QED BY <1>3, <1>4, <1>6, <3>1, <4>1 DEF ObjectKept
    <3>2. CASE g # q
      <4>1. \A places : IsHeld(g, places)' <=> IsHeld(g, places)
        BY <1>1, <1>6, <3>2, HandlesDiffer
      <4> QED BY <1>2, <1>4, <1>7, <3>2, <4>1, PartsFrame
    <3> QED BY <3>1, <3>2
  <2> QED BY <2>1 DEF PartsKept, Handle
<1>10. RegistryKept'
  BY <1>2, <1>4, RegistryFrame
<1>11. ObjectTypes'
  BY <1>2, <1>4, <1>6 DEF ObjectTypes
<1> QED BY <1>6, <1>7, <1>8, <1>9, <1>10, <1>11 DEF ObjectsInv, HandsKept

\* An entry is given back.
LEMMA Unregisters ==
  ASSUME ObjectsInv, NEW a \in Actor, NEW q \in Queues, O!vQueueUnregisterQueue(a, q)
  PROVE  ObjectsInv'
<1>1. /\ ownPc[a].at = "app"
      /\ xSchedulerRunning => a \in listed
      /\ ~xSchedulerRunning => a = "main"
  BY AppOK DEF O!vQueueUnregisterQueue
<1>2. ObjectTypes /\ OneHolder /\ PartsKept /\ RegistryKept /\ HandsKept
  BY DEF ObjectsInv
<1>3. /\ UNCHANGED << heap, statically, uxPriority, listed, xTasksWaitingTermination,
                      uxDeletedTasksWaitingCleanUp, uxCurrentNumberOfTasks, pxCurrentTCB,
                      xSchedulerRunning, objects, timerQueueCreated, ownPc >>
      /\ xQueueRegistry' = O!Unregistered(q)
  BY DEF O!vQueueUnregisterQueue, O!tasks, O!counts
<1>4. /\ RegistryKept' /\ xQueueRegistry' \in Registries
      /\ \A i \in O!Entry :
           xQueueRegistry'[i] = xQueueRegistry[i] \/ xQueueRegistry'[i] = "none"
  BY <1>3, RegistryWithout
<1>5. WaitingKept' /\ ActorsKept' /\ O!CountsAgree' /\ O!Existing' = O!Existing
  BY <1>1, <1>3, ActorsFrame
<1>6. ASSUME NEW b \in Actor PROVE HandRight(b)'
  <2>1. \A i \in O!Entry : ownPc[b].of \in Queues /\ xQueueRegistry'[i] = ownPc[b].of =>
                             xQueueRegistry[i] = ownPc[b].of
    BY <1>4, HandlesDiffer
  <2> QED BY <1>3, <1>5, <2>1, HandsFrame
<1>7. PartsKept'
  BY <1>2, <1>3, <1>5 DEF PartsKept, StackKept, TCBKept, ObjectKept, IsHeld
<1>8. ObjectTypes' /\ OneHolder'
  BY <1>2, <1>3, <1>4 DEF ObjectTypes, Registries, OneHolder
<1> QED BY <1>4, <1>5, <1>6, <1>7, <1>8 DEF ObjectsInv, HandsKept

Deletes(a, o) ==
  /\ O!App(a) /\ o \in objects /\ ~O!InUse(o) /\ objects' = objects \ {o}
  /\ ownPc' = [ownPc EXCEPT ![a] = [at |-> "freeObject", of |-> o, entry |-> 0]]
  /\ UNCHANGED << heap, statically, O!tasks, timerQueueCreated >>
  /\ \/ o \in Queues /\ xQueueRegistry' = O!Unregistered(o)
     \/ o \notin Queues /\ UNCHANGED xQueueRegistry

\* An object goes, and is in the hands of the one who deletes it.
LEMMA DeletesObject ==
  ASSUME ObjectsInv, NEW a \in Actor,
         \/ \E q \in Queues : O!vQueueDelete(a, q)
         \/ \E g \in EventGroups : O!vEventGroupDelete(a, g)
         \/ \E r \in Timers : a = "Tmr Svc" /\ O!DeleteTimer(r)
  PROVE  ObjectsInv'
<1>a. PICK o \in O!Object : Deletes(a, o)
  <2>1. ASSUME NEW q \in Queues, O!vQueueDelete(a, q) PROVE q \in O!Object /\ Deletes(a, q)
    BY <2>1 DEF O!vQueueDelete, O!Goto, O!Object, Deletes
  <2>2. ASSUME NEW g \in EventGroups, O!vEventGroupDelete(a, g)
        PROVE  g \in O!Object /\ Deletes(a, g)
    BY <2>2, HandlesDiffer DEF O!vEventGroupDelete, O!Goto, O!Object, Deletes
  <2>3. ASSUME NEW r \in Timers, a = "Tmr Svc", O!DeleteTimer(r)
        PROVE  r \in O!Object /\ Deletes(a, r)
    BY <2>3, HandlesDiffer DEF O!DeleteTimer, O!Goto, O!Object, Deletes
  <2> QED BY <2>1, <2>2, <2>3
<1>0. /\ O!App(a) /\ o \in objects /\ ~O!InUse(o) /\ objects' = objects \ {o}
      /\ ownPc' = [ownPc EXCEPT ![a] = [at |-> "freeObject", of |-> o, entry |-> 0]]
      /\ UNCHANGED << heap, statically, O!tasks, timerQueueCreated >>
      /\ \/ o \in Queues /\ xQueueRegistry' = O!Unregistered(o)
         \/ o \notin Queues /\ UNCHANGED xQueueRegistry
  BY <1>a DEF Deletes
<1>1. /\ ownPc[a].at = "app" /\ ownPc[a].of = NoTask
      /\ xSchedulerRunning => a \in listed
      /\ ~xSchedulerRunning => a = "main"
  BY <1>0, AppOK
<1>2. ObjectTypes /\ OneHolder /\ PartsKept /\ RegistryKept /\ HandsKept
  BY DEF ObjectsInv
<1>3. /\ o \in Handle /\ o \notin O!Task /\ o # NoTask /\ "freeObject" \in Places
      /\ 0 \in O!Entry \cup {0}
  BY HandlesDiffer DEF Places
<1>4. UNCHANGED << heap, statically, uxPriority, listed, xTasksWaitingTermination,
                   uxDeletedTasksWaitingCleanUp, uxCurrentNumberOfTasks, pxCurrentTCB,
                   xSchedulerRunning, timerQueueCreated >>
  BY <1>0 DEF O!tasks, O!counts
<1>5. /\ RegistryKept' /\ xQueueRegistry' \in Registries
      /\ \A i \in O!Entry :
           xQueueRegistry'[i] = xQueueRegistry[i] \/ xQueueRegistry'[i] = "none"
  <2>1. CASE o \in Queues /\ xQueueRegistry' = O!Unregistered(o)
    BY <1>0, <1>4, <2>1, RegistryWithout
  <2>2. CASE o \notin Queues /\ UNCHANGED xQueueRegistry
    <3>1. xQueueRegistry \in Registries /\ o \notin {"none", "TmrQ"}
      BY <1>2, HandlesApart DEF ObjectTypes, Registries, HandlesApart, O!Object
    <3>2. \A i \in O!Entry : xQueueRegistry[i] # o
      BY <2>2, <3>1 DEF Registries
    <3>3. \A i \in O!Entry : xQueueRegistry'[i] \in objects' \cup {"none", "TmrQ"}
      BY <1>0, <1>2, <2>2, <3>2 DEF RegistryKept, O!RegistryCurrent
    <3>4. RegistryKept'
      BY <1>2, <1>4, <2>2, <3>3 DEF RegistryKept, O!RegistryCurrent
    <3> QED BY <2>2, <3>1, <3>4
  <2> QED BY <1>0, <2>1, <2>2
<1>6. /\ ownPc' \in [Actor -> InHand]
      /\ ownPc'[a].at = "freeObject" /\ ownPc'[a].of = o /\ ownPc'[a].entry = 0
      /\ \A b \in Actor : b # a => ownPc'[b] = ownPc[b] /\ ownPc[b].of # o
      /\ OneHolder'
      /\ \A g \in Handle : \A places :
           IsHeld(g, places)' <=>
             \/ g = o /\ "freeObject" \in places
             \/ g # o /\ g # ownPc[a].of /\ IsHeld(g, places)
  <2>1. ownPc \in [Actor -> InHand] /\ o \in Handle \cup {NoTask}
    BY <1>2, <1>3 DEF ObjectTypes
  <2>2. /\ ownPc' \in [Actor -> InHand]
        /\ ownPc'[a].at = "freeObject" /\ ownPc'[a].of = o /\ ownPc'[a].entry = 0
        /\ \A b \in Actor : b # a => ownPc'[b] = ownPc[b]
        /\ OneHolder'
        /\ \A g \in Handle : \A places :
             IsHeld(g, places)' <=>
               \/ g = o /\ "freeObject" \in places
               \/ g # o /\ g # ownPc[a].of /\ IsHeld(g, places)
    BY ONLY <1>0, <1>2, <1>3, <2>1, HandsMove, a \in Actor
  <2>3. \A b \in Actor : ownPc[b].of # o
    BY <1>0, <2>1 DEF O!InUse
  <2> QED BY <2>2, <2>3
<1>7. WaitingKept' /\ ActorsKept' /\ O!CountsAgree' /\ O!Existing' = O!Existing
  <2>1. ownPc[a].at # "deleted" /\ ownPc'[a].at # "deleted"
    BY <1>1, <1>6
  <2> QED BY <1>1, <1>4, <1>6, <2>1, ActorsFrame
<1>8. ASSUME NEW b \in Actor PROVE HandRight(b)'
  <2>1. CASE b = a
    BY <1>0, <1>3, <1>6, <2>1 DEF HandRight
  <2>2. CASE b # a
    <3>1. \A i \in O!Entry : ownPc[b].of \in Queues /\ xQueueRegistry'[i] = ownPc[b].of =>
                               xQueueRegistry[i] = ownPc[b].of
      BY <1>5, HandlesDiffer
    <3> QED BY <1>0, <1>4, <1>6, <1>7, <2>2, <3>1, HandsFrame
  <2> QED BY <2>1, <2>2
<1>9. PartsKept'
  <2>1. ASSUME NEW g \in Handle
        PROVE  /\ g \in O!Task => StackKept(g)' /\ TCBKept(g)'
               /\ g \in O!Object => ObjectKept(g)'
    <3>1. CASE g = o
      <4>1. ObjectKept(o)
        BY <1>2 DEF PartsKept
      <4> QED BY <1>0, <1>3, <1>4, <1>6, <3>1, <4>1 DEF ObjectKept
    <3>2. CASE g # o
      <4>1. \A places : IsHeld(g, places)' <=> IsHeld(g, places)
        BY <1>1, <1>6, <3>2, HandlesDiffer
      <4> QED BY <1>0, <1>2, <1>4, <1>7, <3>2, <4>1, PartsFrame
    <3> QED BY <3>1, <3>2
  <2> QED BY <2>1 DEF PartsKept, Handle
<1>10. ObjectTypes'
  BY <1>0, <1>2, <1>4, <1>5, <1>6 DEF ObjectTypes, Registries
<1> QED BY <1>5, <1>6, <1>7, <1>8, <1>9, <1>10 DEF ObjectsInv, HandsKept

\* The counts, when one comes or goes.
LEMMA Counted ==
  ASSUME NEW S, IsFiniteSet(S), NEW x
  PROVE  /\ IsFiniteSet(S \cup {x}) /\ IsFiniteSet(S \ {x})
         /\ O!Cardinality(S) \in Nat
         /\ x \notin S => O!Cardinality(S \cup {x}) = O!Cardinality(S) + 1
         /\ x \in S => O!Cardinality(S \ {x}) = O!Cardinality(S) - 1
<1>1. \A set : O!Cardinality(set) = Cardinality(set)
  BY DEF O!Cardinality, Cardinality
<1> QED BY <1>1, FS_AddElement, FS_RemoveElement, FS_CardinalityType

LEMMA ExistingFinite ==
  ASSUME ObjectsInv
  PROVE  IsFiniteSet(O!Existing)
<1>1. IsFiniteSet(listed) /\ IsFiniteSet(Waiting)
  BY DEF ObjectsInv, ObjectTypes, WaitingKept
<1> QED BY <1>1, FS_Union DEF O!Existing, Waiting

\* A new task is ready.
LEMMA AddsTask ==
  ASSUME ObjectsInv, NEW a \in Actor, O!prvAddNewTaskToReadyList(a)
  PROVE  ObjectsInv'
<1>0. PICK t : t = ownPc[a].of
  OBVIOUS
<1>1. /\ ownPc[a].at = "add"
      /\ xSchedulerRunning => a \in listed
      /\ ~xSchedulerRunning => a = "main"
  <2>1. O!Runs(a, "add") /\ "add" \in Places
    BY DEF O!prvAddNewTaskToReadyList, Places
  <2> QED BY <2>1, RunsOK
<1>2. ObjectTypes /\ OneHolder /\ PartsKept /\ RegistryKept /\ HandsKept /\ ActorsKept
      /\ WaitingKept /\ O!CountsAgree
  BY DEF ObjectsInv
<1>3. /\ t \in Worker /\ t \in Handle /\ t \in O!Task /\ t \notin O!Object /\ t # NoTask
      /\ t \notin O!Existing /\ t \notin listed /\ t \notin Waiting
      /\ t \notin {"IDLE", "Tmr Svc"}
  <2>1. HandRight(a)
    BY <1>2 DEF HandsKept
  <2> QED BY <1>0, <1>1, <2>1, HandlesDiffer DEF HandRight, O!Existing, Waiting
<1>4. /\ UNCHANGED << heap, statically, uxPriority, xTasksWaitingTermination,
                      uxDeletedTasksWaitingCleanUp, xSchedulerRunning,
                      objects, timerQueueCreated, xQueueRegistry >>
      /\ uxCurrentNumberOfTasks' = uxCurrentNumberOfTasks + 1
      /\ listed' = listed \cup {t}
      /\ pxCurrentTCB' = (IF xSchedulerRunning THEN pxCurrentTCB
                          ELSE O!First(pxCurrentTCB, t, uxPriority))
      /\ O!Return(a)
  BY <1>0 DEF O!prvAddNewTaskToReadyList, O!others
<1>5. /\ ownPc' \in [Actor -> InHand] /\ OneHolder'
      /\ ownPc'[a].at = "app" /\ HandRight(a)'
      /\ \A b \in Actor : b # a => ownPc'[b] = ownPc[b] /\ ownPc[b].of # t
      /\ \A g \in Handle : \A places :
           IsHeld(g, places)' <=> g # t /\ IsHeld(g, places)
      /\ \A places : IsHeld(t, places) <=> ownPc[a].at \in places
  BY <1>0, <1>3, <1>4, HandsOpen
<1>6. Waiting' = Waiting /\ O!Existing' = O!Existing \cup {t}
  BY <1>4 DEF Waiting, O!Existing
<1>7. WaitingKept' /\ O!CountsAgree'
  <2>1. IsFiniteSet(O!Existing)
    BY ExistingFinite
  <2>2. O!Cardinality(O!Existing \cup {t}) = O!Cardinality(O!Existing) + 1
    BY <1>3, <2>1, Counted
  <2>3. O!CountsAgree'
    BY <1>2, <1>4, <1>6, <2>2 DEF O!CountsAgree
  <2> QED BY <1>2, <1>3, <1>4, <1>6, <2>3 DEF WaitingKept
<1>8. ActorsKept'
  <2>1. \A u \in O!Task : ownPc'[u] = ownPc[u] \/ ownPc'[u].at = "app"
    BY <1>5, HandlesDiffer
  <2>2. \A u \in O!Task : (u \in Waiting)' <=> (ownPc'[u].at = "deleted")
    <3>1. a \in O!Task => a \notin Waiting /\ ownPc[a].at # "deleted"
      BY <1>1, <1>2 DEF ActorsKept
    <3> QED BY <1>2, <1>5, <1>6, <3>1, HandlesDiffer DEF ActorsKept
  <2>3. \A u \in O!Task : u \notin O!Existing' => ownPc'[u].at = "app"
    BY <1>2, <1>6, <2>1 DEF ActorsKept
  <2>4. ownPc'["main"].at # "deleted"
    BY <1>2, <1>5 DEF ActorsKept, Actor
  <2>5. ASSUME xSchedulerRunning
        PROVE  /\ ownPc'["main"].at = "app" /\ {"IDLE", "Tmr Svc"} \subseteq listed'
               /\ pxCurrentTCB' \in O!Existing'
    BY <1>2, <1>4, <1>5, <1>6, <2>5 DEF ActorsKept, Actor
  <2>6. ASSUME ~xSchedulerRunning
        PROVE  /\ {"IDLE", "Tmr Svc"} \cap listed' = {} /\ Waiting' = {}
               /\ \A u \in O!Task : ownPc'[u].at = "app"
               /\ pxCurrentTCB' \in listed' \cup {NoTask}
               /\ pxCurrentTCB' = NoTask => listed' = {}
               /\ \A u \in listed' : uxPriority'[u] <= uxPriority'[pxCurrentTCB']
    <3>1. /\ pxCurrentTCB \in listed \cup {NoTask}
          /\ pxCurrentTCB = NoTask => listed = {}
          /\ \A u \in listed : uxPriority[u] <= uxPriority[pxCurrentTCB]
          /\ \A u \in O!Task : ownPc[u].at = "app"
          /\ {"IDLE", "Tmr Svc"} \cap listed = {} /\ Waiting = {}
      BY <1>2, <2>6 DEF ActorsKept
    <3>2. pxCurrentTCB' = IF pxCurrentTCB = NoTask \/ uxPriority[pxCurrentTCB] <= uxPriority[t]
                          THEN t ELSE pxCurrentTCB
      BY <1>4, <2>6 DEF O!First
    <3>3. uxPriority' = uxPriority /\ \A u \in listed \cup {t} : uxPriority[u] \in Nat
      BY <1>2, <1>3, <1>4 DEF ObjectTypes
    <3>4. \A u \in listed' : uxPriority'[u] <= uxPriority'[pxCurrentTCB']
      <4>1. CASE pxCurrentTCB' = t
        <5>1. \A u \in listed : uxPriority[u] <= uxPriority[t]
          <6> SUFFICES ASSUME NEW u \in listed PROVE uxPriority[u] <= uxPriority[t]
            OBVIOUS
          <6>1. pxCurrentTCB \in listed /\ uxPriority[pxCurrentTCB] <= uxPriority[t]
                /\ uxPriority[u] <= uxPriority[pxCurrentTCB]
            BY <1>3, <3>1, <3>2, <4>1
          <6>2. PICK x, y, z \in Nat : x = uxPriority[u] /\ y = uxPriority[pxCurrentTCB]
                                         /\ z = uxPriority[t]
            BY <3>3, <6>1
          <6>3. x <= y /\ y <= z
            BY <6>1, <6>2
          <6> QED BY <6>2, <6>3
        <5>2. uxPriority[t] <= uxPriority[t]
          BY <3>3
        <5> QED BY <1>4, <3>3, <4>1, <5>1, <5>2
      <4>2. CASE pxCurrentTCB' # t
        <5>1. /\ pxCurrentTCB' = pxCurrentTCB /\ pxCurrentTCB \in listed
              /\ ~(uxPriority[pxCurrentTCB] <= uxPriority[t])
          BY <3>1, <3>2, <4>2
        <5>2. PICK y, z \in Nat : y = uxPriority[pxCurrentTCB] /\ z = uxPriority[t]
          BY <3>3, <5>1
        <5>3. z <= y
          BY <5>1, <5>2
        <5> QED BY <1>4, <3>1, <3>3, <5>1, <5>2, <5>3
      <4> QED BY <4>1, <4>2
    <3> QED BY <1>3, <1>4, <1>6, <2>1, <3>1, <3>2, <3>4
  <2> QED BY <1>4, <2>2, <2>3, <2>4, <2>5, <2>6 DEF ActorsKept
<1>9. ASSUME NEW b \in Actor, b # a PROVE HandRight(b)'
  BY <1>4, <1>5, <1>6, <1>9, HandsFrame
<1>10. PartsKept'
  <2>1. ASSUME NEW g \in Handle
        PROVE  /\ g \in O!Task => StackKept(g)' /\ TCBKept(g)'
               /\ g \in O!Object => ObjectKept(g)'
    <3>1. CASE g = t
      <4>1. StackKept(t) /\ TCBKept(t)
        BY <1>2, <1>3 DEF PartsKept
      <4> QED BY <1>1, <1>3, <1>4, <1>5, <1>6, <3>1, <4>1 DEF StackKept, TCBKept
    <3>2. CASE g # t
      BY <1>2, <1>4, <1>5, <1>6, <3>2, PartsFrame
    <3> QED BY <3>1, <3>2
  <2> QED BY <2>1 DEF PartsKept, Handle
<1>11. RegistryKept'
  BY <1>2, <1>4, RegistryFrame
<1>12. ObjectTypes'
  <2>1. IsFiniteSet(listed')
    BY <1>2, <1>4, Counted DEF ObjectTypes
  <2>2. uxCurrentNumberOfTasks' \in Int
    <3>1. uxCurrentNumberOfTasks \in Int
      BY <1>2 DEF ObjectTypes
    <3> QED BY <1>4, <3>1
  <2>3. listed' \subseteq O!Task
    <3>1. listed \subseteq O!Task
      BY <1>2 DEF ObjectTypes
    <3> QED BY <1>3, <1>4, <3>1
  <2> QED BY <1>2, <1>4, <1>5, <2>1, <2>2, <2>3 DEF ObjectTypes
<1> QED BY <1>5, <1>7, <1>8, <1>9, <1>10, <1>11, <1>12 DEF ObjectsInv, HandsKept

\* A task that deletes itself waits for the idle task.
LEMMA DeletesSelf ==
  ASSUME ObjectsInv, NEW a \in Actor, O!DeleteSelf(a)
  PROVE  ObjectsInv'
<1>1. /\ a \in Worker /\ a \in O!Task /\ xSchedulerRunning /\ a \in listed
      /\ ownPc[a].at = "app" /\ ownPc[a].of = NoTask /\ a \notin {"IDLE", "Tmr Svc"}
  BY AppOK, HandlesDiffer DEF O!DeleteSelf
<1>2. ObjectTypes /\ OneHolder /\ PartsKept /\ RegistryKept /\ HandsKept /\ ActorsKept
      /\ WaitingKept /\ O!CountsAgree
  BY DEF ObjectsInv
<1>3. /\ UNCHANGED << heap, statically, uxPriority, uxCurrentNumberOfTasks, pxCurrentTCB,
                      xSchedulerRunning, objects, timerQueueCreated, xQueueRegistry >>
      /\ listed' = listed \ {a}
      /\ xTasksWaitingTermination' = Append(xTasksWaitingTermination, a)
      /\ uxDeletedTasksWaitingCleanUp' = uxDeletedTasksWaitingCleanUp + 1
      /\ ownPc' = [ownPc EXCEPT ![a] = [at |-> "deleted", of |-> NoTask, entry |-> 0]]
  BY DEF O!DeleteSelf, O!Goto, O!others
<1>4. /\ xTasksWaitingTermination' \in Seq(Worker)
      /\ Len(xTasksWaitingTermination') = Len(xTasksWaitingTermination) + 1
      /\ Waiting' = Waiting \cup {a} /\ Once(xTasksWaitingTermination')
      /\ a \notin Waiting
  <2>1. a \notin O!ToSet(xTasksWaitingTermination)
    BY <1>1, <1>2 DEF WaitingKept, Waiting
  <2>2. xTasksWaitingTermination \in Seq(Worker) /\ Once(xTasksWaitingTermination)
    BY <1>2 DEF ObjectTypes, WaitingKept
  <2> QED BY <1>1, <1>3, <2>1, <2>2, WaitsLast DEF Waiting
<1>5. O!Existing' = O!Existing
  BY <1>1, <1>3, <1>4 DEF O!Existing, Waiting
<1>6. /\ ownPc' \in [Actor -> InHand] /\ OneHolder'
      /\ ownPc'[a].at = "deleted" /\ ownPc'[a].of = NoTask
      /\ \A b \in Actor : b # a => ownPc'[b] = ownPc[b]
      /\ \A g \in Handle : \A places : IsHeld(g, places)' <=> IsHeld(g, places)
  <2>1. ownPc \in [Actor -> InHand] /\ NoTask \in Handle \cup {NoTask} /\ "deleted" \in Places
        /\ 0 \in O!Entry \cup {0} /\ NoTask \notin Handle
    BY <1>2, HandlesDiffer DEF ObjectTypes, Places
  <2>2. /\ ownPc' \in [Actor -> InHand]
        /\ ownPc'[a].at = "deleted" /\ ownPc'[a].of = NoTask /\ ownPc'[a].entry = 0
        /\ \A b \in Actor : b # a => ownPc'[b] = ownPc[b]
        /\ OneHolder'
        /\ \A g \in Handle : \A places :
             IsHeld(g, places)' <=>
               \/ g = NoTask /\ "deleted" \in places
               \/ g # NoTask /\ g # ownPc[a].of /\ IsHeld(g, places)
    BY ONLY <1>2, <1>3, <2>1, HandsMove, a \in Actor
  <2> QED BY <1>1, <2>1, <2>2
<1>7. WaitingKept' /\ O!CountsAgree'
  <2>1. IsFiniteSet(Waiting')
    BY <1>2, <1>4, Counted DEF WaitingKept
  <2>2. Waiting' \cap listed' = {}
    BY <1>2, <1>3, <1>4 DEF WaitingKept
  <2>3. Len(xTasksWaitingTermination) \in Nat
    BY <1>2 DEF ObjectTypes
  <2> QED BY <1>2, <1>3, <1>4, <1>5, <2>1, <2>2, <2>3 DEF WaitingKept, O!CountsAgree
<1>8. ActorsKept'
  <2>1. \A u \in O!Task : (u \in Waiting)' <=> (ownPc'[u].at = "deleted")
    BY <1>2, <1>4, <1>6, HandlesDiffer DEF ActorsKept
  <2>2. \A u \in O!Task : u \notin O!Existing' => ownPc'[u].at = "app"
    <3>1. a \in O!Existing
      BY <1>1 DEF O!Existing
    <3> QED BY <1>2, <1>5, <1>6, <3>1, HandlesDiffer DEF ActorsKept
  <2>3. "main" \in Actor /\ "main" # a
    BY <1>1, HandlesDiffer DEF Actor
  <2> QED BY <1>1, <1>2, <1>3, <1>5, <1>6, <2>1, <2>2, <2>3 DEF ActorsKept
<1>9. ASSUME NEW b \in Actor PROVE HandRight(b)'
  <2>1. CASE b = a
    BY <1>6, <2>1 DEF HandRight
  <2>2. CASE b # a
    BY <1>3, <1>5, <1>6, <2>2, HandsFrame
  <2> QED BY <2>1, <2>2
<1>10. PartsKept'
  BY <1>2, <1>3, <1>5, <1>6 DEF PartsKept, StackKept, TCBKept, ObjectKept, Handle
<1>11. RegistryKept'
  BY <1>2, <1>3, RegistryFrame
<1>12. ObjectTypes'
  <2>1. IsFiniteSet(listed')
    BY <1>2, <1>3, Counted DEF ObjectTypes
  <2> QED BY <1>2, <1>3, <1>4, <1>6, <2>1 DEF ObjectTypes
<1> QED BY <1>6, <1>7, <1>8, <1>9, <1>10, <1>11, <1>12 DEF ObjectsInv, HandsKept

\* What exists, and is a task, is in nobody's hands.
LEMMA ListedNotHeld ==
  ASSUME ObjectsInv, NEW t \in O!Existing
  PROVE  t \in Handle /\ \A b \in Actor : ownPc[b].of # t
<1>1. t \in O!Task /\ t \in Handle /\ t # NoTask /\ t \notin O!Object
  BY ExistingType, HandlesDiffer DEF Handle
<1>2. ASSUME NEW b \in Actor, ownPc[b].of = t PROVE FALSE
  <2>1. HandRight(b) /\ ownPc[b].at \in Places
    BY DEF ObjectsInv, HandsKept, ObjectTypes, InHand
  <2> QED BY <1>1, <1>2, <2>1, HandlesDiffer DEF HandRight, Places, O!Object
<1> QED BY <1>1, <1>2

\* Another task is deleted.
LEMMA DeletesTask ==
  ASSUME ObjectsInv, NEW a \in Actor, NEW t \in Worker, O!vTaskDelete(a, t)
  PROVE  ObjectsInv'
<1>1. /\ xSchedulerRunning /\ a \in listed /\ a \in O!Existing /\ a = pxCurrentTCB
      /\ ownPc[a].at = "app" /\ ownPc[a].of = NoTask
  BY AppOK DEF O!vTaskDelete, O!Existing
<1>2. ObjectTypes /\ OneHolder /\ PartsKept /\ RegistryKept /\ HandsKept /\ ActorsKept
      /\ WaitingKept /\ O!CountsAgree
  BY DEF ObjectsInv
<1>3. /\ UNCHANGED << heap, statically, uxPriority, xTasksWaitingTermination,
                      uxDeletedTasksWaitingCleanUp, pxCurrentTCB,
                      xSchedulerRunning, objects, timerQueueCreated, xQueueRegistry >>
      /\ uxCurrentNumberOfTasks' = uxCurrentNumberOfTasks - 1
      /\ listed' = listed \ {t}
      /\ ownPc' = [ownPc EXCEPT ![a] = [at |-> "free", of |-> t, entry |-> 0]]
      /\ a # t /\ t \in listed /\ ownPc[t].at = "app"
  BY DEF O!vTaskDelete, O!Goto, O!others
<1>4. /\ t \in Handle /\ t \in O!Task /\ t \notin O!Object /\ t # NoTask
      /\ t \in O!Existing /\ t \notin Waiting /\ t \notin {"IDLE", "Tmr Svc"}
      /\ \A b \in Actor : ownPc[b].of # t
  <2>1. t \in O!Existing
    BY <1>3 DEF O!Existing
  <2> QED BY <1>2, <1>3, <2>1, ListedNotHeld, HandlesDiffer DEF WaitingKept
<1>5. Waiting' = Waiting /\ O!Existing' = O!Existing \ {t}
  BY <1>3, <1>4 DEF Waiting, O!Existing
<1>6. /\ ownPc' \in [Actor -> InHand]
      /\ ownPc'[a].at = "free" /\ ownPc'[a].of = t
      /\ \A b \in Actor : b # a => ownPc'[b] = ownPc[b]
      /\ OneHolder'
      /\ \A g \in Handle : \A places :
           IsHeld(g, places)' <=>
             \/ g = t /\ "free" \in places
             \/ g # t /\ IsHeld(g, places)
  <2>1. ownPc \in [Actor -> InHand] /\ t \in Handle \cup {NoTask} /\ "free" \in Places
        /\ 0 \in O!Entry \cup {0} /\ NoTask \notin Handle
    BY <1>2, <1>4, HandlesDiffer DEF ObjectTypes, Places
  <2>2. ~O!InUse(t)
    BY <1>4, <2>1 DEF O!InUse
  <2>3. /\ ownPc' \in [Actor -> InHand]
        /\ ownPc'[a].at = "free" /\ ownPc'[a].of = t /\ ownPc'[a].entry = 0
        /\ \A b \in Actor : b # a => ownPc'[b] = ownPc[b]
        /\ OneHolder'
        /\ \A g \in Handle : \A places :
             IsHeld(g, places)' <=>
               \/ g = t /\ "free" \in places
               \/ g # t /\ g # ownPc[a].of /\ IsHeld(g, places)
    BY ONLY <1>2, <1>3, <2>1, <2>2, HandsMove, a \in Actor
  <2> QED BY <1>1, <2>1, <2>3
<1>7. WaitingKept' /\ O!CountsAgree'
  <2>1. IsFiniteSet(O!Existing)
    BY ExistingFinite
  <2>2. O!Cardinality(O!Existing \ {t}) = O!Cardinality(O!Existing) - 1
    BY <1>4, <2>1, Counted
  <2>3. O!CountsAgree'
    BY <1>2, <1>3, <1>5, <2>2 DEF O!CountsAgree
  <2> QED BY <1>2, <1>3, <1>5, <2>3 DEF WaitingKept
<1>8. ActorsKept'
  <2>1. \A u \in O!Task : (u \in Waiting)' <=> (ownPc'[u].at = "deleted")
    BY <1>1, <1>2, <1>5, <1>6, HandlesDiffer DEF ActorsKept
  <2>2. \A u \in O!Task : u \notin O!Existing' => ownPc'[u].at = "app"
    BY <1>1, <1>2, <1>3, <1>5, <1>6, HandlesDiffer DEF ActorsKept
  <2>3. "main" \in Actor /\ "main" # a
    <3>1. a \in O!Task
      BY <1>1, <1>2 DEF ObjectTypes
    <3> QED BY <3>1, HandlesDiffer DEF Actor
  <2>4. pxCurrentTCB' \in O!Existing'
    BY <1>1, <1>3, <1>5
  <2> QED BY <1>1, <1>2, <1>3, <1>4, <1>6, <2>1, <2>2, <2>3, <2>4 DEF ActorsKept
<1>9. ASSUME NEW b \in Actor PROVE HandRight(b)'
  <2>1. CASE b = a
    BY <1>4, <1>5, <1>6, <2>1 DEF HandRight
  <2>2. CASE b # a
    BY <1>3, <1>4, <1>5, <1>6, <2>2, HandsFrame
  <2> QED BY <2>1, <2>2
<1>10. PartsKept'
  <2>1. ASSUME NEW g \in Handle
        PROVE  /\ g \in O!Task => StackKept(g)' /\ TCBKept(g)'
               /\ g \in O!Object => ObjectKept(g)'
    <3>1. CASE g = t
      <4>1. StackKept(t) /\ TCBKept(t)
        BY <1>2, <1>4 DEF PartsKept
      <4> QED BY <1>3, <1>4, <1>5, <1>6, <3>1, <4>1 DEF StackKept, TCBKept
    <3>2. CASE g # t
      BY <1>2, <1>3, <1>5, <1>6, <3>2, PartsFrame
    <3> QED BY <3>1, <3>2
  <2> QED BY <2>1 DEF PartsKept, Handle
<1>11. RegistryKept'
  BY <1>2, <1>3, RegistryFrame
<1>12. ObjectTypes'
  <2>1. IsFiniteSet(listed') /\ listed' \subseteq O!Task
    BY <1>2, <1>3, Counted DEF ObjectTypes
  <2>2. uxCurrentNumberOfTasks' \in Int
    <3>1. uxCurrentNumberOfTasks \in Int
      BY <1>2 DEF ObjectTypes
    <3> QED BY <1>3, <3>1
  <2> QED BY <1>2, <1>3, <1>6, <2>1, <2>2 DEF ObjectTypes
<1> QED BY <1>6, <1>7, <1>8, <1>9, <1>10, <1>11, <1>12 DEF ObjectsInv, HandsKept

\* The idle task takes the one that waits longest.
LEMMA TakesWaiting ==
  ASSUME ObjectsInv, O!prvCheckTasksWaitingTermination
  PROVE  ObjectsInv'
<1>0. PICK t : t = Head(xTasksWaitingTermination)
  OBVIOUS
<1> DEFINE a == "IDLE"
<1>1. /\ a \in Actor /\ a \in O!Task /\ xSchedulerRunning /\ ownPc[a].at = "app"
      /\ ownPc[a].of = NoTask
  <2>1. O!Runs(a, "app") /\ a \in Actor /\ a \in O!Task /\ a # "main" /\ "app" \in Places
    BY DEF O!prvCheckTasksWaitingTermination, Actor, O!Task, Places
  <2>2. HandRight(a)
    BY <2>1 DEF ObjectsInv, HandsKept
  <2> HIDE DEF a
  <2> QED BY <2>1, <2>2, RunsOK DEF HandRight
<1>2. ObjectTypes /\ OneHolder /\ PartsKept /\ RegistryKept /\ HandsKept /\ ActorsKept
      /\ WaitingKept /\ O!CountsAgree
  BY DEF ObjectsInv
<1>3. /\ UNCHANGED << heap, statically, uxPriority, listed, pxCurrentTCB,
                      xSchedulerRunning, objects, timerQueueCreated, xQueueRegistry >>
      /\ xTasksWaitingTermination' = Tail(xTasksWaitingTermination)
      /\ uxCurrentNumberOfTasks' = uxCurrentNumberOfTasks - 1
      /\ uxDeletedTasksWaitingCleanUp' = uxDeletedTasksWaitingCleanUp - 1
      /\ uxDeletedTasksWaitingCleanUp > 0
      /\ ownPc' = [ownPc EXCEPT ![a] = [at |-> "free", of |-> t, entry |-> 0],
                                ![t] = O!AtRest]
  BY <1>0 DEF O!prvCheckTasksWaitingTermination, O!others
<1> HIDE DEF a
<1>4. /\ t \in Worker /\ t \in Waiting
      /\ xTasksWaitingTermination' \in Seq(Worker)
      /\ Len(xTasksWaitingTermination') = Len(xTasksWaitingTermination) - 1
      /\ Waiting' = Waiting \ {t} /\ Once(xTasksWaitingTermination')
      /\ Len(xTasksWaitingTermination) \in Nat
  <2>1. xTasksWaitingTermination \in Seq(Worker) /\ Once(xTasksWaitingTermination)
        /\ uxDeletedTasksWaitingCleanUp = Len(xTasksWaitingTermination)
    BY <1>2 DEF ObjectTypes, WaitingKept, O!CountsAgree
  <2>2. xTasksWaitingTermination # << >> /\ Len(xTasksWaitingTermination) \in Nat
    BY <1>3, <2>1
  <2> QED BY <1>0, <1>3, <2>1, <2>2, FirstLeaves DEF Waiting
<1>5. /\ t \in Handle /\ t \in O!Task /\ t \in Actor /\ t \notin O!Object /\ t # NoTask
      /\ t \in O!Existing /\ t \notin listed /\ t # a /\ ownPc[t].at = "deleted"
      /\ ownPc[t].of = NoTask /\ t # "main"
      /\ \A b \in Actor : ownPc[b].of # t
  <2>1. t \in O!Existing /\ t \notin listed /\ t \in O!Task /\ t \in Actor
    BY <1>2, <1>4, HandlesDiffer DEF O!Existing, Waiting, WaitingKept
  <2>2. ownPc[t].at = "deleted" /\ HandRight(t)
    BY <1>2, <1>4, <2>1 DEF ActorsKept, HandsKept
  <2> QED BY <1>1, <2>1, <2>2, ListedNotHeld, HandlesDiffer DEF HandRight
<1>6. O!Existing' = O!Existing \ {t}
  BY <1>3, <1>4, <1>5 DEF O!Existing, Waiting
<1>7. /\ ownPc' \in [Actor -> InHand]
      /\ ownPc'[a].at = "free" /\ ownPc'[a].of = t
      /\ ownPc'[t].at = "app" /\ ownPc'[t].of = NoTask
      /\ \A b \in Actor : b # a /\ b # t => ownPc'[b] = ownPc[b]
  <2> DEFINE r == [at |-> "free", of |-> t, entry |-> 0]
             s == [at |-> "app", of |-> NoTask, entry |-> 0]
  <2>1. /\ r \in InHand /\ r.at = "free" /\ r.of = t
        /\ s \in InHand /\ s.at = "app" /\ s.of = NoTask
    BY <1>5 DEF InHand, Places
  <2>2. ownPc' = [ownPc EXCEPT ![a] = r, ![t] = s]
    BY <1>3 DEF O!AtRest
  <2> HIDE DEF r, s
  <2>3. ownPc \in [Actor -> InHand]
    BY <1>2 DEF ObjectTypes
  <2> QED BY <1>1, <1>5, <2>1, <2>2, <2>3
<1>8. /\ OneHolder'
      /\ \A g \in Handle : \A places :
           IsHeld(g, places)' <=>
             \/ g = t /\ "free" \in places
             \/ g # t /\ IsHeld(g, places)
  <2>1. OneHolder'
    BY <1>1, <1>2, <1>5, <1>7 DEF OneHolder
  <2>2. ASSUME NEW g \in Handle, NEW places
        PROVE  IsHeld(g, places)' <=>
                 \/ g = t /\ "free" \in places
                 \/ g # t /\ IsHeld(g, places)
    <3>1. g # NoTask
      BY HandlesDiffer
    <3>2. CASE g = t
      BY <1>1, <1>5, <1>7, <3>1, <3>2 DEF IsHeld
    <3>3. CASE g # t
      BY <1>1, <1>5, <1>7, <3>1, <3>3 DEF IsHeld
    <3> QED BY <3>2, <3>3
  <2> QED BY <2>1, <2>2
<1>9. WaitingKept' /\ O!CountsAgree'
  <2>1. IsFiniteSet(O!Existing)
    BY ExistingFinite
  <2>2. O!Cardinality(O!Existing \ {t}) = O!Cardinality(O!Existing) - 1
    BY <1>5, <2>1, Counted
  <2>3. O!CountsAgree'
    BY <1>2, <1>3, <1>4, <1>6, <2>2 DEF O!CountsAgree
  <2>4. IsFiniteSet(Waiting') /\ Waiting' \cap listed' = {}
    BY <1>2, <1>3, <1>4, Counted DEF WaitingKept
  <2> QED BY <1>4, <2>3, <2>4 DEF WaitingKept
<1>10. ActorsKept'
  <2>1. a \notin Waiting /\ a \in listed
    BY <1>1, <1>2 DEF ActorsKept, a
  <2>2. \A u \in O!Task : (u \in Waiting)' <=> (ownPc'[u].at = "deleted")
    BY <1>2, <1>4, <1>5, <1>7, <2>1, HandlesDiffer DEF ActorsKept
  <2>3. \A u \in O!Task : u \notin O!Existing' => ownPc'[u].at = "app"
    <3>1. a \in O!Existing'
      BY <1>3, <2>1 DEF O!Existing
    <3> QED BY <1>2, <1>5, <1>6, <1>7, <3>1, HandlesDiffer DEF ActorsKept
  <2>4. "main" \in Actor /\ "main" # a
    BY <1>1, HandlesDiffer DEF Actor
  <2>5. pxCurrentTCB' \in O!Existing'
    <3>1. pxCurrentTCB = a
      BY <1>1 DEF O!prvCheckTasksWaitingTermination, O!Runs, a
    <3> QED BY <1>3, <2>1, <3>1 DEF O!Existing
  <2>6. {"IDLE", "Tmr Svc"} \subseteq listed'
    BY <1>1, <1>2, <1>3 DEF ActorsKept
  <2> QED BY <1>1, <1>2, <1>3, <1>5, <1>7, <2>2, <2>3, <2>4, <2>5, <2>6 DEF ActorsKept
<1>11. ASSUME NEW b \in Actor PROVE HandRight(b)'
  <2>1. CASE b = a
    BY <1>4, <1>5, <1>6, <1>7, <2>1 DEF HandRight
  <2>2. CASE b = t
    BY <1>7, <2>2 DEF HandRight
  <2>3. CASE b # a /\ b # t
    BY <1>3, <1>5, <1>6, <1>7, <2>3, HandsFrame
  <2> QED BY <2>1, <2>2, <2>3
<1>12. PartsKept'
  <2>1. ASSUME NEW g \in Handle
        PROVE  /\ g \in O!Task => StackKept(g)' /\ TCBKept(g)'
               /\ g \in O!Object => ObjectKept(g)'
    <3>1. CASE g = t
      <4>1. StackKept(t) /\ TCBKept(t)
        BY <1>2, <1>5 DEF PartsKept
      <4> QED BY <1>3, <1>5, <1>6, <1>8, <3>1, <4>1 DEF StackKept, TCBKept
    <3>2. CASE g # t
      BY <1>2, <1>3, <1>6, <1>8, <3>2, PartsFrame
    <3> QED BY <3>1, <3>2
  <2> QED BY <2>1 DEF PartsKept, Handle
<1>13. RegistryKept'
  BY <1>2, <1>3, RegistryFrame
<1>14. ObjectTypes'
  <2>1. uxCurrentNumberOfTasks' \in Int
    <3>1. uxCurrentNumberOfTasks \in Int
      BY <1>2 DEF ObjectTypes
    <3> QED BY <1>3, <3>1
  <2> QED BY <1>2, <1>3, <1>4, <1>7, <2>1 DEF ObjectTypes
<1> QED BY <1>8, <1>9, <1>10, <1>11, <1>12, <1>13, <1>14 DEF ObjectsInv, HandsKept

\* The scheduler is started.
LEMMA StartsScheduler ==
  ASSUME ObjectsInv, O!vTaskStartScheduler
  PROVE  ObjectsInv'
<1> DEFINE own == {"IDLE", "Tmr Svc"}
           highest == CHOOSE p \in Priorities : \A q \in Priorities : q <= p
           priority == [uxPriority EXCEPT !["IDLE"] = 0, !["Tmr Svc"] = highest]
<1>1. ~xSchedulerRunning /\ ownPc["main"].at = "app"
  BY DEF O!vTaskStartScheduler, O!App, O!Runs
<1>2. ObjectTypes /\ OneHolder /\ PartsKept /\ RegistryKept /\ HandsKept /\ ActorsKept
      /\ WaitingKept /\ O!CountsAgree
  BY DEF ObjectsInv
<1>3. /\ UNCHANGED << heap, xTasksWaitingTermination, uxDeletedTasksWaitingCleanUp, objects,
                      ownPc >>
      /\ xSchedulerRunning' = TRUE
      /\ statically' = [statically EXCEPT !["IDLE"] = "all", !["Tmr Svc"] = "all"]
      /\ uxPriority' = priority
      /\ listed' = listed \cup own
      /\ uxCurrentNumberOfTasks' = uxCurrentNumberOfTasks + 2
      /\ pxCurrentTCB' = O!First(O!First(pxCurrentTCB, "IDLE", priority), "Tmr Svc", priority)
      /\ timerQueueCreated' = TRUE
      /\ xQueueRegistry' = O!prvCheckForValidListAndQueue(xQueueRegistry)
  BY DEF O!vTaskStartScheduler, O!xTimerCreateTimerTask, O!prvCreateIdleTasks
<1>a. uxCurrentNumberOfTasks' = uxCurrentNumberOfTasks + 2
      /\ UNCHANGED << xTasksWaitingTermination, uxDeletedTasksWaitingCleanUp >>
  BY <1>3
<1>4. highest \in Nat
  BY HandlesApart DEF HandlesApart
<1> HIDE DEF highest
<1>5. own \subseteq O!Task /\ own \cap Worker = {} /\ "IDLE" # "Tmr Svc"
      /\ "IDLE" \in Handle /\ "Tmr Svc" \in Handle
  BY HandlesDiffer DEF O!Task, Handle
<1>6. /\ own \cap listed = {} /\ Waiting = {}
      /\ \A t \in O!Task : ownPc[t].at = "app"
      /\ pxCurrentTCB \in listed \cup {NoTask}
  BY <1>1, <1>2 DEF ActorsKept
<1>7. Waiting' = Waiting /\ O!Existing' = O!Existing \cup own /\ O!Existing = listed
  BY <1>3, <1>6 DEF Waiting, O!Existing
<1>8. /\ RegistryKept' /\ xQueueRegistry' \in Registries
      /\ \A i \in O!Entry :
           xQueueRegistry'[i] = xQueueRegistry[i] \/ xQueueRegistry'[i] = "TmrQ"
  BY <1>3, RegistryChecked
<1>9. /\ \A g \in Handle : g \notin own => statically'[g] = statically[g]
      /\ \A g \in own : statically'[g] = "all" /\ statically[g] \in {"none", "stack", "all"}
      /\ statically' \in [Handle -> {"none", "stack", "all"}]
  BY <1>2, <1>3, <1>5 DEF ObjectTypes
<1>10. WaitingKept' /\ O!CountsAgree'
  <2>1. IsFiniteSet(O!Existing)
    BY ExistingFinite
  <2>2. PICK mid, all, n : /\ mid = O!Existing \cup {"IDLE"} /\ all = mid \cup {"Tmr Svc"}
                           /\ n = O!Cardinality(O!Existing)
    OBVIOUS
  <2>3. IsFiniteSet(mid) /\ O!Cardinality(mid) = n + 1 /\ n \in Nat
    BY <1>6, <1>7, <2>1, <2>2, Counted
  <2>4. O!Cardinality(all) = O!Cardinality(mid) + 1
    <3>1. "Tmr Svc" \notin mid
      BY <1>5, <1>6, <1>7, <2>2
    <3> QED BY <2>2, <2>3, <3>1, Counted
  <2>5. O!Existing' = all
    BY <1>7, <2>2
  <2>6. uxCurrentNumberOfTasks' = O!Cardinality(all)
    <3>1. uxCurrentNumberOfTasks = n
      BY <1>2, <2>2 DEF O!CountsAgree
    <3> QED BY ONLY <1>a, <2>3, <2>4, <3>1
  <2>7. O!CountsAgree'
    BY ONLY <1>2, <1>a, <2>5, <2>6 DEF O!CountsAgree
  <2> QED BY <1>2, <1>3, <1>6, <1>7, <2>7 DEF WaitingKept
<1>11. pxCurrentTCB' \in O!Existing'
  <2>1. NoTask \notin {"IDLE", "Tmr Svc"}
    BY HandlesApart DEF HandlesApart
  <2>2. O!First(pxCurrentTCB, "IDLE", priority) \in listed \cup {"IDLE"}
    BY <1>6 DEF O!First
  <2> HIDE DEF priority
  <2> QED BY <1>3, <1>7, <2>2 DEF O!First
<1>12. ActorsKept'
  <2>1. own \subseteq listed'
    BY <1>3
  <2>2. \A t \in O!Task : (t \in Waiting)' <=> (ownPc'[t].at = "deleted")
    BY <1>3, <1>6, <1>7
  <2>3. \A t \in O!Task : t \notin O!Existing' => ownPc'[t].at = "app"
    BY <1>3, <1>6
  <2> QED BY <1>1, <1>3, <1>11, <2>1, <2>2, <2>3 DEF ActorsKept
<1>13. ASSUME NEW b \in Actor PROVE HandRight(b)'
  <2>1. HandRight(b)
    BY <1>2 DEF HandsKept
  <2>2. ownPc[b].of \notin own
    <3>1. ownPc[b].at \in Places
      BY <1>2 DEF ObjectTypes, InHand
    <3>2. own \cap O!Object = {}
      BY <1>5, HandlesDiffer
    <3>3. NoTask \notin own
      BY HandlesApart DEF HandlesApart
    <3> QED BY <1>5, <2>1, <3>1, <3>2, <3>3 DEF HandRight, Places, O!Object
  <2>3. \A i \in O!Entry : ownPc[b].of \in Queues /\ xQueueRegistry'[i] = ownPc[b].of =>
                             xQueueRegistry[i] = ownPc[b].of
    BY <1>8, HandlesDiffer
  <2>4. ownPc[b].of \in Handle \cup {NoTask}
    BY <1>2 DEF ObjectTypes, InHand
  <2> QED BY <1>3, <1>7, <1>9, <2>2, <2>3, <2>4, HandsFrame
<1>14. PartsKept'
  <2>1. \A g \in Handle : \A places : IsHeld(g, places)' <=> IsHeld(g, places)
    BY <1>3 DEF IsHeld
  <2>2. ASSUME NEW g \in Handle
        PROVE  /\ g \in O!Task => StackKept(g)' /\ TCBKept(g)'
               /\ g \in O!Object => ObjectKept(g)'
    <3>1. CASE g \in own
      <4>1. g \in O!Task /\ g \notin O!Object /\ g \notin O!Existing
        BY <1>5, <1>6, <1>7, <3>1, HandlesDiffer
      <4>2. ~IsHeld(g, {"TCB", "add", "free"}) /\ ~IsHeld(g, {"add", "free"})
        BY <1>2, <1>5, <3>1 DEF IsHeld, HandsKept, HandRight
      <4>3. << g, "stack" >> \notin heap /\ << g, "TCB" >> \notin heap
        BY <1>2, <4>1, <4>2 DEF PartsKept, StackKept, TCBKept
      <4> QED BY <1>3, <1>9, <3>1, <4>1, <4>3 DEF StackKept, TCBKept
    <3>2. CASE g \notin own
      BY <1>2, <1>3, <1>7, <1>9, <2>1, <3>2, PartsFrame
    <3> QED BY <3>1, <3>2
  <2> QED BY <2>2 DEF PartsKept, Handle
<1>15. ObjectTypes'
  <2>1. IsFiniteSet(listed') /\ listed' \subseteq O!Task
    <3>1. IsFiniteSet((listed \cup {"IDLE"}) \cup {"Tmr Svc"})
      BY <1>2, Counted DEF ObjectTypes
    <3>2. listed' = (listed \cup {"IDLE"}) \cup {"Tmr Svc"}
      BY <1>3
    <3> QED BY <1>2, <1>5, <3>1, <3>2 DEF ObjectTypes
  <2>2. uxCurrentNumberOfTasks' \in Int
    <3>1. uxCurrentNumberOfTasks \in Int
      BY <1>2 DEF ObjectTypes
    <3> QED BY ONLY <1>a, <3>1
  <2>3. uxPriority' \in [O!Task -> Nat]
    BY <1>2, <1>3, <1>4 DEF ObjectTypes
  <2>4. xSchedulerRunning' \in BOOLEAN /\ timerQueueCreated' \in BOOLEAN
    BY <1>3
  <2> QED BY <1>2, <1>3, <1>8, <1>9, <2>1, <2>2, <2>3, <2>4 DEF ObjectTypes, Registries
<1>16. OneHolder'
  BY <1>2, <1>3 DEF OneHolder
<1> QED BY <1>8, <1>10, <1>12, <1>13, <1>14, <1>15, <1>16 DEF ObjectsInv, HandsKept

\* Another ready task runs, or nothing changes.
LEMMA SwitchesContext ==
  ASSUME ObjectsInv,
         \/ O!vTaskSwitchContext
         \/ UNCHANGED O!vars
  PROVE  ObjectsInv'
<1>1. /\ UNCHANGED << heap, statically, uxPriority, listed, xTasksWaitingTermination,
                      uxDeletedTasksWaitingCleanUp, uxCurrentNumberOfTasks, xSchedulerRunning,
                      objects, timerQueueCreated, xQueueRegistry, ownPc >>
      /\ \/ xSchedulerRunning /\ pxCurrentTCB' \in listed
         \/ UNCHANGED pxCurrentTCB
  BY DEF O!vTaskSwitchContext, O!vars, O!tasks, O!counts, O!others
<1>2. ObjectTypes /\ OneHolder /\ PartsKept /\ RegistryKept /\ HandsKept /\ ActorsKept
      /\ WaitingKept /\ O!CountsAgree
  BY DEF ObjectsInv
<1>3. Waiting' = Waiting /\ O!Existing' = O!Existing
  BY <1>1 DEF Waiting, O!Existing
<1>4. ObjectTypes' /\ OneHolder' /\ RegistryKept' /\ WaitingKept' /\ O!CountsAgree'
  BY <1>1, <1>2, <1>3 DEF ObjectTypes, OneHolder, RegistryKept, O!RegistryCurrent, WaitingKept,
     O!CountsAgree
<1>5. PartsKept'
  BY <1>1, <1>2, <1>3 DEF PartsKept, StackKept, TCBKept, ObjectKept, IsHeld
<1>6. ASSUME NEW b \in Actor PROVE HandRight(b)'
  BY <1>1, <1>3, HandsFrame
<1>7. ActorsKept'
  <2>1. CASE xSchedulerRunning /\ pxCurrentTCB' \in listed
    <3>1. pxCurrentTCB' \in O!Existing'
      BY <1>3, <2>1 DEF O!Existing
    <3> QED BY <1>1, <1>2, <1>3, <2>1, <3>1 DEF ActorsKept
  <2>2. CASE UNCHANGED pxCurrentTCB
    BY <1>1, <1>2, <1>3, <2>2 DEF ActorsKept
  <2> QED BY <1>1, <2>1, <2>2
<1> QED BY <1>4, <1>5, <1>6, <1>7 DEF ObjectsInv, HandsKept

\* At first there is nothing.
LEMMA ObjectsStart == O!Init => ObjectsInv
<1> SUFFICES ASSUME O!Init PROVE ObjectsInv
  OBVIOUS
<1>1. /\ heap = {} /\ statically = [h \in Handle |-> "none"]
      /\ uxPriority = [t \in O!Task |-> 0]
      /\ listed = {} /\ xTasksWaitingTermination = << >>
      /\ uxDeletedTasksWaitingCleanUp = 0 /\ uxCurrentNumberOfTasks = 0
      /\ pxCurrentTCB = NoTask /\ xSchedulerRunning = FALSE
      /\ objects = {} /\ timerQueueCreated = FALSE
      /\ xQueueRegistry = [i \in O!Entry |-> "none"]
      /\ ownPc = [a \in Actor |-> O!AtRest]
  BY DEF O!Init, Handle, Actor
<1>2. /\ ownPc \in [Actor -> InHand]
      /\ \A a \in Actor : ownPc[a].at = "app" /\ ownPc[a].of = NoTask
  <2>1. O!AtRest \in InHand /\ O!AtRest.at = "app" /\ O!AtRest.of = NoTask
    BY DEF O!AtRest, InHand, Places
  <2> QED BY ONLY <1>1, <2>1
<1>3. Waiting = {} /\ O!Existing = {}
  <2>1. Waiting = {}
    BY <1>1 DEF Waiting, O!ToSet
  <2> QED BY <1>1, <2>1 DEF O!Existing, Waiting
<1>4. ObjectTypes
  <2>1. IsFiniteSet(listed)
    BY <1>1, FS_EmptySet
  <2>2. xTasksWaitingTermination \in Seq(Worker) /\ uxCurrentNumberOfTasks \in Int
    BY <1>1
  <2>3. /\ statically \in [Handle -> {"none", "stack", "all"}]
        /\ uxPriority \in [O!Task -> Nat]
        /\ xQueueRegistry \in [O!Entry -> Queues \cup {"none", "TmrQ"}]
    BY <1>1
  <2>4. heap = {} /\ listed = {} /\ objects = {}
        /\ xSchedulerRunning \in BOOLEAN /\ timerQueueCreated \in BOOLEAN
    BY <1>1
  <2> QED BY ONLY <1>2, <2>1, <2>2, <2>3, <2>4 DEF ObjectTypes
<1>5. WaitingKept
  BY <1>1, <1>3, FS_EmptySet DEF WaitingKept, Once
<1>6. ActorsKept
  BY <1>1, <1>2, <1>3, HandlesDiffer DEF ActorsKept, Actor
<1>7. HandsKept /\ OneHolder
  BY <1>2 DEF HandsKept, HandRight, OneHolder
<1>8. PartsKept
  <2>1. \A h \in Handle : \A places : ~IsHeld(h, places)
    BY <1>2, HandlesDiffer DEF IsHeld
  <2> QED BY <1>1, <1>3, <2>1 DEF PartsKept, StackKept, TCBKept, ObjectKept, Handle
<1>9. RegistryKept
  BY <1>1 DEF RegistryKept, O!RegistryCurrent
<1>10. O!CountsAgree
  <2>1. O!Cardinality({}) = 0
    <3>1. O!Cardinality({}) = Cardinality({})
      BY DEF O!Cardinality, Cardinality
    <3> QED BY <3>1, FS_EmptySet
  <2> QED BY <1>1, <1>3, <2>1 DEF O!CountsAgree
<1> QED BY <1>4, <1>5, <1>6, <1>7, <1>8, <1>9, <1>10 DEF ObjectsInv

\* What is allocated is what the tasks, the objects and the calls have.
LEMMA ObjectsInvSound == ObjectsInv => O!ObjectsSound
<1> SUFFICES ASSUME ObjectsInv PROVE O!ObjectsSound
  OBVIOUS
<1>1. ObjectTypes /\ OneHolder /\ PartsKept /\ RegistryKept /\ HandsKept /\ ActorsKept
      /\ WaitingKept /\ O!CountsAgree
  BY DEF ObjectsInv
<1>2. O!CurrentExists
  <2>1. CASE xSchedulerRunning
    BY <1>1, <2>1 DEF ActorsKept, O!CurrentExists
  <2>2. CASE ~xSchedulerRunning
    <3>1. O!Existing = listed
      BY <1>1, <2>2 DEF ActorsKept, O!Existing, Waiting
    <3> QED BY <1>1, <2>2, <3>1 DEF ActorsKept, O!CurrentExists
  <2> QED BY <2>1, <2>2
<1> DEFINE ofTasks == UNION {O!Freed(t) : t \in O!Existing}
           ofObs == {<< o, "object" >> : o \in {o \in objects : statically[o] = "none"}}
           ofCalls == UNION {O!InTransit(a) : a \in DOMAIN ownPc}
<1>3. DOMAIN ownPc = Actor
  BY <1>1 DEF ObjectTypes
<1>4. \A t \in O!Task, x \in {"stack", "TCB"} :
        << t, x >> \in O!Freed(t) <=> statically[t] = "none" \/ (statically[t] = "stack" /\ x = "TCB")
  BY DEF O!Freed
<1>5. ASSUME NEW t, NEW y, y \in O!Freed(t)
      PROVE  y = << t, "stack" >> \/ y = << t, "TCB" >>
  BY <1>5 DEF O!Freed
<1>6. ASSUME NEW y \in heap PROVE y \in ofTasks \cup ofObs \cup ofCalls
  <2>1. CASE y \in O!Task \X {"stack", "TCB"}
    <3>1. PICK t \in O!Task, x \in {"stack", "TCB"} : y = << t, x >>
      BY <2>1
    <3>2. StackKept(t) /\ TCBKept(t) /\ statically[t] \in {"none", "stack", "all"}
      BY <1>1 DEF PartsKept, ObjectTypes, Handle
    <3>3. CASE t \in O!Existing
      <4>1. y \in O!Freed(t)
        BY <1>4, <1>6, <3>1, <3>2 DEF StackKept, TCBKept
      <4> QED BY <3>3, <4>1
    <3>4. CASE t \notin O!Existing
      <4>1. PICK a \in Actor : ownPc[a].of = t /\ ownPc[a].at \in {"TCB", "add", "free"}
                               /\ (ownPc[a].at = "TCB" => x = "stack")
        BY <1>6, <3>1, <3>2, <3>4 DEF StackKept, TCBKept, IsHeld
      <4>2. y \in O!InTransit(a)
        <5>1. CASE ownPc[a].at = "TCB"
          BY <3>1, <4>1, <5>1 DEF O!InTransit
        <5>2. CASE ownPc[a].at \in {"add", "free"}
          <6>1. y \in O!Freed(t)
            BY <1>4, <1>6, <3>1, <3>2 DEF StackKept, TCBKept
          <6> QED BY <4>1, <5>2, <6>1 DEF O!InTransit
        <5> QED BY <4>1, <5>1, <5>2
      <4> QED BY <1>3, <4>2
    <3> QED BY <3>3, <3>4
  <2>2. CASE y \in O!Object \X {"object"}
    <3>1. PICK o \in O!Object : y = << o, "object" >>
      BY <2>2
    <3>2. ObjectKept(o)
      BY <1>1 DEF PartsKept
    <3>3. CASE o \in objects
      BY <1>6, <3>1, <3>2, <3>3 DEF ObjectKept
    <3>4. CASE o \notin objects
      <4>1. PICK a \in Actor : ownPc[a].of = o /\ ownPc[a].at \in {"timer", "freeObject"}
        BY <1>6, <3>1, <3>2, <3>4 DEF ObjectKept, IsHeld
      <4>2. y \in O!InTransit(a)
        BY <1>6, <3>1, <3>2, <4>1 DEF O!InTransit, ObjectKept
      <4> QED BY <1>3, <4>2
    <3> QED BY <3>3, <3>4
  <2> QED BY <1>1, <1>6, <2>1, <2>2 DEF ObjectTypes
<1>7. ASSUME NEW y \in ofTasks PROVE y \in heap
  <2>1. PICK t \in O!Existing : y \in O!Freed(t)
    OBVIOUS
  <2>2. t \in O!Task /\ StackKept(t) /\ TCBKept(t)
    BY <1>1, ExistingType DEF PartsKept
  <2>3. PICK x \in {"stack", "TCB"} : y = << t, x >>
    BY <1>5, <2>1
  <2> QED BY <1>4, <2>1, <2>2, <2>3 DEF StackKept, TCBKept
<1>8. ASSUME NEW y \in ofObs PROVE y \in heap
  <2>1. PICK o \in objects : y = << o, "object" >> /\ statically[o] = "none"
    OBVIOUS
  <2>2. ObjectKept(o)
    BY <1>1 DEF PartsKept, ObjectTypes
  <2> QED BY <2>1, <2>2 DEF ObjectKept
<1>9. ASSUME NEW y \in ofCalls PROVE y \in heap
  <2>1. PICK a \in Actor : y \in O!InTransit(a)
    BY <1>3
  <2>2. PICK h : h = ownPc[a].of
    OBVIOUS
  <2>3. HandRight(a)
    BY <1>1 DEF HandsKept
  <2>4. CASE ownPc[a].at = "TCB"
    <3>1. h \in O!Task /\ statically[h] = "none" /\ y = << h, "stack" >>
      BY <2>1, <2>2, <2>3, <2>4, HandlesDiffer DEF HandRight, O!InTransit
    <3>2. StackKept(h) /\ IsHeld(h, {"TCB", "add", "free"})
      BY <1>1, <2>2, <2>4, <3>1 DEF PartsKept, IsHeld
    <3> QED BY <3>1, <3>2 DEF StackKept
  <2>5. CASE ownPc[a].at \in {"add", "free"}
    <3>1. h \in O!Task /\ y \in O!Freed(h)
      BY <2>1, <2>2, <2>3, <2>5, HandlesDiffer DEF HandRight, O!InTransit
    <3>2. StackKept(h) /\ TCBKept(h) /\ IsHeld(h, {"TCB", "add", "free"})
          /\ IsHeld(h, {"add", "free"})
      BY <1>1, <2>2, <2>5, <3>1 DEF PartsKept, IsHeld
    <3>3. PICK x \in {"stack", "TCB"} : y = << h, x >>
      BY <1>5, <3>1
    <3> QED BY <1>4, <3>1, <3>2, <3>3 DEF StackKept, TCBKept
  <2>6. CASE ownPc[a].at \notin {"TCB", "add", "free"}
    <3>1. /\ ownPc[a].at \in {"timer", "freeObject"} /\ statically[h] = "none"
          /\ y = << h, "object" >>
      BY <2>1, <2>2, <2>6 DEF O!InTransit
    <3>2. h \in O!Object
      BY <2>2, <2>3, <3>1 DEF HandRight, O!Object
    <3>3. ObjectKept(h) /\ IsHeld(h, {"timer", "freeObject"})
      BY <1>1, <2>2, <3>1, <3>2 DEF PartsKept, IsHeld
    <3> QED BY <3>1, <3>3 DEF ObjectKept
  <2> QED BY <2>4, <2>5, <2>6
<1>10. heap = ofTasks \cup ofObs \cup ofCalls
  <2> HIDE DEF ofTasks, ofObs, ofCalls
  <2> QED BY <1>6, <1>7, <1>8, <1>9
<1> QED BY <1>1, <1>2, <1>10 DEF O!ObjectsSound, O!MemoryAccounted, RegistryKept

\* Memory is accounted for, the counts and the registry follow, and the current
\* task exists, whatever is created and deleted, and whichever allocation fails.
THEOREM ObjectsAccounted == ClockedSpec => []ObjectsSound
<1> DEFINE here == part \in {"Tasks", "Objects"}
           Inv == here => ObjectsInv
<1>1. ClockedInit => Inv
  <2> SUFFICES ASSUME ClockedInit, here PROVE O!Init
    BY ObjectsStart
  <2> QED BY DEF ClockedInit
<1>2. ASSUME Inv, [ClockedNext]_clockedVars
      PROVE  Inv'
  <2> SUFFICES ASSUME here' PROVE ObjectsInv'
    OBVIOUS
  <2>1. here /\ (O!Next \/ UNCHANGED O!vars)
    <3>1. CASE ClockedNext
      BY <3>1 DEF ClockedNext, ofObjects, O!vars, O!tasks, O!counts, O!others
    <3>2. CASE UNCHANGED clockedVars
      BY <3>2 DEF clockedVars, ofObjects, O!vars, O!tasks, O!counts, O!others
    <3> QED BY <1>2, <3>1, <3>2
  <2>2. ObjectsInv
    BY <1>2, <2>1
  <2>3. CASE O!vTaskStartScheduler
    BY <2>2, <2>3, StartsScheduler
  <2>4. CASE O!vTaskSwitchContext \/ UNCHANGED O!vars
    BY <2>2, <2>4, SwitchesContext
  <2>5. CASE O!prvCheckTasksWaitingTermination
    BY <2>2, <2>5, TakesWaiting
  <2>6. CASE \E o \in Timers : O!DeleteTimer(o)
    <3>1. "Tmr Svc" \in Actor
      BY DEF Actor, O!Task
    <3> QED BY <2>2, <2>6, <3>1, DeletesObject
  <2>7. ASSUME NEW a \in Actor,
               \/ O!AllocateTCB(a) \/ O!prvAddNewTaskToReadyList(a) \/ O!DeleteSelf(a)
               \/ O!prvDeleteTCB(a) \/ O!prvInitialiseNewTimer(a) \/ O!WriteEntry(a)
               \/ O!FreeObject(a)
        PROVE  ObjectsInv'
    BY <2>2, <2>7, AllocatesTCB, AddsTask, DeletesSelf, DeletesTCB, InitialisesTimer,
       WritesEntry, FreesObject
  <2>8. ASSUME NEW a \in Actor, NEW t \in Worker,
               \/ O!vTaskDelete(a, t)
               \/ \E p \in Priorities :
                    \/ O!prvCreateTask(a, t, p) \/ O!prvCreateRestrictedTask(a, t, p)
                    \/ O!prvCreateStaticTask(a, t, p)
        PROVE  ObjectsInv'
    BY <2>2, <2>8, DeletesTask, CreatesTask
  <2>9. ASSUME NEW a \in Actor,
               \/ \E o \in Timers : O!xTimerCreate(a, o) \/ O!xTimerCreateStatic(a, o)
               \/ \E o \in EventGroups :
                    \/ O!xEventGroupCreate(a, o) \/ O!xEventGroupCreateStatic(a, o)
                    \/ O!vEventGroupDelete(a, o)
               \/ \E q \in Queues :
                    \/ O!xQueueGenericCreate(a, q) \/ O!xQueueGenericCreateStatic(a, q)
                    \/ O!vQueueAddToRegistry(a, q) \/ O!vQueueUnregisterQueue(a, q)
                    \/ O!vQueueDelete(a, q)
        PROVE  ObjectsInv'
    BY <2>2, <2>9, CreatesObject, DeletesObject, AddsToRegistry, Unregisters
  <2> QED BY <2>1, <2>3, <2>4, <2>5, <2>6, <2>7, <2>8, <2>9 DEF O!Next, Actor
<1>3. Inv => ObjectsSound
  BY ObjectsInvSound DEF ObjectsSound
<1> QED BY <1>1, <1>2, <1>3, PTL DEF ClockedSpec, clockedVars
-----------------------------------------------------------------------------
(* The reports of the tasks.                                                *)

\* The lists of the kernel, and the places of the calls.
StateLists == {"none", "ready", "delayed", "overflow", "terminated", "suspended"}
WalkingPlaces == {"walk", "isNotified", "isPending"}
AnsweringPlaces == {"again", "againNotified", "answer"}
ListingPlaces == {"allocate", "collect", "collected", "rows", "free"}
SearchingPlaces == {"search", "found"}

\* infoCall.
InfoCall ==
  [at : {"app"} \cup WalkingPlaces \cup AnsweringPlaces \cup ListingPlaces \cup SearchingPlaces,
   index : Nat, task : R!Task \cup {NoTask},
   state : {"caller", "worker"} \cup {"none", "eRunning", "eReady", "eBlocked", "eSuspended", "eDeleted"}]

\* The types.
InfoType ==
  /\ xStateList \in [R!Task -> StateLists]
  /\ xEventList \in [R!Task -> {"none", "object", "pending"}]
  /\ waiting \subseteq Worker /\ frozen \in BOOLEAN
  /\ infoCall \in InfoCall
  /\ uxArraySize \in Nat /\ allocated \in Nat /\ uxTask \in Nat
  /\ visited \subseteq R!Task /\ DOMAIN report = R!Task
  /\ uxBufferLength \in Nat /\ uxConsumedBufferLength \in Nat

\* A task waits for an object, or for a notification, in a list that says so; only
\* a suspended scheduler has tasks pending.
ListsHold ==
  /\ xStateList["caller"] = "ready" /\ xEventList["caller"] = "none"
  /\ infoCall.at \in {"app", "allocate", "collect", "rows", "free"} => ~frozen
  /\ \A t \in Worker :
       /\ xEventList[t] = "object" => xStateList[t] \in {"delayed", "overflow", "suspended"}
       /\ t \in waiting => xStateList[t] \notin {"none", "terminated"}
       /\ xEventList[t] = "pending" => frozen /\ xStateList[t] \notin {"none", "terminated"}

\* Who is watched is seen in the state he is in.
SeenNow == \A t \in R!Task : R!Watched(t) => R!State(t) \in seen[t]

\* The tasks whose lists were walked, and those that are in the report.
PassedLists == {t \in R!Task : \E i \in 1..(infoCall.index - 1) : xStateList[t] = R!Walked[i]}
InReport == (PassedLists \cup visited) \ IF infoCall.at = "walk" THEN {} ELSE {infoCall.task}
TasksThere == {t \in R!Task : xStateList[t] # "none"}

\* The report has the tasks that the walk is past, each in a state that was seen.
ReportHolds ==
  /\ infoCall.at \in WalkingPlaces =>
       /\ frozen /\ infoCall.index \in 1..5
       /\ visited \subseteq R!Members(R!Walked[infoCall.index])
       /\ uxArraySize >= R!uxCurrentNumberOfTasks
       /\ uxTask = Cardinality(InReport)
       /\ \A t \in R!Task : IF t \in InReport THEN report[t] \in seen[t] ELSE report[t] = "none"
  /\ infoCall.at \in {"isNotified", "isPending"} =>
       /\ infoCall.task \in visited \cap Worker
       /\ infoCall.at = "isNotified" =>
            /\ infoCall.state = "eSuspended" /\ xStateList[infoCall.task] = "suspended"
            /\ xEventList[infoCall.task] # "object"
       /\ infoCall.at = "isPending" =>
            \/ xEventList[infoCall.task] = "pending"
            \/ infoCall.state = R!State(infoCall.task)
  /\ infoCall.at \notin WalkingPlaces => visited = {}
  /\ infoCall.at \notin WalkingPlaces \cup {"collected"} => \A t \in R!Task : report[t] = "none"
  /\ infoCall.at \notin WalkingPlaces \cup {"collected", "rows", "free"} => uxTask = 0
  /\ infoCall.at = "collected" => frozen /\ R!ReportExact

\* A task that is asked for again was blocked or suspended, and was ready or
\* suspended meanwhile, or still waits.
AnswerHolds ==
  /\ infoCall.at \in {"again", "againNotified"} =>
       LET t == infoCall.task
       IN /\ t \in Worker /\ infoCall.state = "eSuspended"
          /\ seen[t] \cap {"eBlocked", "eSuspended"} # {}
          /\ \/ "eReady" \in seen[t] \/ "eSuspended" \in seen[t]
             \/ /\ xStateList[t] = "suspended"
                /\ \/ infoCall.at = "again" /\ xEventList[t] = "object"
                   \/ xEventList[t] = "none" /\ t \in waiting
  /\ infoCall.at = "answer" => infoCall.task \in R!Task
  /\ infoCall.at \in AnsweringPlaces => xStateList[infoCall.task] # "none"
  /\ R!AnswerTrue

\* The lists that were searched have no task of the name.
SearchHolds ==
  /\ infoCall.at = "search" =>
       /\ frozen /\ infoCall.index \in 1..5 /\ infoCall.task = NoTask
       /\ \A i \in 1..(infoCall.index - 1) : \A t \in R!Members(R!Searched[i]) :
            NameOf[t] # infoCall.state
  /\ infoCall.at = "found" => frozen
  /\ infoCall.at = "app" => infoCall.task = NoTask
  /\ R!HandleFound

\* The text fits, and is empty until rows are written.
TextHolds ==
  /\ R!TextFits
  /\ infoCall.at \notin {"rows", "free"} => uxConsumedBufferLength = 0

InfoInv ==
  /\ InfoType /\ ListsHold /\ SeenNow /\ ReportHolds /\ AnswerHolds /\ SearchHolds
     /\ TextHolds

\* The second conjunct of Next.
StatesNoted == seen' = [t \in R!Task |-> IF R!Watched(t)' THEN seen[t] \cup {R!State(t)'} ELSE {}]

\* The state of a task, from its lists.
StateFacts ==
  /\ R!State("caller") = "eRunning"
  /\ \A t \in Worker :
       /\ xEventList[t] = "pending" /\ xStateList[t] # "none" => R!State(t) = "eReady"
       /\ xEventList[t] # "pending" =>
            /\ xStateList[t] = "suspended" =>
                 R!State(t) = IF xEventList[t] = "none" /\ t \notin waiting
                            THEN "eSuspended" ELSE "eBlocked"
            /\ xStateList[t] = "ready" => R!State(t) = "eReady"
            /\ xStateList[t] = "terminated" => R!State(t) = "eDeleted"
            /\ xStateList[t] \in {"delayed", "overflow"} => R!State(t) = "eBlocked"

\* The states, before and after a step.
LEMMA StatesFollow == StateFacts /\ StateFacts'
<1>1. StateFacts
  <2>1. R!State("caller") = "eRunning"
    BY DEF R!State
  <2>2. ASSUME NEW t \in Worker
        PROVE  /\ xEventList[t] = "pending"
                  /\ xStateList[t] # "none" => R!State(t) = "eReady"
               /\ xEventList[t] # "pending" =>
                    /\ xStateList[t] = "suspended" =>
                         R!State(t) = IF xEventList[t] = "none" /\ t \notin waiting
                                    THEN "eSuspended" ELSE "eBlocked"
                    /\ xStateList[t] = "ready" => R!State(t) = "eReady"
                    /\ xStateList[t] = "terminated" => R!State(t) = "eDeleted"
                    /\ xStateList[t] \in {"delayed", "overflow"} => R!State(t) = "eBlocked"
    <3>1. t # "caller"
      BY ReportsAssumption
    <3>2. CASE xEventList[t] = "pending" /\ xStateList[t] # "none"
      BY <3>1, <3>2 DEF R!State
    <3>3. CASE xEventList[t] # "pending" /\ xStateList[t] = "suspended"
      BY <3>1, <3>3 DEF R!State, R!Suspended
    <3>4. CASE xEventList[t] # "pending" /\ xStateList[t] = "ready"
      BY <3>1, <3>4 DEF R!State, R!ReportedAs
    <3>5. CASE xEventList[t] # "pending" /\ xStateList[t] = "terminated"
      BY <3>1, <3>5 DEF R!State, R!ReportedAs
    <3>6. CASE xEventList[t] # "pending" /\ xStateList[t] \in {"delayed", "overflow"}
      BY <3>1, <3>6 DEF R!State, R!ReportedAs
    <3> QED BY <3>2, <3>3, <3>4, <3>5, <3>6
  <2> QED BY <2>1, <2>2 DEF StateFacts
<1>2. StateFacts'
  <2>1. R!State("caller")' = "eRunning"
    BY DEF R!State
  <2>2. ASSUME NEW t \in Worker
        PROVE  /\ xEventList'[t] = "pending"
                  /\ xStateList'[t] # "none" => R!State(t)' = "eReady"
               /\ xEventList'[t] # "pending" =>
                    /\ xStateList'[t] = "suspended" =>
                         R!State(t)' = IF xEventList'[t] = "none" /\ t \notin waiting'
                                    THEN "eSuspended" ELSE "eBlocked"
                    /\ xStateList'[t] = "ready" => R!State(t)' = "eReady"
                    /\ xStateList'[t] = "terminated" => R!State(t)' = "eDeleted"
                    /\ xStateList'[t] \in {"delayed", "overflow"} => R!State(t)' = "eBlocked"
    <3>1. t # "caller"
      BY ReportsAssumption
    <3>2. CASE xEventList'[t] = "pending" /\ xStateList'[t] # "none"
      BY <3>1, <3>2 DEF R!State
    <3>3. CASE xEventList'[t] # "pending" /\ xStateList'[t] = "suspended"
      BY <3>1, <3>3 DEF R!State, R!Suspended
    <3>4. CASE xEventList'[t] # "pending" /\ xStateList'[t] = "ready"
      BY <3>1, <3>4 DEF R!State, R!ReportedAs
    <3>5. CASE xEventList'[t] # "pending" /\ xStateList'[t] = "terminated"
      BY <3>1, <3>5 DEF R!State, R!ReportedAs
    <3>6. CASE xEventList'[t] # "pending" /\ xStateList'[t] \in {"delayed", "overflow"}
      BY <3>1, <3>6 DEF R!State, R!ReportedAs
    <3> QED BY <3>2, <3>3, <3>4, <3>5, <3>6
  <2> QED BY <2>1, <2>2 DEF StateFacts
<1> QED BY <1>1, <1>2

\* A step adds the state after it to what is seen.
LEMMA WhatIsSeen ==
  ASSUME StatesNoted
  PROVE  /\ SeenNow'
         /\ \A t \in R!Task : R!Watched(t)' => seen[t] \subseteq seen'[t]
            /\ R!State(t)' \in seen'[t]
<1>1. ASSUME NEW t \in R!Task, R!Watched(t)'
      PROVE  seen[t] \subseteq seen'[t] /\ R!State(t)' \in seen'[t]
  <2>1. seen'[t] = seen[t] \cup {R!State(t)'}
    BY <1>1 DEF StatesNoted
  <2> QED BY <2>1
<1> QED BY <1>1 DEF SeenNow

\* What the other tasks and interrupts do to one task.
OneTaskMoves(t) ==
  \/ R!prvAddCurrentTaskToDelayedList(t) \/ R!vTaskSuspend(t) \/ R!Unblocked(t)
  \/ R!xTaskCreate(t) \/ R!vTaskDelete(t)
  \/ R!xTaskRemoveFromEventList(t) \/ R!xTaskGenericNotifyFromISR(t)
  \/ R!xTaskResumeFromISR(t)

\* The others keep the lists in order.
LEMMA OtherLists ==
  ASSUME InfoType, ListsHold, R!OtherStep
  PROVE  InfoType' /\ ListsHold'
<1> USE DEF R!Task, StateLists
<1>1. UNCHANGED << frozen, infoCall, R!array, R!buffer >>
  BY DEF R!OtherStep
<1>2. CASE R!taskSWITCH_DELAYED_LISTS
  BY <1>1, <1>2, ReportsAssumption DEF InfoType, ListsHold, R!taskSWITCH_DELAYED_LISTS,
                                       R!array, R!buffer
<1>3. ASSUME NEW t \in Worker, OneTaskMoves(t)
      PROVE  InfoType' /\ ListsHold'
  <2>1. PICK list \in StateLists, event \in {"none", "object", "pending"} :
          /\ R!Moves(t, list, event)
          /\ waiting' \in {waiting, waiting \ {t}, waiting \cup {t}}
          /\ event = "object" => list \in {"delayed", "overflow", "suspended"}
          /\ event = "pending" => frozen /\ list \notin {"none", "terminated"}
          /\ t \in waiting' => list \notin {"none", "terminated"}
    <3>1. CASE R!prvAddCurrentTaskToDelayedList(t)
      BY <3>1 DEF InfoType, ListsHold, R!prvAddCurrentTaskToDelayedList
    <3>2. CASE R!vTaskSuspend(t) \/ R!Unblocked(t) \/ R!xTaskCreate(t) \/ R!vTaskDelete(t)
      BY <3>2 DEF InfoType, ListsHold, R!vTaskSuspend, R!Unblocked, R!xTaskCreate,
                  R!vTaskDelete
    <3>3. CASE R!xTaskRemoveFromEventList(t) \/ R!xTaskGenericNotifyFromISR(t)
               \/ R!xTaskResumeFromISR(t)
      BY <3>3 DEF InfoType, ListsHold, R!xTaskRemoveFromEventList,
                  R!xTaskGenericNotifyFromISR,
                  R!xTaskResumeFromISR, R!Suspended, R!Readied
    <3> QED BY <1>3, <3>1, <3>2, <3>3 DEF OneTaskMoves
  <2>2. t # "caller"
    BY ReportsAssumption
  <2> QED BY <1>1, <2>1, <2>2 DEF InfoType, ListsHold, R!Moves, R!array, R!buffer
<1> QED BY <1>2, <1>3 DEF R!OtherStep, OneTaskMoves

\* With the scheduler suspended only tasks become pending.
LEMMA WhileFrozen ==
  ASSUME InfoType, ListsHold, R!OtherStep, frozen
  PROVE  /\ xStateList' = xStateList
         /\ \A t \in Worker :
              xEventList'[t] # "pending" =>
                xEventList'[t] = xEventList[t] /\ (t \in waiting' <=> t \in waiting)
<1>1. PICK t \in Worker :
        R!xTaskRemoveFromEventList(t) \/ R!xTaskGenericNotifyFromISR(t) \/ R!xTaskResumeFromISR(t)
  BY DEF R!OtherStep, R!taskSWITCH_DELAYED_LISTS, R!prvAddCurrentTaskToDelayedList, R!Runs,
         R!vTaskSuspend, R!Unblocked, R!xTaskCreate, R!vTaskDelete
<1>2. /\ R!Moves(t, xStateList[t], "pending")
      /\ waiting' = waiting \/ waiting' = waiting \ {t}
  BY <1>1 DEF R!xTaskRemoveFromEventList, R!xTaskGenericNotifyFromISR,
              R!xTaskResumeFromISR, R!Readied
<1> QED BY <1>2 DEF R!Moves, InfoType, R!Task

\* The task that is asked for: it stays, and leaves the suspended tasks only when
\* it is ready.
LEMMA AskedTask ==
  ASSUME InfoType, ListsHold, R!OtherStep, NEW t \in Worker, t = infoCall.task,
         xStateList[t] # "none"
  PROVE  /\ xStateList'[t] # "none"
         /\ \/ R!State(t) = "eReady" \/ R!State(t)' \in {"eReady", "eSuspended"}
            \/ xStateList[t] # "suspended"
            \/ /\ xStateList'[t] = xStateList[t] /\ xEventList'[t] = xEventList[t]
               /\ t \in waiting' <=> t \in waiting
<1>1. t \in R!Task /\ StateFacts /\ StateFacts'
  BY StatesFollow DEF R!Task
<1>2. InfoType' /\ ListsHold'
  BY OtherLists
<1>3. CASE R!taskSWITCH_DELAYED_LISTS
  BY <1>1, <1>3 DEF InfoType, R!taskSWITCH_DELAYED_LISTS
<1>4. ASSUME NEW u \in Worker \ {t}, OneTaskMoves(u)
      PROVE  /\ xStateList'[t] = xStateList[t] /\ xEventList'[t] = xEventList[t]
             /\ t \in waiting' <=> t \in waiting
  <2> USE DEF R!Moves, R!Readied, InfoType, R!Task
  <2>1. CASE R!prvAddCurrentTaskToDelayedList(u) \/ R!vTaskSuspend(u) \/ R!Unblocked(u)
    BY <2>1 DEF R!prvAddCurrentTaskToDelayedList, R!vTaskSuspend, R!Unblocked
  <2>2. CASE R!xTaskCreate(u) \/ R!vTaskDelete(u)
    BY <2>2 DEF R!xTaskCreate, R!vTaskDelete
  <2>3. CASE R!xTaskRemoveFromEventList(u) \/ R!xTaskGenericNotifyFromISR(u) \/ R!xTaskResumeFromISR(u)
    BY <2>3 DEF R!xTaskRemoveFromEventList, R!xTaskGenericNotifyFromISR,
                R!xTaskResumeFromISR
  <2> QED BY <1>4, <2>1, <2>2, <2>3 DEF OneTaskMoves
<1>5. CASE OneTaskMoves(t)
  <2>1. CASE R!prvAddCurrentTaskToDelayedList(t)
    BY <1>1, <2>1 DEF InfoType, R!Moves, R!prvAddCurrentTaskToDelayedList, R!Runs
  <2>2. CASE R!vTaskSuspend(t)
    <3>1. xStateList'[t] = "suspended" /\ xEventList'[t] = "none" /\ t \notin waiting'
      BY <1>1, <2>2 DEF InfoType, R!Moves, R!vTaskSuspend
    <3> QED BY <1>1, <3>1 DEF StateFacts
  <2>3. CASE R!Unblocked(t) \/ R!xTaskCreate(t) \/ R!vTaskDelete(t)
    BY <1>1, <2>3 DEF InfoType, R!Moves, R!Unblocked, R!xTaskCreate, R!vTaskDelete
  <2>4. CASE R!xTaskRemoveFromEventList(t) \/ R!xTaskGenericNotifyFromISR(t) \/ R!xTaskResumeFromISR(t)
    <3>1. R!Readied(t)
      BY <2>4 DEF R!xTaskRemoveFromEventList, R!xTaskGenericNotifyFromISR,
                  R!xTaskResumeFromISR
    <3>2. /\ xStateList'[t] # "none"
          /\ \/ xEventList'[t] = "pending"
             \/ xEventList'[t] = "none" /\ xStateList'[t] = "ready"
      BY <1>1, <3>1 DEF R!Readied, R!Moves, InfoType
    <3> QED BY <1>1, <3>2 DEF StateFacts
  <2> QED BY <1>5, <2>1, <2>2, <2>3, <2>4 DEF OneTaskMoves
<1> QED BY <1>3, <1>4, <1>5 DEF R!OtherStep, OneTaskMoves

\* The steps of the others keep the invariant.
LEMMA OthersKeep ==
  ASSUME InfoInv, R!OtherStep, StatesNoted
  PROVE  InfoInv'
<1> USE DEF InfoInv
<1>1. InfoType' /\ ListsHold' /\ StateFacts /\ StateFacts' /\ SeenNow'
  BY OtherLists, StatesFollow, WhatIsSeen
<1>2. UNCHANGED << frozen, infoCall, R!array, R!buffer >>
  BY DEF R!OtherStep
<1>3. ASSUME NEW t \in R!Task, R!Watched(t)
      PROVE  R!Watched(t)' /\ seen[t] \subseteq seen'[t] /\ R!State(t) \in seen[t]
             /\ R!State(t)' \in seen'[t]
  BY <1>2, <1>3, WhatIsSeen DEF R!Watched, SeenNow
<1>4. ASSUME frozen PROVE ReportHolds' /\ SearchHolds'
  <2>1. /\ xStateList' = xStateList
        /\ \A t \in Worker :
             xEventList'[t] # "pending" =>
               xEventList'[t] = xEventList[t] /\ (t \in waiting' <=> t \in waiting)
    BY <1>4, WhileFrozen
  <2>2. /\ R!uxCurrentNumberOfTasks' = R!uxCurrentNumberOfTasks
        /\ InReport' = InReport
        /\ \A list : R!Members(list)' = R!Members(list)
    BY <1>2, <2>1 DEF R!uxCurrentNumberOfTasks, InReport, PassedLists, R!Members, R!array
  <2>3. R!ReportExact'
    BY <1>2, <1>3, <2>1, <2>2 DEF R!ReportExact, ReportHolds, R!array, R!At, R!Watched
  <2>4. ASSUME NEW t \in Worker, xEventList'[t] # "pending", xStateList[t] # "none"
        PROVE  R!State(t)' = R!State(t)
    <3>1. t \in R!Task
      BY DEF R!Task
    <3> QED BY <1>1, <2>1, <2>4, <3>1 DEF StateFacts, InfoType, StateLists
  <2>5. ReportHolds'
    BY <1>2, <1>3, <2>1, <2>2, <2>3, <2>4 DEF ReportHolds, R!array, R!Watched,
                                              WalkingPlaces, InfoType, R!Members, R!Walked
  <2>6. SearchHolds'
    BY <1>2, <2>1, <2>2 DEF SearchHolds, R!HandleFound, R!At, R!Searched
  <2> QED BY <2>5, <2>6
<1>5. ASSUME ~frozen PROVE ReportHolds' /\ SearchHolds'
  <2>1. ReportHolds'
    BY <1>2, <1>5 DEF ReportHolds, R!array
  <2>2. SearchHolds'
    BY <1>2, <1>5 DEF SearchHolds, R!HandleFound, R!At
  <2> QED BY <2>1, <2>2
<1>6. AnswerHolds'
  <2>1. CASE infoCall.at \in {"again", "againNotified"}
    <3>1. PICK t \in Worker : t = infoCall.task /\ xStateList[t] # "none"
      BY <2>1 DEF AnswerHolds, AnsweringPlaces
    <3>2. /\ xStateList'[t] # "none"
          /\ \/ R!State(t) = "eReady" \/ R!State(t)' \in {"eReady", "eSuspended"}
             \/ xStateList[t] # "suspended"
             \/ /\ xStateList'[t] = xStateList[t] /\ xEventList'[t] = xEventList[t]
                /\ t \in waiting' <=> t \in waiting
      BY <3>1, AskedTask
    <3>3. t \in R!Task /\ R!Watched(t)
      BY <2>1, <3>1 DEF R!Task, R!Watched
    <3> QED BY <1>2, <1>3, <2>1, <3>1, <3>2, <3>3 DEF AnswerHolds, R!AnswerTrue, R!At,
                                                      AnsweringPlaces
  <2>2. CASE infoCall.at = "answer"
    <3>1. PICK t \in R!Task : t = infoCall.task /\ xStateList[t] # "none" /\ R!Watched(t)
      BY <2>2 DEF AnswerHolds, AnsweringPlaces, R!Watched
    <3>2. xStateList'[t] # "none"
      <4>1. CASE t \in Worker
        BY <3>1, <4>1, AskedTask
      <4>2. CASE t = "caller"
        BY <1>1, <4>2 DEF ListsHold
      <4> QED BY <3>1, <4>1, <4>2 DEF R!Task
    <3> QED BY <1>2, <1>3, <2>2, <3>1, <3>2 DEF AnswerHolds, R!AnswerTrue, R!At,
                                                AnsweringPlaces
  <2>3. CASE infoCall.at \notin AnsweringPlaces
    BY <1>2, <2>3 DEF AnswerHolds, R!AnswerTrue, R!At, AnsweringPlaces
  <2> QED BY <2>1, <2>2, <2>3 DEF AnsweringPlaces
<1>7. TextHolds'
  BY <1>2 DEF TextHolds, R!TextFits, R!buffer
<1> QED BY <1>1, <1>4, <1>5, <1>6, <1>7

\* The five lists are all there are.
LEMMA AllLists ==
  ASSUME NEW list \in StateLists, list # "none"
  PROVE  (\E i \in 1..5 : list = R!Walked[i]) /\ (\E i \in 1..5 : list = R!Searched[i])
<1>1. R!Walked[1] = "ready" /\ R!Walked[2] = "delayed" /\ R!Walked[3] = "overflow"
      /\ R!Walked[4] = "terminated" /\ R!Walked[5] = "suspended"
  BY DEF R!Walked
<1>2. R!Searched[1] = "ready" /\ R!Searched[2] = "delayed" /\ R!Searched[3] = "overflow"
      /\ R!Searched[4] = "suspended" /\ R!Searched[5] = "terminated"
  BY DEF R!Searched
<1> QED BY <1>1, <1>2 DEF StateLists

\* The count, of a finite set.
LEMMA TasksCounted ==
  ASSUME InfoInv
  PROVE  /\ IsFiniteSet(R!Task) /\ R!uxCurrentNumberOfTasks = Cardinality(TasksThere)
         /\ R!uxCurrentNumberOfTasks \in Nat
<1>1. IsFiniteSet(R!Task)
  BY FS_AddElement, ReportsAssumption DEF R!Task
<1>2. IsFiniteSet(TasksThere)
  BY <1>1, FS_Subset DEF TasksThere
<1>3. \A set : R!Cardinality(set) = Cardinality(set)
  BY DEF R!Cardinality, Cardinality
<1> QED BY <1>1, <1>2, <1>3, FS_CardinalityType DEF TasksThere, R!uxCurrentNumberOfTasks

\* The array is allocated, and the report starts.
LEMMA ListStarts ==
  ASSUME InfoInv, StatesNoted,
         \/ \E length \in BufferLengths : R!vTaskListTasks(length)
         \/ R!AllocateArray
  PROVE  InfoInv'
<1> USE DEF InfoInv
<1>1. SeenNow'
  BY WhatIsSeen
<1>3. R!uxCurrentNumberOfTasks \in Nat
  BY TasksCounted
<1>4. CASE \E length \in BufferLengths : R!vTaskListTasks(length)
  <2>1. PICK length \in BufferLengths : R!vTaskListTasks(length)
    BY <1>4
  <2>2. infoCall.at = "app" /\ infoCall' = [infoCall EXCEPT !.at = "allocate"]
    BY <2>1 DEF R!vTaskListTasks, R!At, R!Goto
  <2>3. InfoType' /\ ListsHold'
    BY <1>3, <2>1, <2>2, ReportsAssumption DEF InfoType, InfoCall, ListsHold,
                                               R!vTaskListTasks, R!lists, ListingPlaces
  <2>4. ReportHolds' /\ AnswerHolds' /\ SearchHolds'
    BY <2>1, <2>2 DEF InfoType, InfoCall, ReportHolds, AnswerHolds, R!AnswerTrue,
                      SearchHolds, R!HandleFound, R!At, R!vTaskListTasks,
                      WalkingPlaces, AnsweringPlaces
  <2>5. TextHolds'
    BY <2>1, <2>2, ReportsAssumption DEF TextHolds, R!TextFits, InfoType, InfoCall,
                                         R!vTaskListTasks
  <2> QED BY <1>1, <2>3, <2>4, <2>5
<1>5. CASE R!AllocateArray
  <2>1. infoCall.at = "allocate"
        /\ (infoCall' = [infoCall EXCEPT !.at = "collect"] \/ infoCall' = R!AtRest)
    BY <1>5 DEF R!AllocateArray, R!At, R!Goto
  <2>2. InfoType' /\ ListsHold'
    BY <1>3, <1>5, <2>1 DEF InfoType, InfoCall, ListsHold, R!AllocateArray, R!AtRest,
                            R!lists, ListingPlaces
  <2>3. ReportHolds' /\ AnswerHolds' /\ SearchHolds'
    BY <1>5, <2>1 DEF InfoType, InfoCall, ReportHolds, AnswerHolds, R!AnswerTrue,
                      SearchHolds, R!HandleFound, R!At,
                      R!AllocateArray, R!AtRest, WalkingPlaces, AnsweringPlaces
  <2>4. TextHolds'
    BY <1>5, <2>1 DEF TextHolds, R!TextFits, InfoType, InfoCall, R!AllocateArray, R!AtRest
  <2> QED BY <1>1, <2>2, <2>3, <2>4
<1> QED BY <1>4, <1>5

\* The lists are walked if the array is long enough.
LEMMA ReportStarts ==
  ASSUME InfoInv, StatesNoted, R!uxTaskGetSystemState
  PROVE  InfoInv'
<1> USE DEF InfoInv
<1>1. SeenNow'
  BY WhatIsSeen
<1>2. infoCall.at = "collect" /\ frozen' = TRUE
      /\ UNCHANGED << R!lists, R!array, R!buffer >>
  BY DEF R!uxTaskGetSystemState, R!At, R!vTaskSuspendAll
<1>3. /\ infoCall'.task = infoCall.task /\ infoCall'.state = infoCall.state
      /\ infoCall'.index \in Nat
      /\ IF uxArraySize >= R!uxCurrentNumberOfTasks
         THEN infoCall'.at = "walk" /\ infoCall'.index = 1 ELSE infoCall'.at = "collected"
      /\ infoCall' \in InfoCall
  <2>1. PICK at \in {"walk", "collected"}, i \in Nat :
          /\ infoCall' = [infoCall EXCEPT !.at = at, !.index = i]
          /\ IF uxArraySize >= R!uxCurrentNumberOfTasks THEN at = "walk"
             /\ i = 1 ELSE at = "collected"
    <3>1. CASE uxArraySize >= R!uxCurrentNumberOfTasks
      BY <3>1 DEF R!uxTaskGetSystemState
    <3>2. CASE ~(uxArraySize >= R!uxCurrentNumberOfTasks)
      <4>1. infoCall' = [infoCall EXCEPT !.at = "collected"]
        BY <3>2 DEF R!uxTaskGetSystemState
      <4>2. infoCall' = [infoCall EXCEPT !.at = "collected", !.index = infoCall.index]
        BY <4>1 DEF InfoType, InfoCall
      <4> QED BY <3>2, <4>2 DEF InfoType, InfoCall
    <3> QED BY <3>1, <3>2
  <2> QED BY <2>1 DEF InfoType, InfoCall, WalkingPlaces, ListingPlaces
<1>4. R!uxCurrentNumberOfTasks' = R!uxCurrentNumberOfTasks
  BY <1>2 DEF R!uxCurrentNumberOfTasks, R!lists
<1>5. R!uxCurrentNumberOfTasks \in Nat /\ uxTask = 0 /\ visited = {}
      /\ \A t \in R!Task : report[t] = "none"
  BY <1>2, TasksCounted DEF ReportHolds, WalkingPlaces
<1>6. InfoType' /\ ListsHold'
  BY <1>2, <1>3 DEF InfoType, InfoCall, ListsHold, R!lists, R!array, R!buffer,
                    ListingPlaces, WalkingPlaces
<1>7. infoCall'.at = "walk" => InReport' = {}
  BY <1>2, <1>3, <1>5 DEF InReport, PassedLists, R!array
<1>8. ReportHolds'
  <2>1. CASE infoCall'.at = "walk"
    BY <1>2, <1>3, <1>4, <1>5, <1>7, <2>1, FS_EmptySet DEF ReportHolds, R!array,
                                                           WalkingPlaces, InfoType, InfoCall
  <2>2. CASE infoCall'.at = "collected"
    BY <1>2, <1>3, <1>4, <1>5, <2>2 DEF ReportHolds, R!ReportExact, R!array, R!At,
                                        WalkingPlaces, InfoType, InfoCall
  <2> QED BY <1>3, <2>1, <2>2
<1>9. AnswerHolds' /\ SearchHolds' /\ TextHolds'
  BY <1>2, <1>3 DEF AnswerHolds, R!AnswerTrue, AnsweringPlaces, SearchHolds, R!HandleFound,
                    R!At, TextHolds, R!TextFits, R!buffer
<1> QED BY <1>1, <1>6, <1>8, <1>9

\* One task of the list.
LEMMA WalkStep ==
  ASSUME InfoInv, StatesNoted, R!prvListTasksWithinSingleList
  PROVE  InfoInv'
<1> USE DEF InfoInv
<1>1. SeenNow' /\ StateFacts
  BY WhatIsSeen, StatesFollow
<1>2. PICK n \in 1..5 : n = infoCall.index
  BY DEF R!prvListTasksWithinSingleList, R!At, ReportHolds, WalkingPlaces
<1> DEFINE list == R!Walked[n]
<1>3. /\ infoCall.at = "walk" /\ frozen /\ frozen' /\ frozen' \in BOOLEAN
      /\ xStateList' = xStateList /\ xEventList' = xEventList /\ waiting' = waiting
      /\ UNCHANGED << uxArraySize, allocated, uxBufferLength, uxConsumedBufferLength >>
  BY DEF R!prvListTasksWithinSingleList, R!At, ReportHolds, WalkingPlaces, InfoType,
         InfoCall, R!lists, R!buffer
<1>4. PICK t \in R!Members(list) \ visited :
        /\ visited' = visited \cup {t}
        /\ \/ /\ t = "caller" /\ infoCall' = infoCall
              /\ report' = [report EXCEPT ![t] = "eRunning"] /\ uxTask' = uxTask + 1
           \/ /\ t # "caller" /\ UNCHANGED << uxTask, report >>
              /\ \E at \in {"isPending", "isNotified"}, st \in {"eReady", "eBlocked", "eSuspended", "eDeleted"} :
                   /\ infoCall' = [infoCall EXCEPT !.at = at, !.task = t, !.state = st]
                   /\ \/ at = "isPending" /\ list # "suspended" /\ st = R!ReportedAs(list)
                      \/ /\ at = "isPending" /\ list = "suspended" /\ xEventList[t] # "none"
                         /\ st = "eBlocked"
                      \/ /\ at = "isNotified" /\ list = "suspended"
                            /\ xEventList[t] = "none"
                         /\ st = "eSuspended"
  <2>1. R!ReportedAs(list) \in {"eReady", "eBlocked", "eSuspended", "eDeleted"}
    BY DEF R!ReportedAs
  <2>2. list = R!Walked[infoCall.index]
    BY <1>2
  <2> HIDE DEF list
  <2> QED BY <2>1, <2>2 DEF R!prvListTasksWithinSingleList, R!Reported
<1>5. t \in R!Task /\ xStateList[t] = list /\ t \notin visited
  BY <1>4 DEF R!Members
<1>6. list \in StateLists \ {"none"}
  BY <1>2 DEF R!Walked, StateLists
<1>7. t \notin PassedLists /\ t \notin InReport
  <2>1. \A i \in 1..(n - 1) : R!Walked[i] # list
    BY <1>2 DEF R!Walked
  <2> HIDE DEF list
  <2> QED BY <1>2, <1>3, <1>5, <2>1 DEF InReport, PassedLists
<1>8. IsFiniteSet(InReport) /\ InReport = PassedLists \cup visited
  <2>1. InReport \subseteq R!Task
    BY DEF InReport, PassedLists, InfoType, InfoCall
  <2> QED BY <1>3, <2>1, TasksCounted, FS_Subset DEF InReport
<1>9. R!uxCurrentNumberOfTasks' = R!uxCurrentNumberOfTasks
  BY <1>3 DEF R!uxCurrentNumberOfTasks
<1>10. visited \subseteq R!Members(list) /\ R!Members(list) \subseteq R!Task
  BY <1>2, <1>3 DEF ReportHolds, WalkingPlaces, R!Members
<1> HIDE DEF list
<1>11. /\ uxTask = Cardinality(InReport) /\ uxArraySize >= R!uxCurrentNumberOfTasks
       /\ \A u \in R!Task : IF u \in InReport THEN report[u] \in seen[u] ELSE report[u] = "none"
  BY <1>3 DEF ReportHolds, WalkingPlaces
<1>12. ASSUME infoCall'.at \in WalkingPlaces, infoCall'.index = n
       PROVE  /\ PassedLists' = PassedLists
                 /\ visited' \subseteq R!Members(R!Walked[infoCall.index])'
              /\ \A u \in R!Task : seen[u] \subseteq seen'[u] /\ R!State(u) \in seen[u]
                 /\ R!State(u)' \in seen'[u]
              /\ TextHolds'
  <2>1. PassedLists' = PassedLists
    BY <1>2, <1>3, <1>12 DEF PassedLists
  <2>2. visited' \subseteq R!Members(R!Walked[infoCall.index])'
    <3>1. R!Members(R!Walked[infoCall.index])' = R!Members(list)
      BY <1>3, <1>12 DEF R!Members, list
    <3> QED BY <1>4, <1>10, <3>1
  <2>3. \A u \in R!Task : R!Watched(u) /\ R!Watched(u)'
    BY <1>3, <1>12 DEF R!Watched, WalkingPlaces
  <2>4. TextHolds'
    BY <1>3, <1>12 DEF TextHolds, R!TextFits, WalkingPlaces
  <2> QED BY <2>1, <2>2, <2>3, <2>4, WhatIsSeen DEF SeenNow
<1>13. CASE t = "caller"
  <2>1. infoCall' = infoCall /\ uxTask' = uxTask + 1
        /\ report' = [report EXCEPT ![t] = "eRunning"]
    BY <1>4, <1>13
  <2>2. /\ PassedLists' = PassedLists
           /\ visited' \subseteq R!Members(R!Walked[infoCall.index])'
        /\ \A u \in R!Task : seen[u] \subseteq seen'[u] /\ R!State(u) \in seen[u]
        /\ TextHolds'
    BY <1>2, <1>3, <1>12, <2>1 DEF WalkingPlaces
  <2>3. InReport' = InReport \cup {t}
    BY <1>3, <1>4, <1>8, <2>1, <2>2 DEF InReport
  <2>4. uxTask' = Cardinality(InReport')
    BY <1>7, <1>8, <1>11, <2>1, <2>3, FS_AddElement
  <2>5. \A u \in R!Task : IF u \in InReport' THEN report'[u] \in seen'[u] ELSE report'[u] = "none"
    BY <1>1, <1>5, <1>11, <1>13, <2>1, <2>2, <2>3 DEF StateFacts, InfoType, InfoCall
  <2>6. InfoType' /\ ListsHold'
    BY <1>3, <1>4, <1>5, <2>1 DEF InfoType, InfoCall, ListsHold
  <2>7. ReportHolds'
    BY <1>2, <1>3, <1>9, <1>11, <2>1, <2>2, <2>4, <2>5 DEF ReportHolds, WalkingPlaces,
                                                           R!At, R!ReportExact
  <2>8. AnswerHolds' /\ SearchHolds'
    BY <1>3, <2>1 DEF AnswerHolds, R!AnswerTrue, AnsweringPlaces, SearchHolds,
                      R!HandleFound, R!At
  <2> QED BY <1>1, <2>2, <2>6, <2>7, <2>8
<1>14. CASE t # "caller"
  <2>1. PICK at \in {"isPending", "isNotified"}, st \in {"eReady", "eBlocked", "eSuspended", "eDeleted"} :
          /\ infoCall' = [infoCall EXCEPT !.at = at, !.task = t, !.state = st]
          /\ \/ at = "isPending" /\ list # "suspended" /\ st = R!ReportedAs(list)
             \/ at = "isPending" /\ list = "suspended" /\ xEventList[t] # "none"
                /\ st = "eBlocked"
             \/ at = "isNotified" /\ list = "suspended" /\ xEventList[t] = "none"
                /\ st = "eSuspended"
    BY <1>4, <1>14
  <2>2. uxTask' = uxTask /\ report' = report /\ t \in Worker
    BY <1>4, <1>5, <1>14 DEF R!Task
  <2>3. /\ infoCall'.at = at /\ infoCall'.task = t /\ infoCall'.state = st
           /\ infoCall'.index = n
    BY <1>2, <2>1 DEF InfoType, InfoCall
  <2>4. /\ PassedLists' = PassedLists
           /\ visited' \subseteq R!Members(R!Walked[infoCall.index])'
        /\ \A u \in R!Task : seen[u] \subseteq seen'[u]
        /\ TextHolds'
    BY <1>12, <2>3 DEF WalkingPlaces
  <2>5. InReport' = InReport
    BY <1>4, <1>7, <1>8, <2>3, <2>4 DEF InReport
  <2>6. /\ at = "isPending" => xEventList[t] = "pending" \/ st = R!State(t)
        /\ at = "isNotified" => st = "eSuspended" /\ list = "suspended"
           /\ xEventList[t] = "none"
    <3>1. R!ReportedAs("ready") = "eReady" /\ R!ReportedAs("terminated") = "eDeleted"
          /\ R!ReportedAs("delayed") = "eBlocked" /\ R!ReportedAs("overflow") = "eBlocked"
      BY DEF R!ReportedAs
    <3> QED BY <1>1, <1>5, <1>6, <2>1, <2>2, <3>1 DEF StateFacts, StateLists
  <2>7. R!State(t)' = R!State(t)
    BY <1>3 DEF R!State, R!Suspended
  <2>8. \A u \in R!Task : IF u \in InReport' THEN report'[u] \in seen'[u] ELSE report'[u] = "none"
    BY <1>11, <2>2, <2>4, <2>5
  <2>9. InfoType' /\ ListsHold'
    BY <1>3, <1>4, <1>5, <2>1, <2>2, <2>3 DEF InfoType, InfoCall, ListsHold, WalkingPlaces
  <2>10. ReportHolds'
    <3>1. /\ frozen' /\ infoCall'.index \in 1..5
          /\ visited' \subseteq R!Members(R!Walked[infoCall.index])'
          /\ (uxArraySize >= R!uxCurrentNumberOfTasks)'
          /\ uxTask' = Cardinality(InReport')
      BY <1>2, <1>3, <1>9, <1>11, <2>2, <2>3, <2>4, <2>5
    <3>2. t \in visited' \cap Worker
      BY <1>4, <2>2
    <3>3. infoCall'.at = "isPending" => xEventList'[t] = "pending" \/ infoCall'.state = R!State(t)'
      BY <1>3, <2>3, <2>6, <2>7
    <3>4. infoCall'.at = "isNotified" =>
            infoCall'.state = "eSuspended" /\ xStateList'[t] = "suspended"
            /\ xEventList'[t] # "object"
      BY <1>3, <1>5, <2>3, <2>6
    <3>5. infoCall'.at \in {"isPending", "isNotified"} /\ infoCall'.task = t
      BY <2>3
    <3> QED BY <2>8, <3>1, <3>2, <3>3, <3>4, <3>5 DEF ReportHolds, WalkingPlaces
  <2>11. AnswerHolds' /\ SearchHolds'
    BY <1>3, <2>3 DEF AnswerHolds, R!AnswerTrue, AnsweringPlaces, SearchHolds,
                      R!HandleFound, R!At
  <2> QED BY <1>1, <2>4, <2>9, <2>10, <2>11
<1> QED BY <1>13, <1>14

\* The end of a list; after the last one every task is in the report.
LEMMA WalkEnds ==
  ASSUME InfoInv, StatesNoted, R!EndOfList
  PROVE  InfoInv'
<1> USE DEF InfoInv
<1>1. SeenNow'
  BY WhatIsSeen
<1>2. PICK n \in 1..5 : n = infoCall.index
  BY DEF R!EndOfList, R!At, ReportHolds, WalkingPlaces
<1>3. /\ infoCall.at = "walk" /\ frozen /\ visited' = {}
      /\ xStateList' = xStateList /\ xEventList' = xEventList /\ waiting' = waiting
      /\ UNCHANGED << frozen, uxArraySize, allocated, uxTask, report, uxBufferLength,
                      uxConsumedBufferLength >>
  BY DEF R!EndOfList, R!At, ReportHolds, WalkingPlaces, R!lists, R!buffer
<1>4. R!uxCurrentNumberOfTasks' = R!uxCurrentNumberOfTasks
  BY <1>3 DEF R!uxCurrentNumberOfTasks
<1>5. /\ visited = R!Members(R!Walked[n])
      /\ uxTask = Cardinality(InReport) /\ uxArraySize >= R!uxCurrentNumberOfTasks
      /\ \A u \in R!Task : IF u \in InReport THEN report[u] \in seen[u] ELSE report[u] = "none"
      /\ InReport = PassedLists \cup visited
  BY <1>2, <1>3 DEF ReportHolds, WalkingPlaces, R!EndOfList, InReport
<1>6. Len(R!Walked) = 5
  BY DEF R!Walked
<1>7. InReport = {t \in R!Task : \E i \in 1..n : xStateList[t] = R!Walked[i]}
  <2>1. \A i \in 1..n : i \in 1..(n - 1) \/ i = n
    OBVIOUS
  <2> QED BY <1>2, <1>5, <2>1 DEF PassedLists, R!Members
<1>8. CASE n < 5
  <2>1. infoCall' = [infoCall EXCEPT !.index = n + 1]
    BY <1>2, <1>6, <1>8 DEF R!EndOfList
  <2>2. infoCall'.at = "walk" /\ infoCall'.index = n + 1 /\ infoCall'.task = infoCall.task
        /\ infoCall' \in InfoCall
    BY <1>3, <1>8, <2>1 DEF InfoType, InfoCall, WalkingPlaces
  <2>3. InReport' = InReport
    <3>1. (n + 1) - 1 = n
      OBVIOUS
    <3> QED BY <1>3, <1>7, <2>2, <3>1 DEF InReport, PassedLists
  <2>4. \A u \in R!Task : seen[u] \subseteq seen'[u]
    BY <2>2, WhatIsSeen DEF R!Watched
  <2>5. InfoType' /\ ListsHold'
    BY <1>3, <2>2 DEF InfoType, ListsHold
  <2>6. ReportHolds'
    BY <1>3, <1>4, <1>5, <1>8, <2>2, <2>3, <2>4 DEF ReportHolds, WalkingPlaces
  <2>7. AnswerHolds' /\ SearchHolds' /\ TextHolds'
    BY <1>3, <2>2 DEF AnswerHolds, R!AnswerTrue, AnsweringPlaces, SearchHolds,
                      R!HandleFound, R!At, TextHolds, R!TextFits
  <2> QED BY <1>1, <2>5, <2>6, <2>7
<1>9. CASE n = 5
  <2>1. infoCall' = [infoCall EXCEPT !.at = "collected", !.index = 0]
    BY <1>2, <1>6, <1>9 DEF R!EndOfList
  <2>2. infoCall'.at = "collected" /\ infoCall' \in InfoCall
    BY <2>1 DEF InfoType, InfoCall, ListingPlaces
  <2>3. InReport = TasksThere
    <3>1. \A i \in 1..5 : R!Walked[i] # "none"
      BY DEF R!Walked
    <3> QED BY <1>7, <1>9, <3>1, AllLists DEF TasksThere, InfoType
  <2>4. uxTask = R!uxCurrentNumberOfTasks
    BY <1>5, <2>3, TasksCounted
  <2>5. \A u \in R!Task : seen[u] \subseteq seen'[u]
    BY <2>2, WhatIsSeen DEF R!Watched
  <2>6. \A u \in R!Task : IF xStateList[u] = "none" THEN report[u] = "none" ELSE report[u] \in seen'[u]
    BY <1>5, <2>3, <2>5 DEF TasksThere
  <2>7. allocated >= uxArraySize => uxTask <= allocated
    BY <1>5, <2>4 DEF InfoType
  <2>8. R!ReportExact'
    BY <1>3, <1>4, <2>2, <2>4, <2>6, <2>7 DEF R!ReportExact
  <2>9. InfoType' /\ ListsHold'
    BY <1>3, <2>2 DEF InfoType, ListsHold
  <2>10. ReportHolds'
    BY <1>3, <2>2, <2>8 DEF ReportHolds, WalkingPlaces
  <2>11. AnswerHolds' /\ SearchHolds' /\ TextHolds'
    BY <1>3, <2>2 DEF AnswerHolds, R!AnswerTrue, AnsweringPlaces, SearchHolds,
                      R!HandleFound, R!At, TextHolds, R!TextFits
  <2> QED BY <1>1, <2>9, <2>10, <2>11
<1> QED BY <1>2, <1>8, <1>9

\* A task without an object is asked for a notification.
LEMMA NotifiedStep ==
  ASSUME InfoInv, StatesNoted, R!AsksNotification
  PROVE  InfoInv'
<1> USE DEF InfoInv
<1>1. SeenNow' /\ StateFacts
  BY WhatIsSeen, StatesFollow
<1>2. PICK t \in Worker : t = infoCall.task /\ t \in R!Task /\ t \in visited
  BY DEF R!AsksNotification, R!At, ReportHolds, R!Task
<1>3. PICK n \in 1..5 : n = infoCall.index
  BY DEF R!AsksNotification, R!At, ReportHolds, WalkingPlaces
<1>4. /\ infoCall.at = "isNotified"
      /\ xStateList' = xStateList /\ xEventList' = xEventList /\ waiting' = waiting
      /\ UNCHANGED << frozen, uxArraySize, allocated, visited, uxTask, report, uxBufferLength,
                      uxConsumedBufferLength >>
  BY DEF R!AsksNotification, R!At, R!lists, R!array, R!buffer
<1>5. PICK st \in {"eBlocked", "eSuspended"} :
        /\ infoCall' = [infoCall EXCEPT !.at = "isPending", !.state = st]
        /\ st = IF t \in waiting THEN "eBlocked" ELSE "eSuspended"
  <2>1. infoCall.state = "eSuspended"
    BY <1>4 DEF ReportHolds
  <2> QED BY <1>2, <2>1 DEF R!AsksNotification
<1>6. /\ infoCall'.at = "isPending" /\ infoCall'.task = t /\ infoCall'.state = st
      /\ infoCall'.index = n /\ infoCall' \in InfoCall
  BY <1>2, <1>3, <1>5 DEF InfoType, InfoCall, WalkingPlaces
<1>7. R!uxCurrentNumberOfTasks' = R!uxCurrentNumberOfTasks /\ R!State(t)' = R!State(t)
  BY <1>4 DEF R!uxCurrentNumberOfTasks, R!State, R!Suspended
<1>8. InReport' = InReport /\ R!Members(R!Walked[infoCall.index])' = R!Members(R!Walked[n])
  BY <1>2, <1>3, <1>4, <1>6 DEF InReport, PassedLists, R!Members
<1>9. \A u \in R!Task : seen[u] \subseteq seen'[u]
  BY <1>6, WhatIsSeen DEF R!Watched
<1>10. xStateList[t] = "suspended" /\ xEventList[t] # "object"
  BY <1>2, <1>4 DEF ReportHolds
<1>11. xEventList[t] = "pending" \/ st = R!State(t)
  BY <1>1, <1>2, <1>5, <1>10 DEF StateFacts, InfoType
<1>12. InfoType' /\ ListsHold'
  BY <1>4, <1>6 DEF InfoType, ListsHold
<1>13. ReportHolds'
  BY <1>2, <1>3, <1>4, <1>6, <1>7, <1>8, <1>9, <1>11 DEF ReportHolds, WalkingPlaces
<1>14. AnswerHolds' /\ SearchHolds' /\ TextHolds'
  BY <1>4, <1>6 DEF AnswerHolds, R!AnswerTrue, AnsweringPlaces, SearchHolds, R!HandleFound,
                    R!At, TextHolds, R!TextFits
<1> QED BY <1>1, <1>12, <1>13, <1>14

\* The row of a task.
LEMMA InfoStep ==
  ASSUME InfoInv, StatesNoted, R!vTaskGetInfo
  PROVE  InfoInv'
<1> USE DEF InfoInv
<1>1. SeenNow' /\ StateFacts
  BY WhatIsSeen, StatesFollow
<1>2. PICK t \in Worker : t = infoCall.task /\ t \in R!Task /\ t \in visited
  BY DEF R!vTaskGetInfo, R!At, ReportHolds, R!Task
<1>3. PICK n \in 1..5 : n = infoCall.index
  BY DEF R!vTaskGetInfo, R!At, ReportHolds, WalkingPlaces
<1>4. /\ infoCall.at = "isPending"
      /\ xStateList' = xStateList /\ xEventList' = xEventList /\ waiting' = waiting
      /\ UNCHANGED << frozen, uxArraySize, allocated, visited, uxBufferLength,
                      uxConsumedBufferLength >>
      /\ infoCall' = [infoCall EXCEPT !.at = "walk", !.task = NoTask, !.state = "none"]
      /\ uxTask' = uxTask + 1
      /\ report' = [report EXCEPT ![t] = IF xEventList[t] = "pending" THEN "eReady"
                                         ELSE infoCall.state]
  BY <1>2 DEF R!vTaskGetInfo, R!Reported, R!At, R!lists, R!buffer
<1>5. infoCall'.at = "walk" /\ infoCall'.task = NoTask /\ infoCall'.index = n
      /\ infoCall' \in InfoCall
  BY <1>3, <1>4 DEF InfoType, InfoCall, WalkingPlaces
<1>6. R!uxCurrentNumberOfTasks' = R!uxCurrentNumberOfTasks
  BY <1>4 DEF R!uxCurrentNumberOfTasks
<1>7. R!Members(R!Walked[infoCall.index])' = R!Members(R!Walked[n])
  BY <1>3, <1>4, <1>5 DEF R!Members
<1>8. /\ visited \subseteq R!Members(R!Walked[n]) /\ uxArraySize >= R!uxCurrentNumberOfTasks
      /\ uxTask = Cardinality(InReport) /\ frozen
      /\ \A u \in R!Task : IF u \in InReport THEN report[u] \in seen[u] ELSE report[u] = "none"
  BY <1>3, <1>4 DEF ReportHolds, WalkingPlaces
<1>9. InReport' = InReport \cup {t} /\ t \notin InReport
  <2>1. \A i \in 1..(n - 1) : R!Walked[i] # R!Walked[n]
    BY DEF R!Walked
  <2>2. t \notin PassedLists
    BY <1>2, <1>3, <1>8, <2>1 DEF PassedLists, R!Members
  <2>3. PassedLists' = PassedLists
    BY <1>3, <1>4, <1>5 DEF PassedLists
  <2> QED BY <1>2, <1>4, <1>5, <2>2, <2>3 DEF InReport
<1>10. uxTask' = Cardinality(InReport')
  <2>1. InReport \subseteq R!Task
    BY DEF InReport, PassedLists, InfoType
  <2> QED BY <1>4, <1>8, <1>9, <2>1, TasksCounted, FS_Subset, FS_AddElement
<1>11. \A u \in R!Task : seen[u] \subseteq seen'[u] /\ R!State(u) \in seen[u]
  <2>1. \A u \in R!Task : R!Watched(u) /\ R!Watched(u)'
    BY <1>4, <1>5 DEF R!Watched
  <2> QED BY <2>1, WhatIsSeen DEF SeenNow
<1>12. report'[t] = R!State(t)
  <2>1. xEventList[t] = "pending" => xStateList[t] # "none"
    BY DEF ListsHold
  <2>2. xEventList[t] = "pending" \/ infoCall.state = R!State(t)
    BY <1>2, <1>4 DEF ReportHolds
  <2> QED BY <1>1, <1>2, <1>4, <2>1, <2>2 DEF StateFacts, InfoType
<1>13. \A u \in R!Task : IF u \in InReport' THEN report'[u] \in seen'[u] ELSE report'[u] = "none"
  BY <1>2, <1>4, <1>8, <1>9, <1>11, <1>12 DEF InfoType
<1>14. InfoType' /\ ListsHold'
  BY <1>4, <1>5 DEF InfoType, ListsHold
<1>15. ReportHolds'
  BY <1>4, <1>5, <1>6, <1>7, <1>8, <1>10, <1>13 DEF ReportHolds, WalkingPlaces
<1>16. AnswerHolds' /\ SearchHolds' /\ TextHolds'
  BY <1>4, <1>5 DEF AnswerHolds, R!AnswerTrue, AnsweringPlaces, SearchHolds, R!HandleFound,
                    R!At, TextHolds, R!TextFits
<1> QED BY <1>1, <1>14, <1>15, <1>16

\* The woken tasks are ready when the scheduler is resumed.
LEMMA SchedulerResumed ==
  ASSUME InfoType, ListsHold, R!xTaskResumeAll
  PROVE  /\ xStateList' \in [R!Task -> StateLists]
         /\ xEventList' \in [R!Task -> {"none", "object", "pending"}]
         /\ waiting' \subseteq Worker /\ frozen' \in BOOLEAN
         /\ ListsHold'
  BY ReportsAssumption DEF InfoType, ListsHold, R!xTaskResumeAll, StateLists, R!Task

\* The report is done.
LEMMA ReportEnds ==
  ASSUME InfoInv, StatesNoted, R!Collected
  PROVE  InfoInv'
<1> USE DEF InfoInv
<1>1. SeenNow'
  BY WhatIsSeen
<1>2. PICK at \in {"rows", "free"} : infoCall' = [infoCall EXCEPT !.at = at]
  BY DEF R!Collected, R!Goto
<1>3. infoCall'.at = at /\ infoCall' \in InfoCall
  BY <1>2 DEF InfoType, InfoCall, ListingPlaces
<1>4. InfoType' /\ ListsHold'
  BY <1>3, SchedulerResumed DEF R!Collected, InfoType, R!buffer
<1>5. ReportHolds' /\ AnswerHolds' /\ SearchHolds'
  BY <1>3 DEF ReportHolds, AnswerHolds, R!AnswerTrue, SearchHolds, R!HandleFound, R!At,
              R!Collected, WalkingPlaces, AnsweringPlaces
<1>6. TextHolds'
  BY <1>3 DEF TextHolds, R!TextFits, R!Collected, R!At, R!buffer
<1> QED BY <1>1, <1>4, <1>5, <1>6

\* A row is written as far as it fits.
LEMMA RowStep ==
  ASSUME InfoInv, StatesNoted, R!WriteRow
  PROVE  InfoInv'
<1> USE DEF InfoInv
<1> DEFINE nameEnd == uxConsumedBufferLength + configMAX_TASK_NAME_LEN - 1
<1>1. SeenNow'
  BY WhatIsSeen
<1>2. /\ infoCall.at = "rows" /\ UNCHANGED << R!lists, frozen, R!array, uxBufferLength >>
      /\ infoCall.index < uxTask
  BY DEF R!WriteRow, R!At
<1>3. configMAX_TASK_NAME_LEN >= 1 /\ nameEnd \in Nat /\ uxBufferLength \in Nat
      /\ uxConsumedBufferLength \in Nat
  BY ReportsAssumption DEF InfoType
<1>4. PICK at \in {"rows", "free"}, i \in Nat : infoCall' = [infoCall EXCEPT !.at = at, !.index = i]
  <2>1. infoCall.index + 1 \in Nat /\ infoCall.index \in Nat
    BY DEF InfoType, InfoCall
  <2>2. CASE R!Goto("free")
    <3>1. infoCall' = [infoCall EXCEPT !.at = "free", !.index = infoCall.index]
      BY <2>2 DEF R!Goto, InfoType, InfoCall
    <3> QED BY <2>1, <3>1
  <2>3. CASE infoCall' = [infoCall EXCEPT !.index = @ + 1]
    <3>1. infoCall' = [infoCall EXCEPT !.at = "rows", !.index = infoCall.index + 1]
      BY <1>2, <2>3 DEF InfoType, InfoCall
    <3> QED BY <2>1, <3>1
  <2> QED BY <2>2, <2>3 DEF R!WriteRow
<1>5. uxConsumedBufferLength' \in Nat
      /\ (uxBufferLength > 0 => uxConsumedBufferLength' < uxBufferLength)
  <2> HIDE DEF nameEnd
  <2>1. CASE nameEnd + 1 > uxBufferLength
    BY <1>3, <2>1 DEF R!WriteRow, TextHolds, R!TextFits, nameEnd
  <2>2. CASE nameEnd + 1 <= uxBufferLength /\ nameEnd >= uxBufferLength - 1
    <3>1. uxConsumedBufferLength' = nameEnd
      BY <1>3, <2>2 DEF R!WriteRow, nameEnd
    <3> QED BY <1>3, <2>2, <3>1
  <2>3. CASE nameEnd < uxBufferLength - 1
    <3>1. PICK m \in RowLengths : uxConsumedBufferLength' =
            nameEnd + R!prvSnprintfReturnValueToCharsWritten(m, uxBufferLength - nameEnd)
      BY <1>3, <2>3 DEF R!WriteRow, nameEnd
    <3>2. m \in Int
      BY ReportsAssumption
    <3>3. /\ R!prvSnprintfReturnValueToCharsWritten(m, uxBufferLength - nameEnd) \in Nat
          /\ R!prvSnprintfReturnValueToCharsWritten(m, uxBufferLength - nameEnd) < uxBufferLength - nameEnd
      BY <1>3, <2>3, <3>2 DEF R!prvSnprintfReturnValueToCharsWritten
    <3> QED BY <1>3, <2>3, <3>1, <3>3
  <2> QED BY <1>3, <2>1, <2>2, <2>3
<1>6. infoCall'.at = at /\ infoCall' \in InfoCall
  BY <1>4 DEF InfoType, InfoCall, ListingPlaces
<1>7. InfoType' /\ ListsHold'
  BY <1>2, <1>5, <1>6 DEF InfoType, ListsHold, R!lists, R!array
<1>8. ReportHolds' /\ AnswerHolds' /\ SearchHolds'
  BY <1>2, <1>6 DEF ReportHolds, AnswerHolds, R!AnswerTrue, SearchHolds, R!HandleFound,
                    R!At, WalkingPlaces, AnsweringPlaces, R!array
<1>9. TextHolds'
  BY <1>2, <1>5, <1>6 DEF TextHolds, R!TextFits
<1> QED BY <1>1, <1>7, <1>8, <1>9

\* The array is freed.
LEMMA ListEnds ==
  ASSUME InfoInv, StatesNoted, R!ListReturns
  PROVE  InfoInv'
<1> USE DEF InfoInv
<1>1. SeenNow'
  BY WhatIsSeen
<1>2. infoCall.at \in {"rows", "free"} /\ infoCall' = R!AtRest
  BY DEF R!ListReturns, R!At
<1>3. infoCall'.at = "app" /\ infoCall' \in InfoCall /\ infoCall'.task = NoTask
  BY <1>2 DEF R!AtRest, InfoCall
<1>4. InfoType' /\ ListsHold'
  BY <1>2, <1>3 DEF InfoType, ListsHold, R!ListReturns, R!lists
<1>5. ReportHolds' /\ AnswerHolds' /\ SearchHolds' /\ TextHolds'
  BY <1>2, <1>3 DEF ReportHolds, AnswerHolds, R!AnswerTrue, SearchHolds, R!HandleFound,
                    R!At, WalkingPlaces, AnsweringPlaces,
                    R!ListReturns, TextHolds, R!TextFits
<1> QED BY <1>1, <1>4, <1>5

\* Nothing of the report is touched by the other calls.
LEMMA NotReporting ==
  ASSUME InfoInv, UNCHANGED << R!array, R!buffer >>, infoCall'.at \notin WalkingPlaces \cup ListingPlaces,
         infoCall.at \notin WalkingPlaces \cup ListingPlaces
  PROVE  ReportHolds' /\ TextHolds'
BY DEF InfoInv, ReportHolds, TextHolds, R!TextFits, R!array, R!buffer, WalkingPlaces,
       ListingPlaces

\* eTaskGetState.
LEMMA StateAsked ==
  ASSUME InfoInv, StatesNoted, NEW t \in R!Task, R!eTaskGetState(t)
  PROVE  InfoInv'
<1> USE DEF InfoInv
<1>1. SeenNow' /\ StateFacts
  BY WhatIsSeen, StatesFollow
<1>2. /\ infoCall.at = "app" /\ xStateList[t] # "none" /\ frozen' \in BOOLEAN
      /\ xStateList' = xStateList /\ xEventList' = xEventList /\ waiting' = waiting
      /\ UNCHANGED << R!array, R!buffer >> /\ ~frozen
  BY DEF R!eTaskGetState, R!At, R!lists, ListsHold
<1>3. R!State(t)' = R!State(t)
  BY <1>2 DEF R!State, R!Suspended
<1>4. xEventList[t] # "pending"
  BY <1>2 DEF ListsHold, R!Task
<1>5. \/ /\ infoCall' = [infoCall EXCEPT !.at = "answer", !.task = t, !.state = R!State(t)]
         /\ R!State(t) \in {"eRunning", "eReady", "eBlocked", "eSuspended", "eDeleted"}
      \/ /\ infoCall' = [infoCall EXCEPT !.at = "again", !.task = t, !.state = "eSuspended"]
         /\ t # "caller" /\ xStateList[t] = "suspended"
  <2>1. CASE t = "caller"
    BY <1>1, <2>1 DEF R!eTaskGetState, StateFacts
  <2>2. CASE t # "caller" /\ xStateList[t] = "suspended"
    BY <1>4, <2>2 DEF R!eTaskGetState
  <2>3. CASE t # "caller" /\ xStateList[t] # "suspended"
    <3>1. infoCall' = [infoCall EXCEPT !.at = "answer", !.task = t, !.state = R!ReportedAs(xStateList[t])]
      BY <1>4, <2>3 DEF R!eTaskGetState
    <3>2. R!ReportedAs("ready") = "eReady" /\ R!ReportedAs("terminated") = "eDeleted"
          /\ R!ReportedAs("delayed") = "eBlocked" /\ R!ReportedAs("overflow") = "eBlocked"
      BY DEF R!ReportedAs
    <3>3. R!State(t) = R!ReportedAs(xStateList[t])
          /\ R!State(t) \in {"eRunning", "eReady", "eBlocked", "eSuspended", "eDeleted"}
      BY <1>1, <1>2, <1>4, <2>3, <3>2 DEF StateFacts, InfoType, StateLists, R!Task
    <3> QED BY <3>1, <3>3
  <2> QED BY <2>1, <2>2, <2>3
<1>6. infoCall' \in InfoCall /\ infoCall'.task = t /\ infoCall'.at \in {"answer", "again"}
  <2>1. PICK at \in {"answer", "again"},
             st \in {"eRunning", "eReady", "eBlocked", "eSuspended", "eDeleted"} :
          infoCall' = [infoCall EXCEPT !.at = at, !.task = t, !.state = st]
    BY <1>5
  <2> QED BY <2>1 DEF InfoType, InfoCall, AnsweringPlaces
<1>7. R!State(t)' \in seen'[t]
  BY <1>6, WhatIsSeen DEF R!Watched
<1>8. InfoType' /\ ListsHold'
  BY <1>2, <1>4, <1>6 DEF InfoType, ListsHold, R!array, R!buffer
<1>9. ReportHolds' /\ TextHolds'
  BY <1>2, <1>6, NotReporting DEF WalkingPlaces, ListingPlaces
<1>10. AnswerHolds'
  <2>1. CASE infoCall'.at = "answer"
    <3>1. infoCall'.state = R!State(t)
      BY <1>5, <2>1 DEF InfoType, InfoCall
    <3> QED BY <1>2, <1>3, <1>6, <1>7, <2>1, <3>1 DEF AnswerHolds, R!AnswerTrue, R!At
  <2>2. CASE infoCall'.at = "again"
    <3>1. infoCall'.state = "eSuspended" /\ t \in Worker /\ xStateList[t] = "suspended"
      BY <1>5, <2>2 DEF InfoType, InfoCall, R!Task
    <3>2. R!State(t) = IF xEventList[t] = "none"
          /\ t \notin waiting THEN "eSuspended" ELSE "eBlocked"
      BY <1>1, <1>4, <3>1 DEF StateFacts
    <3>3. xEventList[t] \in {"none", "object"}
      BY <1>4 DEF InfoType
    <3> QED BY <1>2, <1>3, <1>6, <1>7, <2>2, <3>1, <3>2, <3>3 DEF AnswerHolds,
                                                                  R!AnswerTrue, R!At
  <2> QED BY <1>6, <2>1, <2>2
<1>11. SearchHolds'
  BY <1>6 DEF SearchHolds, R!HandleFound, R!At
<1> QED BY <1>1, <1>8, <1>9, <1>10, <1>11

\* The questions that are asked outside of the critical section.
LEMMA AskedAgain ==
  ASSUME InfoInv, StatesNoted, R!AsksObject \/ R!AsksNotificationAgain
  PROVE  InfoInv'
<1> USE DEF InfoInv
<1>1. SeenNow' /\ StateFacts
  BY WhatIsSeen, StatesFollow
<1>2. /\ infoCall.at \in {"again", "againNotified"}
      /\ xStateList' = xStateList /\ xEventList' = xEventList /\ waiting' = waiting
      /\ UNCHANGED << frozen, R!array, R!buffer >>
  BY DEF R!AsksObject, R!AsksNotificationAgain, R!At, R!lists
<1>3. PICK t \in Worker :
        /\ t = infoCall.task /\ xStateList[t] # "none" /\ t \in R!Task
        /\ infoCall.state = "eSuspended" /\ seen[t] \cap {"eBlocked", "eSuspended"} # {}
        /\ \/ "eReady" \in seen[t] \/ "eSuspended" \in seen[t]
           \/ /\ xStateList[t] = "suspended"
              /\ \/ infoCall.at = "again" /\ xEventList[t] = "object"
                 \/ xEventList[t] = "none" /\ t \in waiting
  BY <1>2 DEF AnswerHolds, AnsweringPlaces, R!Task
<1>4. PICK at \in {"againNotified", "answer"}, st \in {"eBlocked", "eSuspended"} :
        /\ infoCall' = [infoCall EXCEPT !.at = at, !.state = st]
        /\ \/ /\ at = "againNotified" /\ st = "eSuspended"
              /\ infoCall.at = "again" /\ xEventList[t] = "none"
           \/ /\ at = "answer" /\ st = "eBlocked"
              /\ infoCall.at = "again" /\ xEventList[t] # "none"
           \/ /\ at = "answer" /\ infoCall.at = "againNotified"
              /\ st = IF t \in waiting THEN "eBlocked" ELSE "eSuspended"
  <2>1. CASE R!AsksObject /\ xEventList[t] = "none"
    <3>1. infoCall' = [infoCall EXCEPT !.at = "againNotified"]
      BY <1>3, <2>1 DEF R!AsksObject
    <3>2. infoCall' = [infoCall EXCEPT !.at = "againNotified", !.state = "eSuspended"]
      BY <1>3, <3>1 DEF InfoType, InfoCall
    <3> QED BY <2>1, <3>2 DEF R!AsksObject, R!At
  <2>2. CASE R!AsksObject /\ xEventList[t] # "none"
    BY <1>3, <2>2 DEF R!AsksObject, R!At
  <2>3. CASE R!AsksNotificationAgain
    BY <1>3, <2>3 DEF R!AsksNotificationAgain, R!At
  <2> QED BY <2>1, <2>2, <2>3
<1>5. infoCall' \in InfoCall /\ infoCall'.at = at /\ infoCall'.task = t
      /\ infoCall'.state = st
  BY <1>3, <1>4 DEF InfoType, InfoCall, AnsweringPlaces
<1>6. seen[t] \subseteq seen'[t] /\ R!State(t) \in seen[t]
  <2>1. R!Watched(t) /\ R!Watched(t)'
    BY <1>2, <1>3, <1>5 DEF R!Watched
  <2> QED BY <1>3, <2>1, WhatIsSeen DEF SeenNow
<1>7. /\ xEventList[t] = "object" => xStateList[t] \in {"delayed", "overflow", "suspended"}
      /\ t \in waiting => xStateList[t] \notin {"none", "terminated"}
      /\ xEventList[t] \in {"none", "object", "pending"} /\ xStateList[t] \in StateLists
  BY <1>3 DEF ListsHold, InfoType
<1>8. AnswerHolds'
  <2>1. CASE at = "againNotified"
    BY <1>2, <1>3, <1>4, <1>5, <1>6, <2>1 DEF AnswerHolds, R!AnswerTrue, R!At,
                                              AnsweringPlaces
  <2>2. CASE at = "answer"
    <3>1. \/ st \in seen[t]
          \/ "eReady" \in seen[t]
      <4>1. CASE infoCall.at = "again" /\ xEventList[t] # "none"
        BY <1>1, <1>3, <1>4, <1>6, <1>7, <2>2, <4>1 DEF StateFacts
      <4>2. CASE infoCall.at = "againNotified" /\ t \in waiting
        BY <1>1, <1>3, <1>4, <1>6, <1>7, <2>2, <4>2 DEF StateFacts, StateLists
      <4>3. CASE infoCall.at = "againNotified" /\ t \notin waiting
        BY <1>3, <1>4, <2>2, <4>3
      <4> QED BY <1>2, <1>4, <2>2, <4>1, <4>2, <4>3
    <3> QED BY <1>2, <1>3, <1>5, <1>6, <2>2, <3>1 DEF AnswerHolds, R!AnswerTrue, R!At
  <2> QED BY <2>1, <2>2
<1>9. InfoType' /\ ListsHold'
  BY <1>2, <1>5 DEF InfoType, ListsHold, R!array, R!buffer
<1>10. ReportHolds' /\ TextHolds'
  BY <1>2, <1>5, NotReporting DEF WalkingPlaces, ListingPlaces
<1>11. SearchHolds'
  BY <1>5 DEF SearchHolds, R!HandleFound, R!At
<1> QED BY <1>1, <1>8, <1>9, <1>10, <1>11

\* The calls return, with the scheduler resumed.
LEMMA CallReturns ==
  ASSUME InfoInv, StatesNoted, R!StateReturns \/ R!HandleReturns
  PROVE  InfoInv'
<1> USE DEF InfoInv
<1>1. SeenNow'
  BY WhatIsSeen
<1>2. infoCall.at \in {"answer", "found"} /\ R!xTaskResumeAll /\ infoCall' = R!AtRest
      /\ UNCHANGED << R!array, R!buffer >>
  BY DEF R!StateReturns, R!HandleReturns, R!At
<1>3. infoCall'.at = "app" /\ infoCall' \in InfoCall /\ infoCall'.task = NoTask
  BY <1>2 DEF R!AtRest, InfoCall
<1>4. InfoType' /\ ListsHold'
  BY <1>2, <1>3, SchedulerResumed DEF InfoType, R!array, R!buffer
<1>5. ReportHolds' /\ TextHolds'
  BY <1>2, <1>3, NotReporting DEF WalkingPlaces, ListingPlaces
<1>6. AnswerHolds' /\ SearchHolds'
  BY <1>3 DEF AnswerHolds, R!AnswerTrue, AnsweringPlaces, SearchHolds, R!HandleFound, R!At
<1> QED BY <1>1, <1>4, <1>5, <1>6

\* xTaskGetHandle.
LEMMA SearchStarts ==
  ASSUME InfoInv, StatesNoted, NEW name \in {"caller", "worker"}, R!xTaskGetHandle(name)
  PROVE  InfoInv'
<1> USE DEF InfoInv
<1>1. SeenNow'
  BY WhatIsSeen
<1>2. infoCall.at = "app" /\ frozen' = TRUE
      /\ UNCHANGED << R!lists, R!array, R!buffer >> /\ infoCall.task = NoTask
      /\ infoCall' = [infoCall EXCEPT !.at = "search", !.index = 1, !.state = name]
  BY DEF R!xTaskGetHandle, R!At, R!vTaskSuspendAll, SearchHolds
<1>3. infoCall'.at = "search" /\ infoCall'.task = NoTask /\ infoCall'.index = 1
      /\ infoCall' \in InfoCall
  BY <1>2 DEF InfoType, InfoCall, SearchingPlaces
<1>4. InfoType' /\ ListsHold'
  BY <1>2, <1>3 DEF InfoType, ListsHold, R!lists, R!array, R!buffer
<1>5. ReportHolds' /\ TextHolds'
  BY <1>2, <1>3, NotReporting DEF WalkingPlaces, ListingPlaces
<1>6. AnswerHolds' /\ SearchHolds'
  BY <1>2, <1>3 DEF AnswerHolds, R!AnswerTrue, AnsweringPlaces, SearchHolds, R!HandleFound,
                    R!At
<1> QED BY <1>1, <1>4, <1>5, <1>6

\* The next list is searched.
LEMMA SearchStep ==
  ASSUME InfoInv, StatesNoted, R!prvSearchForNameWithinSingleList
  PROVE  InfoInv'
<1> USE DEF InfoInv
<1>1. SeenNow'
  BY WhatIsSeen
<1>2. PICK n \in 1..5 : n = infoCall.index
  BY DEF R!prvSearchForNameWithinSingleList, R!At, SearchHolds
<1>3. PICK name : name = infoCall.state
  OBVIOUS
<1> DEFINE found == {t \in R!Members(R!Searched[n]) : NameOf[t] = name}
<1>4. /\ infoCall.at = "search" /\ frozen /\ infoCall.task = NoTask
      /\ xStateList' = xStateList /\ xEventList' = xEventList /\ waiting' = waiting
      /\ UNCHANGED << frozen, R!array, R!buffer >>
      /\ \A i \in 1..(n - 1) : \A t \in R!Members(R!Searched[i]) : NameOf[t] # name
  BY <1>2, <1>3 DEF R!prvSearchForNameWithinSingleList, R!At, R!lists, SearchHolds
<1>5. Len(R!Searched) = 5 /\ R!Searched[5] = "terminated"
      /\ (\A i \in 1..5 : R!Searched[i] # "none")
  BY DEF R!Searched
<1>6. \/ \E t \in found : infoCall' = [infoCall EXCEPT !.at = "found", !.task = t]
      \/ found = {} /\ n = 5 /\ infoCall' = [infoCall EXCEPT !.at = "found"]
      \/ found = {} /\ n < 5 /\ infoCall' = [infoCall EXCEPT !.index = n + 1]
  <2>1. found = {t \in R!Members(R!Searched[infoCall.index]) : NameOf[t] = infoCall.state}
    BY <1>2, <1>3
  <2> HIDE DEF found
  <2>2. CASE \E t \in found : infoCall' = [infoCall EXCEPT !.at = "found", !.task = t]
    BY <2>2
  <2>3. CASE /\ found = {}
             /\ infoCall' = IF infoCall.index = 5 THEN [infoCall EXCEPT !.at = "found"]
                            ELSE [infoCall EXCEPT !.index = @ + 1]
    <3>1. CASE n = 5
      BY <1>2, <2>3, <3>1
    <3>2. CASE n < 5
      <4>1. infoCall' = [infoCall EXCEPT !.index = infoCall.index + 1]
        BY <1>2, <2>3, <3>2
      <4> QED BY <1>2, <2>3, <3>2, <4>1
    <3>3. n = 5 \/ n < 5
      BY <1>2
    <3> HIDE DEF found
    <3> QED BY <3>1, <3>2, <3>3
  <2> QED BY <1>5, <2>1, <2>2, <2>3 DEF R!prvSearchForNameWithinSingleList
<1>7. ASSUME infoCall' \in InfoCall, infoCall'.at \in SearchingPlaces
      PROVE  InfoType' /\ ListsHold' /\ ReportHolds' /\ TextHolds' /\ AnswerHolds'
  <2>1. InfoType' /\ ListsHold'
    BY <1>4, <1>7 DEF InfoType, ListsHold, R!array, R!buffer, SearchingPlaces
  <2>2. ReportHolds' /\ TextHolds'
    BY <1>4, <1>7, NotReporting DEF WalkingPlaces, ListingPlaces, SearchingPlaces
  <2>3. AnswerHolds'
    BY <1>7 DEF AnswerHolds, R!AnswerTrue, AnsweringPlaces, R!At, SearchingPlaces
  <2> QED BY <2>1, <2>2, <2>3
<1>8. \A t \in R!Task : xStateList[t] = "none" \/ (\E i \in 1..5 : xStateList[t] = R!Searched[i])
  BY AllLists DEF InfoType
<1>9. CASE \E t \in found : infoCall' = [infoCall EXCEPT !.at = "found", !.task = t]
  <2>1. PICK t \in found : infoCall' = [infoCall EXCEPT !.at = "found", !.task = t]
    BY <1>9
  <2>2. t \in R!Task /\ xStateList[t] = R!Searched[n] /\ NameOf[t] = name
        /\ xStateList[t] # "none"
    BY <1>5, <2>1 DEF R!Members
  <2>3. infoCall'.at = "found" /\ infoCall'.task = t /\ infoCall'.state = name
        /\ infoCall' \in InfoCall
    BY <1>3, <2>1, <2>2 DEF InfoType, InfoCall, SearchingPlaces
  <2>4. ASSUME xStateList[t] = "terminated", NEW u \in R!Task, NameOf[u] = name, xStateList[u] # "none"
        PROVE  xStateList[u] = "terminated"
    <3>1. n = 5
      BY <2>2, <2>4 DEF R!Searched
    <3>2. PICK i \in 1..5 : xStateList[u] = R!Searched[i]
      BY <1>8, <2>4
    <3>3. i \notin 1..4
      BY <1>4, <2>4, <3>1, <3>2 DEF R!Members
    <3> QED BY <1>5, <3>2, <3>3
  <2>5. R!HandleFound'
    <3> DEFINE alike == {u \in R!Task : NameOf[u] = name /\ xStateList[u] # "none"}
    <3>1. t \in alike
          /\ (xStateList[t] = "terminated" => alike \subseteq {u \in R!Task : xStateList[u] = "terminated"})
      BY <2>2, <2>4
    <3> QED BY <1>4, <2>3, <3>1 DEF R!HandleFound, R!Members
  <2>6. SearchHolds'
    BY <1>4, <2>3, <2>5 DEF SearchHolds
  <2> QED BY <1>1, <1>7, <2>3, <2>6 DEF SearchingPlaces
<1>10. CASE found = {} /\ n = 5 /\ infoCall' = [infoCall EXCEPT !.at = "found"]
  <2>1. infoCall'.at = "found" /\ infoCall'.task = NoTask /\ infoCall'.state = name
        /\ infoCall' \in InfoCall
    BY <1>3, <1>4, <1>10 DEF InfoType, InfoCall, SearchingPlaces
  <2>2. {u \in R!Task : NameOf[u] = name /\ xStateList[u] # "none"} = {}
    <3> SUFFICES ASSUME NEW u \in R!Task, NameOf[u] = name, xStateList[u] # "none" PROVE FALSE
      OBVIOUS
    <3>1. PICK i \in 1..5 : xStateList[u] = R!Searched[i]
      BY <1>8
    <3>2. u \in R!Members(R!Searched[i])
      BY <3>1 DEF R!Members
    <3>3. CASE i = 5
      BY <1>10, <3>2, <3>3
    <3>4. CASE i \in 1..4
      BY <1>4, <1>10, <3>2, <3>4
    <3> QED BY <3>3, <3>4
  <2>3. R!HandleFound'
    BY <1>4, <2>1, <2>2 DEF R!HandleFound
  <2>4. SearchHolds'
    BY <1>4, <2>1, <2>3 DEF SearchHolds
  <2> QED BY <1>1, <1>7, <2>1, <2>4 DEF SearchingPlaces
<1>11. CASE found = {} /\ n < 5 /\ infoCall' = [infoCall EXCEPT !.index = n + 1]
  <2>1. /\ infoCall'.at = "search" /\ infoCall'.task = NoTask /\ infoCall'.state = name
        /\ infoCall'.index = n + 1 /\ infoCall' \in InfoCall
    BY <1>3, <1>4, <1>11 DEF InfoType, InfoCall, SearchingPlaces
  <2>2. \A i \in 1..n : \A t \in {u \in R!Task : xStateList'[u] = R!Searched[i]} : NameOf[t] # name
    <3>1. \A i \in 1..n : i \in 1..(n - 1) \/ i = n
      OBVIOUS
    <3> QED BY <1>4, <1>11, <3>1 DEF R!Members
  <2>3. SearchHolds'
    <3>1. (n + 1) - 1 = n /\ n + 1 \in 1..5
      BY <1>11
    <3> QED BY <1>4, <2>1, <2>2, <3>1 DEF SearchHolds, R!HandleFound, R!At, R!Members
  <2> QED BY <1>1, <1>7, <2>1, <2>3 DEF SearchingPlaces
<1> QED BY <1>6, <1>9, <1>10, <1>11

\* The start, the other steps and what follows.
LEMMA InfoStart == ASSUME R!Init PROVE InfoInv
<1>1. "caller" \in R!Task /\ infoCall = R!AtRest
  BY DEF R!Init, R!Task
<1>2. infoCall.at = "app" /\ infoCall.task = NoTask /\ infoCall \in InfoCall
  BY <1>1 DEF R!AtRest, InfoCall
<1>3. InfoType /\ ListsHold
  BY <1>1, <1>2, ReportsAssumption DEF R!Init, InfoType, ListsHold, StateLists, R!Task
<1>4. SeenNow /\ ReportHolds /\ AnswerHolds /\ SearchHolds /\ TextHolds
  BY <1>2 DEF R!Init, SeenNow, R!Watched, ReportHolds, AnswerHolds, R!AnswerTrue,
              SearchHolds, R!HandleFound, R!At, WalkingPlaces, AnsweringPlaces,
         TextHolds, R!TextFits
<1> QED BY <1>3, <1>4 DEF InfoInv

LEMMA InfoStutters == ASSUME InfoInv, UNCHANGED R!vars PROVE InfoInv'
<1> USE DEF R!vars, R!lists, R!array, R!buffer
<1>1. InfoType' /\ ListsHold' /\ SearchHolds' /\ TextHolds'
  BY DEF InfoInv, InfoType, ListsHold, SearchHolds, R!HandleFound, R!At, R!Members,
         TextHolds, R!TextFits
<1>2. SeenNow' /\ AnswerHolds'
  BY DEF InfoInv, SeenNow, R!Watched, R!State, R!Suspended, AnswerHolds, R!AnswerTrue, R!At
<1>3. ReportHolds'
  BY DEF InfoInv, ReportHolds, R!ReportExact, InReport, PassedLists, R!State, R!Suspended,
         R!At, R!Members, R!uxCurrentNumberOfTasks
<1> QED BY <1>1, <1>2, <1>3 DEF InfoInv

LEMMA InfoSteps == ASSUME InfoInv, R!Next PROVE InfoInv'
<1>1. StatesNoted
  BY DEF R!Next, StatesNoted
<1>2. CASE R!OtherStep
  BY <1>1, <1>2, OthersKeep
<1>3. CASE (\E length \in BufferLengths : R!vTaskListTasks(length)) \/ R!AllocateArray
  BY <1>1, <1>3, ListStarts
<1>4. CASE R!uxTaskGetSystemState \/ R!prvListTasksWithinSingleList \/ R!EndOfList
  BY <1>1, <1>4, ReportStarts, WalkStep, WalkEnds
<1>5. CASE R!AsksNotification \/ R!vTaskGetInfo \/ R!Collected
  BY <1>1, <1>5, NotifiedStep, InfoStep, ReportEnds
<1>6. CASE R!WriteRow \/ R!ListReturns
  BY <1>1, <1>6, RowStep, ListEnds
<1>7. CASE \E t \in R!Task : R!eTaskGetState(t)
  BY <1>1, <1>7, StateAsked
<1>8. CASE R!AsksObject \/ R!AsksNotificationAgain
  BY <1>1, <1>8, AskedAgain
<1>9. CASE R!StateReturns \/ R!HandleReturns
  BY <1>1, <1>9, CallReturns
<1>10. CASE \E name \in {"caller", "worker"} : R!xTaskGetHandle(name)
  BY <1>1, <1>10, SearchStarts
<1>11. CASE R!prvSearchForNameWithinSingleList
  BY <1>1, <1>11, SearchStep
<1> QED BY <1>2, <1>3, <1>4, <1>5, <1>6, <1>7, <1>8, <1>9, <1>10, <1>11 DEF R!Next

LEMMA InfoSound == InfoInv => R!ReportsTrue
<1>1. ReportHolds => R!ReportExact
  BY DEF ReportHolds, R!ReportExact, R!At
<1> QED BY <1>1 DEF InfoInv, R!ReportsTrue, AnswerHolds, SearchHolds, TextHolds

\* The reports that the kernel gives of its tasks are exact and fit the buffer,
\* whatever interrupts do meanwhile.
THEOREM ReportsExact == ClockedSpec => []ReportsTrue
<1> DEFINE here == part = "TaskInfo"
           Inv == here => InfoInv
<1>1. ClockedInit => Inv
  BY InfoStart DEF ClockedInit
<1>2. ASSUME Inv, [ClockedNext]_clockedVars
      PROVE  Inv'
  <2> SUFFICES ASSUME here' PROVE InfoInv'
    OBVIOUS
  <2>1. here /\ (R!Next \/ UNCHANGED R!vars)
    <3>1. CASE ClockedNext
      BY <3>1 DEF ClockedNext
    <3>2. CASE UNCHANGED clockedVars
      BY <3>2 DEF clockedVars, ofTaskInfo, R!vars, R!lists, R!array, R!buffer
    <3> QED BY <1>2, <3>1, <3>2
  <2> QED BY <1>2, <2>1, InfoSteps, InfoStutters
<1>3. Inv => ReportsTrue
  BY InfoSound DEF ReportsTrue
<1> QED BY <1>1, <1>2, <1>3, PTL DEF ClockedSpec, clockedVars
-----------------------------------------------------------------------------
(* The software timers.                                                     *)

\* The tick count, the periods and the lag.
LEMMA TimersConstants ==
  /\ TickMod \in Nat /\ TickMod >= 3
  /\ NoTimer \notin Timer /\ Periods \subseteq Nat \ {0} /\ MaxLag \in Nat
  /\ \A p \in Periods : p + MaxLag < TickMod
BY BlockTimeAssumption, TimersAssumption DEF BlockTimeAssumption, TimersAssumption

\* The elements of a contiguous part of a sequence.
LEMMA PartOfSeq ==
  ASSUME NEW S, NEW r \in Seq(S), NEW i \in Nat, NEW j \in Nat,
         1 <= i, i <= j + 1, j <= Len(r)
  PROVE  /\ SubSeq(r, i, j) \in Seq(S)
         /\ Len(SubSeq(r, i, j)) = (j + 1) - i
         /\ \A k \in 1..((j + 1) - i) : SubSeq(r, i, j)[k] = r[(i - 1) + k]
<1>1. \A k \in i..j : r[k] \in S
  OBVIOUS
<1>2. i \in Int /\ j \in Int
  OBVIOUS
<1>3. /\ SubSeq(r, i, j) \in Seq(S)
      /\ Len(SubSeq(r, i, j)) = IF i <= j THEN j - i + 1 ELSE 0
      /\ \A k \in 1..(j - i + 1) : SubSeq(r, i, j)[k] = r[i + k - 1]
  BY <1>1, <1>2, SubSeqProperties
<1> DEFINE a == SubSeq(r, i, j)
<1> HIDE DEF a
<1>4. /\ a \in Seq(S)
      /\ Len(a) = IF i <= j THEN j - i + 1 ELSE 0
      /\ \A k \in 1..(j - i + 1) : a[k] = r[i + k - 1]
  BY <1>3 DEF a
<1>5. \A k \in 1..((j + 1) - i) : k \in 1..(j - i + 1) /\ i + k - 1 = (i - 1) + k
  OBVIOUS
<1>6. Len(a) = (j + 1) - i
  BY <1>4
<1>7. \A k \in 1..((j + 1) - i) : a[k] = r[(i - 1) + k]
  BY <1>4, <1>5
<1> QED BY <1>4, <1>6, <1>7 DEF a

\* What InsertAt puts where.
LEMMA InsertSeq ==
  ASSUME NEW S, NEW s \in Seq(S), NEW x \in S, NEW k \in Nat,
         1 <= k, k <= Len(s) + 1
  PROVE  /\ T!InsertAt(s, k, x) \in Seq(S)
         /\ Len(T!InsertAt(s, k, x)) = Len(s) + 1
         /\ \A i \in 1..(Len(s) + 1) :
              T!InsertAt(s, k, x)[i] = IF i < k THEN s[i]
                                     ELSE IF i = k THEN x ELSE s[i - 1]
<1> DEFINE n == Len(s)
           a == SubSeq(s, 1, k - 1)
           b == << x >>
           c == SubSeq(s, k, n)
<1>0. n \in Nat
  OBVIOUS
<1>1. /\ 1 \in Nat /\ k - 1 \in Nat /\ 1 <= 1 /\ 1 <= (k - 1) + 1 /\ k - 1 <= n
      /\ n \in Nat /\ k <= n + 1 /\ n <= n /\ ((k - 1) + 1) - 1 = k - 1
  BY <1>0
<1>2. /\ a \in Seq(S) /\ Len(a) = k - 1
      /\ \A i \in 1..(k - 1) : a[i] = s[i]
  <2>1. /\ a \in Seq(S) /\ Len(a) = ((k - 1) + 1) - 1
        /\ \A i \in 1..(((k - 1) + 1) - 1) : a[i] = s[(1 - 1) + i]
    BY ONLY <1>1, PartOfSeq, s \in Seq(S)
  <2> HIDE DEF a
  <2>2. \A i \in 1..(k - 1) : (1 - 1) + i = i
    OBVIOUS
  <2> QED BY ONLY <1>1, <2>1, <2>2
<1>3. /\ c \in Seq(S) /\ Len(c) = (n + 1) - k
      /\ \A i \in 1..((n + 1) - k) : c[i] = s[(k - 1) + i]
  BY ONLY <1>1, PartOfSeq, s \in Seq(S), k \in Nat, 1 <= k
<1>4. b \in Seq(S) /\ Len(b) = 1 /\ b[1] = x
  OBVIOUS
<1>5. T!InsertAt(s, k, x) = (a \o b) \o c
  BY DEF T!InsertAt
<1> HIDE DEF a, b, c, n
<1> DEFINE d == a \o b
<1>6. /\ d \in Seq(S) /\ Len(d) = k
      /\ \A i \in 1..k : d[i] = IF i < k THEN s[i] ELSE x
  <2>1. /\ d \in Seq(S) /\ Len(d) = Len(a) + Len(b)
        /\ \A i \in 1..(Len(a) + Len(b)) :
             d[i] = IF i <= Len(a) THEN a[i] ELSE b[i - Len(a)]
    BY ONLY <1>2, <1>4, ConcatProperties
  <2> HIDE DEF d
  <2>2. (k - 1) + 1 = k /\ k - (k - 1) = 1
    OBVIOUS
  <2>3. Len(d) = k
    BY <2>1, <2>2, <1>2, <1>4
  <2>4. ASSUME NEW i \in 1..k PROVE d[i] = IF i < k THEN s[i] ELSE x
    <3>1. d[i] = IF i <= k - 1 THEN a[i] ELSE b[i - (k - 1)]
      BY <2>1, <2>2, <1>2, <1>4
    <3>2. CASE i < k
      BY <3>1, <3>2, <1>2
    <3>3. CASE i = k
      BY <3>1, <3>3, <2>2, <1>4
    <3> QED BY <3>2, <3>3
  <2> QED BY <2>1, <2>3, <2>4
<1> HIDE DEF d
<1>7. /\ d \o c \in Seq(S) /\ Len(d \o c) = Len(d) + Len(c)
      /\ \A i \in 1..(Len(d) + Len(c)) :
           (d \o c)[i] = IF i <= Len(d) THEN d[i] ELSE c[i - Len(d)]
  BY ONLY <1>3, <1>6, ConcatProperties
<1> DEFINE e == d \o c
<1>8. T!InsertAt(s, k, x) = e
  BY <1>5 DEF d
<1>9. k + ((n + 1) - k) = n + 1
  BY <1>0
<1>10. /\ e \in Seq(S) /\ Len(e) = n + 1
       /\ \A i \in 1..(n + 1) : e[i] = IF i <= k THEN d[i] ELSE c[i - k]
  BY ONLY <1>3, <1>6, <1>7, <1>9
<1> HIDE DEF e
<1>11. ASSUME NEW i \in 1..(n + 1)
       PROVE  e[i] = IF i < k THEN s[i] ELSE IF i = k THEN x ELSE s[i - 1]
  <2>1. CASE i <= k
    BY <2>1, <1>0, <1>6, <1>10
  <2>2. CASE ~(i <= k)
    <3>1. /\ i - k \in 1..((n + 1) - k) /\ (k - 1) + (i - k) = i - 1
          /\ ~(i < k) /\ i # k
      BY <2>2, <1>0
    <3>2. e[i] = c[i - k]
      BY <2>2, <1>10
    <3> QED BY <3>1, <3>2, <1>3
  <2> QED BY <2>1, <2>2
<1> QED BY <1>8, <1>10, <1>11 DEF n

\* What RemoveAt leaves.
LEMMA RemoveSeq ==
  ASSUME NEW S, NEW s \in Seq(S), NEW k \in 1..Len(s)
  PROVE  /\ T!RemoveAt(s, k) \in Seq(S)
         /\ Len(T!RemoveAt(s, k)) = Len(s) - 1
         /\ \A i \in 1..(Len(s) - 1) :
              T!RemoveAt(s, k)[i] = IF i < k THEN s[i] ELSE s[i + 1]
<1> DEFINE n == Len(s)
           a == SubSeq(s, 1, k - 1)
           b == SubSeq(s, k + 1, n)
           e == a \o b
<1>1. n \in Nat /\ n <= Len(s)
  OBVIOUS
<1>2. T!RemoveAt(s, k) = e
  BY DEF T!RemoveAt
<1> HIDE DEF e, n
<1>3. /\ 1 \in Nat /\ k - 1 \in Nat /\ k + 1 \in Nat /\ 1 <= k + 1
      /\ 1 <= 1 /\ 1 <= (k - 1) + 1 /\ k - 1 <= n /\ k - 1 <= Len(s) /\ k + 1 <= n + 1
      /\ ((k - 1) + 1) - 1 = k - 1 /\ (k + 1) - 1 = k
      /\ (n + 1) - (k + 1) = n - k /\ (k - 1) + (n - k) = n - 1
  BY <1>1 DEF n
<1>4. /\ a \in Seq(S) /\ Len(a) = k - 1
      /\ \A i \in 1..(k - 1) : a[i] = s[i]
  <2>1. /\ a \in Seq(S) /\ Len(a) = ((k - 1) + 1) - 1
        /\ \A i \in 1..(((k - 1) + 1) - 1) : a[i] = s[(1 - 1) + i]
    BY ONLY <1>1, <1>3, PartOfSeq, SMTT(30), s \in Seq(S)
  <2> HIDE DEF a
  <2>2. \A i \in 1..(k - 1) : (1 - 1) + i = i
    BY <1>3
  <2> QED BY ONLY <1>3, <2>1, <2>2
<1>5. /\ b \in Seq(S) /\ Len(b) = n - k
      /\ \A i \in 1..(n - k) : b[i] = s[k + i]
  <2> DEFINE m == k + 1
  <2>1. /\ m \in Nat /\ 1 <= m /\ m <= n + 1
        /\ (n + 1) - m = n - k /\ m - 1 = k
    BY <1>3
  <2>2. b = SubSeq(s, m, n)
    OBVIOUS
  <2> HIDE DEF b, m
  <2>3. /\ SubSeq(s, m, n) \in Seq(S) /\ Len(SubSeq(s, m, n)) = (n + 1) - m
        /\ \A i \in 1..((n + 1) - m) : SubSeq(s, m, n)[i] = s[(m - 1) + i]
    BY ONLY <1>1, <2>1, PartOfSeq, s \in Seq(S)
  <2> QED BY ONLY <2>1, <2>2, <2>3
<1>6. /\ e \in Seq(S) /\ Len(e) = Len(a) + Len(b)
      /\ \A i \in 1..(Len(a) + Len(b)) :
           e[i] = IF i <= Len(a) THEN a[i] ELSE b[i - Len(a)]
  BY ONLY <1>4, <1>5, ConcatProperties DEF e
<1>7. Len(a) + Len(b) = n - 1
  BY ONLY <1>3, <1>4, <1>5
<1>8. \A i \in 1..(n - 1) : e[i] = IF i <= k - 1 THEN a[i] ELSE b[i - (k - 1)]
  BY ONLY <1>4, <1>6, <1>7
<1>9. ASSUME NEW i \in 1..(n - 1)
      PROVE  e[i] = IF i < k THEN s[i] ELSE s[i + 1]
  <2>1. CASE i < k
    <3>1. i <= k - 1 /\ i \in 1..(k - 1)
      BY <2>1, <1>1
    <3> QED BY <2>1, <3>1, <1>4, <1>8
  <2>2. CASE ~(i < k)
    <3>1. ~(i <= k - 1) /\ i - (k - 1) \in 1..(n - k) /\ k + (i - (k - 1)) = i + 1
      BY <2>2, <1>1
    <3> QED BY <2>2, <3>1, <1>5, <1>8
  <2> QED BY <2>1, <2>2
<1> QED BY <1>2, <1>6, <1>7, <1>9 DEF n

\* The least of a set of numbers.
LEMMA LeastOf ==
  ASSUME NEW S, S \subseteq Nat, S # {}
  PROVE  T!Min(S) \in S /\ \A x \in S : T!Min(S) <= x
<1>1. \E x \in S : \A y \in S : x <= y
  BY Smallest
<1> QED BY <1>1 DEF T!Min

TimerItem == [timer : Timer, xItemValue : T!Tick]

\* A list in order, for what is at its places.
LEMMA InList ==
  ASSUME NEW S, NEW list \in Seq(S)
  PROVE  /\ Len(list) \in Nat /\ DOMAIN list = 1..Len(list)
         /\ \A i \in 1..Len(list) : list[i] \in S /\ list[i] \in T!ToSet(list)
         /\ \A x \in T!ToSet(list) : x \in S /\ \E i \in 1..Len(list) : x = list[i]
BY DEF T!ToSet

\* The types of an item of a timer list.
LEMMA TimerItemTypes ==
  ASSUME TickMod \in Nat
  PROVE  \A i \in TimerItem : i.timer \in Timer /\ i.xItemValue \in T!Tick
         /\ i.xItemValue \in Int
BY DEF TimerItem, T!Tick

\* An item is put behind those that expire no later.
LEMMA InsertedInOrder ==
  ASSUME TickMod \in Nat,
         NEW list \in Seq(TimerItem), T!Sorted(list), NEW item \in TimerItem,
         \A i \in T!ToSet(list) : i.timer # item.timer
  PROVE  /\ T!vListInsert(list, item) \in Seq(TimerItem)
         /\ T!Sorted(T!vListInsert(list, item))
         /\ T!ToSet(T!vListInsert(list, item)) = T!ToSet(list) \cup {item}
<1> DEFINE n == Len(list)
           later == {i \in 1..Len(list) : list[i].xItemValue > item.xItemValue}
           k == IF later = {} THEN n + 1 ELSE T!Min(later)
           e == T!InsertAt(list, k, item)
<1>1. /\ n \in Nat /\ item.xItemValue \in Int
      /\ \A i \in 1..n : /\ list[i] \in TimerItem /\ list[i] \in T!ToSet(list)
                         /\ list[i].xItemValue \in Int
      /\ \A x \in T!ToSet(list) : \E i \in 1..n : x = list[i]
      /\ T!vListInsert(list, item) = e
  <2>1. /\ n \in Nat /\ \A i \in 1..n : list[i] \in TimerItem /\ list[i] \in T!ToSet(list)
        /\ \A x \in T!ToSet(list) : \E i \in 1..n : x = list[i]
    BY InList
  <2>2. T!vListInsert(list, item) = e
    BY DEF T!vListInsert
  <2> HIDE DEF n, e
  <2> QED BY <2>1, <2>2, TimerItemTypes
<1>2. /\ k \in Nat /\ 1 <= k /\ k <= n + 1
      /\ \A i \in 1..n : i < k => list[i].xItemValue <= item.xItemValue
      /\ k \in 1..n => list[k].xItemValue > item.xItemValue
  <2>1. CASE later = {}
    BY <1>1, <2>1
  <2>2. CASE later # {}
    <3>1. later \subseteq Nat /\ later \subseteq 1..n
      OBVIOUS
    <3>2. T!Min(later) \in later /\ \A i \in later : T!Min(later) <= i
      <4> HIDE DEF later
      <4> QED BY <2>2, <3>1, LeastOf
    <3>3. k = T!Min(later)
      BY <2>2
    <3>4. k \in 1..n /\ list[k].xItemValue > item.xItemValue
      BY <3>2, <3>3
    <3>5. ASSUME NEW i \in 1..n, i < k PROVE list[i].xItemValue <= item.xItemValue
      <4>1. i \notin later
        <5>1. \A x \in later : k <= x
          BY <3>2, <3>3
        <5> HIDE DEF k, later
        <5> QED BY <1>1, <3>4, <3>5, <5>1
      <4>2. list[i].xItemValue \in Int
        BY <1>1
      <4>3. ~(list[i].xItemValue > item.xItemValue)
        BY <4>1
      <4> QED BY <1>1, <4>2, <4>3
    <3> HIDE DEF later, k
    <3> QED BY <1>1, <3>4, <3>5
  <2> QED BY <2>1, <2>2
<1> HIDE DEF k
<1>3. /\ e \in Seq(TimerItem) /\ Len(e) = n + 1
      /\ \A i \in 1..(n + 1) : e[i] = IF i < k THEN list[i]
                                     ELSE IF i = k THEN item ELSE list[i - 1]
  BY ONLY <1>2, InsertSeq, list \in Seq(TimerItem), item \in TimerItem DEF n
<1> HIDE DEF e, n
<1>4. \A i, j \in 1..n : i < j => /\ list[i].timer # list[j].timer
                                 /\ list[i].xItemValue <= list[j].xItemValue
  BY DEF T!Sorted, n
<1>5. \A i \in 1..n : list[i].timer # item.timer
  BY <1>1
<1>6. ASSUME NEW i \in 1..(n + 1), NEW j \in 1..(n + 1), i < j
      PROVE  e[i].timer # e[j].timer /\ e[i].xItemValue <= e[j].xItemValue
  <2>1. CASE j < k
    <3>1. i \in 1..n /\ j \in 1..n /\ e[i] = list[i] /\ e[j] = list[j]
      BY <1>1, <1>2, <1>3, <1>6, <2>1
    <3> QED BY <1>4, <1>6, <3>1
  <2>2. CASE j = k
    <3>1. i \in 1..n /\ i < k /\ e[i] = list[i] /\ e[j] = item
      BY <1>1, <1>2, <1>3, <1>6, <2>2
    <3> QED BY <1>2, <1>5, <3>1
  <2>3. CASE j > k
    <3>1. j - 1 \in 1..n /\ e[j] = list[j - 1] /\ k \in 1..n /\ k <= j - 1
      BY <1>1, <1>2, <1>3, <1>6, <2>3
    <3>2. list[k].xItemValue <= list[j - 1].xItemValue
      BY <1>1, <1>4, <3>1
    <3>3. CASE i < k
      <4>1. i \in 1..n /\ i < j - 1 /\ e[i] = list[i]
        BY <1>1, <1>2, <1>3, <1>6, <2>3, <3>3
      <4> QED BY <1>4, <3>1, <4>1
    <3>4. CASE i = k
      <4>1. e[i] = item
        BY <1>3, <3>4
      <4> QED BY <1>1, <1>2, <1>5, <3>1, <3>2, <4>1
    <3>5. CASE i > k
      <4>1. i - 1 \in 1..n /\ i - 1 < j - 1 /\ ~(i < k) /\ i # k
        BY <1>1, <1>2, <1>6, <3>5
      <4>2. e[i] = list[i - 1]
        BY <1>3, <4>1
      <4> QED BY <1>4, <3>1, <4>1, <4>2
    <3> QED BY <1>2, <3>3, <3>4, <3>5
  <2> QED BY <1>2, <2>1, <2>2, <2>3
<1>7. T!Sorted(e)
  BY <1>3, <1>6 DEF T!Sorted
<1>8. /\ DOMAIN e = 1..(n + 1) /\ k \in 1..(n + 1) /\ e[k] = item
      /\ \A i \in 1..n : i < k => e[i] = list[i] /\ i \in 1..(n + 1)
      /\ \A i \in 1..n : ~(i < k) => e[i + 1] = list[i] /\ i + 1 \in 1..(n + 1)
      /\ \A i \in 1..(n + 1) : i > k => i - 1 \in 1..n
      /\ \A i \in 1..(n + 1) : i < k => i \in 1..n
  BY <1>1, <1>2, <1>3
<1>9. T!ToSet(e) \subseteq T!ToSet(list) \cup {item}
  <2>1. ASSUME NEW i \in 1..(n + 1) PROVE e[i] \in T!ToSet(list) \cup {item}
    <3>1. CASE i < k
      <4>1. e[i] = list[i] /\ i \in 1..n
        BY <1>3, <1>8, <3>1
      <4> QED BY <1>1, <4>1
    <3>2. CASE i = k
      BY <1>8, <3>2
    <3>3. CASE i > k
      <4>1. ~(i < k) /\ i # k
        BY <1>2, <3>3
      <4>2. e[i] = list[i - 1] /\ i - 1 \in 1..n
        BY <1>3, <1>8, <3>3, <4>1
      <4> QED BY <1>1, <4>2
    <3> QED BY <1>2, <3>1, <3>2, <3>3
  <2> QED BY <1>8, <2>1 DEF T!ToSet
<1>10. T!ToSet(list) \cup {item} \subseteq T!ToSet(e)
  <2>1. ASSUME NEW i \in 1..n PROVE list[i] \in T!ToSet(e)
    BY <1>8 DEF T!ToSet
  <2>2. item \in T!ToSet(e)
    BY <1>8 DEF T!ToSet
  <2> QED BY <1>1, <2>1, <2>2
<1> QED BY <1>1, <1>3, <1>7, <1>9, <1>10

\* What leaves a list leaves the others in order.
LEMMA LeftInOrder ==
  ASSUME TickMod \in Nat, NEW list \in Seq(TimerItem), T!Sorted(list), NEW t
  PROVE  /\ T!Without(list, t) \in Seq(TimerItem) /\ T!Sorted(T!Without(list, t))
         /\ T!ToSet(T!Without(list, t)) = {i \in T!ToSet(list) : i.timer # t}
<1> DEFINE n == Len(list)
           places == {i \in 1..Len(list) : list[i].timer = t}
           k == T!Min(places)
           e == T!RemoveAt(list, k)
<1>1. /\ n \in Nat
      /\ \A i \in 1..n : list[i] \in TimerItem /\ list[i] \in T!ToSet(list)
      /\ \A x \in T!ToSet(list) : \E i \in 1..n : x = list[i]
      /\ T!Without(list, t) = IF places = {} THEN list ELSE e
  BY InList DEF T!Without
<1>2. CASE places = {}
  <2>1. \A i \in 1..n : list[i].timer # t
    BY <1>2
  <2>2. T!ToSet(list) = {i \in T!ToSet(list) : i.timer # t}
    BY <1>1, <2>1
  <2> QED BY <1>1, <1>2, <2>2
<1>3. CASE places # {}
  <2>1. k \in 1..n /\ list[k].timer = t
    <3>1. places \subseteq Nat
      OBVIOUS
    <3>2. T!Min(places) \in places
      <4> HIDE DEF places
      <4> QED BY <1>3, <3>1, LeastOf
    <3> QED BY <3>2
  <2> HIDE DEF k
  <2>2. /\ e \in Seq(TimerItem) /\ Len(e) = n - 1
        /\ \A i \in 1..(n - 1) : e[i] = IF i < k THEN list[i] ELSE list[i + 1]
    BY ONLY <2>1, RemoveSeq, list \in Seq(TimerItem) DEF n
  <2> HIDE DEF e, n
  <2>3. \A i, j \in 1..n : i < j => /\ list[i].timer # list[j].timer
                                   /\ list[i].xItemValue <= list[j].xItemValue
    BY DEF T!Sorted, n
  <2>4. T!Sorted(e)
    <3>1. ASSUME NEW i \in 1..(n - 1), NEW j \in 1..(n - 1), i < j
          PROVE  e[i].timer # e[j].timer /\ e[i].xItemValue <= e[j].xItemValue
      <4> DEFINE a == IF i < k THEN i ELSE i + 1
                 b == IF j < k THEN j ELSE j + 1
      <4>1. a \in 1..n /\ b \in 1..n /\ a < b
        BY <1>1, <2>1, <3>1
      <4>2. e[i] = list[a] /\ e[j] = list[b]
        BY <2>2
      <4> HIDE DEF a, b
      <4> QED BY <2>3, <4>1, <4>2
    <3> QED BY <2>2, <3>1 DEF T!Sorted
  <2>5. \A i \in 1..n : i # k => list[i].timer # t
    <3>1. \A i \in 1..n : i # k => i < k \/ k < i
      BY <1>1, <2>1
    <3> QED BY <2>1, <2>3, <3>1
  <2>6. /\ DOMAIN e = 1..(n - 1)
        /\ \A i \in 1..n : i < k => i \in 1..(n - 1) /\ e[i] = list[i]
        /\ \A i \in 1..n : i > k => i - 1 \in 1..(n - 1) /\ e[i - 1] = list[i]
        /\ \A i \in 1..(n - 1) : i < k => i \in 1..n /\ i # k
        /\ \A i \in 1..(n - 1) : ~(i < k) => i + 1 \in 1..n /\ i + 1 # k
    BY <1>1, <2>1, <2>2
  <2>7. ASSUME NEW i \in 1..(n - 1)
        PROVE  e[i] \in T!ToSet(list) /\ e[i].timer # t
    <3>1. CASE i < k
      <4>1. e[i] = list[i] /\ i \in 1..n /\ i # k
        BY <2>2, <2>6, <3>1
      <4> QED BY <1>1, <2>5, <4>1
    <3>2. CASE ~(i < k)
      <4>1. e[i] = list[i + 1] /\ i + 1 \in 1..n /\ i + 1 # k
        BY <2>2, <2>6, <3>2
      <4> QED BY <1>1, <2>5, <4>1
    <3> QED BY <3>1, <3>2
  <2>8. ASSUME NEW i \in 1..n, i # k PROVE list[i] \in T!ToSet(e)
    <3>1. i < k \/ i > k
      BY <1>1, <2>1, <2>8
    <3> QED BY <2>6, <3>1 DEF T!ToSet
  <2>9. \A x \in T!ToSet(list) : x.timer # t => x \in T!ToSet(e)
    BY <1>1, <2>1, <2>8
  <2>10. \A x \in T!ToSet(e) : x \in T!ToSet(list) /\ x.timer # t
    BY <2>6, <2>7 DEF T!ToSet
  <2> QED BY <1>1, <1>3, <2>2, <2>4, <2>9, <2>10
<1> QED BY <1>2, <1>3

\* The first item expires first, and leaves the others in order.
LEMMA FirstOfList ==
  ASSUME TickMod \in Nat, NEW list \in Seq(TimerItem), T!Sorted(list), list # << >>
  PROVE  /\ Head(list) \in TimerItem /\ Head(list) \in T!ToSet(list)
         /\ \A i \in T!ToSet(list) : Head(list).xItemValue <= i.xItemValue
         /\ Tail(list) \in Seq(TimerItem) /\ T!Sorted(Tail(list))
         /\ Len(Tail(list)) = Len(list) - 1
         /\ T!ToSet(Tail(list)) = {i \in T!ToSet(list) : i.timer # Head(list).timer}
<1> DEFINE n == Len(list)
           e == Tail(list)
<1>1. /\ n \in Nat /\ n # 0 /\ 1 \in 1..n
      /\ \A i \in 1..n : /\ list[i] \in TimerItem /\ list[i] \in T!ToSet(list)
                         /\ list[i].xItemValue \in Int
      /\ \A x \in T!ToSet(list) : \E i \in 1..n : x = list[i]
      /\ Head(list) = list[1]
  <2>1. /\ n \in Nat /\ \A i \in 1..n : list[i] \in TimerItem /\ list[i] \in T!ToSet(list)
        /\ \A x \in T!ToSet(list) : \E i \in 1..n : x = list[i]
    BY InList
  <2>2. n # 0 /\ Head(list) = list[1]
    OBVIOUS
  <2> HIDE DEF n
  <2> QED BY <2>1, <2>2, TimerItemTypes
<1>2. /\ e \in Seq(TimerItem) /\ Len(e) = n - 1 /\ DOMAIN e = 1..(n - 1)
      /\ \A i \in 1..(n - 1) : e[i] = list[i + 1]
  OBVIOUS
<1>3. \A i, j \in 1..n : i < j => /\ list[i].timer # list[j].timer
                                 /\ list[i].xItemValue <= list[j].xItemValue
  BY DEF T!Sorted
<1> HIDE DEF e, n
<1>4. \A i \in 1..(n - 1) : i + 1 \in 1..n
  BY <1>1
<1>5. \A i \in 1..n : /\ i = 1 \/ (1 < i /\ i - 1 \in 1..(n - 1) /\ (i - 1) + 1 = i)
  BY <1>1
<1>6. T!Sorted(e)
  <2>1. ASSUME NEW i \in 1..(n - 1), NEW j \in 1..(n - 1), i < j
        PROVE  e[i].timer # e[j].timer /\ e[i].xItemValue <= e[j].xItemValue
    <3>1. i + 1 < j + 1
      BY <2>1
    <3> QED BY <1>2, <1>3, <1>4, <3>1
  <2> QED BY <1>2, <2>1 DEF T!Sorted
<1>7. \A i \in 1..n : list[1].xItemValue <= list[i].xItemValue
  BY <1>1, <1>3, <1>5
<1>8. \A x \in T!ToSet(e) : x \in T!ToSet(list) /\ x.timer # list[1].timer
  <2>1. ASSUME NEW i \in 1..(n - 1)
        PROVE  e[i] \in T!ToSet(list) /\ e[i].timer # list[1].timer
    <3>1. i + 1 \in 1..n /\ 1 < i + 1 /\ e[i] = list[i + 1]
      BY <1>2, <1>4
    <3> QED BY <1>1, <1>3, <3>1
  <2> QED BY <1>2, <2>1 DEF T!ToSet
<1>9. \A x \in T!ToSet(list) : x.timer # list[1].timer => x \in T!ToSet(e)
  <2>1. ASSUME NEW i \in 1..n, i # 1 PROVE list[i] \in T!ToSet(e)
    <3>1. i - 1 \in 1..(n - 1) /\ e[i - 1] = list[i]
      BY <1>2, <1>5, <2>1
    <3> QED BY <1>2, <3>1 DEF T!ToSet
  <2> QED BY <1>1, <2>1
<1> QED BY <1>1, <1>2, <1>6, <1>7, <1>8, <1>9 DEF e, n

\* A number is taken modulo the width of the tick count.
LEMMA TicksOf ==
  ASSUME NEW n \in Int, -TickMod <= n, n < 3 * TickMod
  PROVE  /\ n < 0 => T!Mod(n) = n + TickMod
         /\ 0 <= n /\ n < TickMod => T!Mod(n) = n
         /\ TickMod <= n /\ n < 2 * TickMod => T!Mod(n) = n - TickMod
         /\ 2 * TickMod <= n => T!Mod(n) = n - 2 * TickMod
         /\ T!Mod(n) \in T!Tick
BY TimersConstants DEF T!Mod, T!Tick

\* The tick next stands for the time x, seen from the tick now.
StandsFor(next, x, now) ==
  /\ next \in T!Tick
  /\ IF next <= now THEN x = next + TickMod ELSE x = next

\* Of a command at the time x the expiry time has passed exactly if it is not
\* after now; otherwise its tick says when it is.
LEMMA PassedOrNot ==
  ASSUME NEW s, NEW t, NEW p \in 1..(TickMod - 1), s.period[t] = p,
         NEW now \in T!Tick, NEW x \in Int, now - TickMod < x, x <= now
  PROVE  /\ T!AlreadyPassed(t, s, T!Mod(x + p), now, T!Mod(x)) <=> x + p <= now
         /\ x + p > now => StandsFor(T!Mod(x + p), x + p, now)
<1>1. /\ TickMod \in Nat /\ TickMod >= 3 /\ now \in Int /\ 0 <= now /\ now < TickMod
      /\ p \in Int /\ 1 <= p /\ p < TickMod
  BY TimersConstants DEF T!Tick
<1> DEFINE c == T!Mod(x)
           next == T!Mod(x + p)
<1>2. /\ x < 0 => c = x + TickMod
      /\ 0 <= x => c = x
      /\ c \in T!Tick
  BY <1>1, TicksOf
<1>3. /\ x + p < 0 => next = x + p + TickMod
      /\ 0 <= x + p /\ x + p < TickMod => next = x + p
      /\ TickMod <= x + p => next = x + p - TickMod
      /\ next \in T!Tick
  BY <1>1, TicksOf
<1>4. now - x >= 0 /\ now - x < TickMod
  BY <1>1
<1>5. T!Mod(now - c) = now - x
  <2>1. CASE x < 0
    <3>1. now - c = now - x - TickMod /\ -TickMod <= now - c /\ now - c < 0
      BY <1>1, <1>2, <1>4, <2>1
    <3>2. T!Mod(now - c) = (now - c) + TickMod
      BY <1>1, <3>1, TicksOf
    <3> QED BY <1>1, <1>2, <2>1, <3>2
  <2>2. CASE 0 <= x
    <3>1. now - c = now - x
      BY <1>2, <2>2
    <3>2. T!Mod(now - x) = now - x
      BY <1>1, <1>4, TicksOf
    <3> QED BY <3>1, <3>2
  <2> QED BY <2>1, <2>2
<1>6. T!AlreadyPassed(t, s, next, now, c) <=> IF next <= now THEN now - x >= p
                                            ELSE now < c /\ next >= c
  BY <1>5 DEF T!AlreadyPassed
<1>7. /\ c \in Int /\ 0 <= c /\ c < TickMod /\ next \in Int /\ 0 <= next /\ next < TickMod
  BY <1>1, <1>2, <1>3 DEF T!Tick
<1> HIDE DEF c, next
<1>8. (IF next <= now THEN now - x >= p ELSE now < c /\ next >= c) <=> x + p <= now
  BY <1>1, <1>2, <1>3, <1>7
<1>9. x + p > now => IF next <= now THEN x + p = next + TickMod ELSE x + p = next
  BY <1>1, <1>2, <1>3, <1>7
<1> QED BY <1>3, <1>6, <1>8, <1>9 DEF c, next, StandsFor

\* Multiples of a period.
LEMMA Multiples ==
  ASSUME NEW p \in Nat, p >= 1, NEW n \in Nat
  PROVE  n * p \in Nat /\ n * p >= n /\ (n + 1) * p = n * p + p
OBVIOUS

\* A timer that expired at the time x is loaded again: n further expiries are until now.
LoadedAgain(t, s, p, now, x) ==
  \E n \in Nat :
    /\ n * p \in Nat /\ x + n * p <= now /\ x + n * p + p > now
    /\ StandsFor(T!Mod(x + n * p + p), x + n * p + p, now)
    /\ T!prvReloadTimer(t, s, T!Mod(x), now) =
         T!Inserted(t, [s EXCEPT !.due[t] = @ + n * p], T!Mod(x + n * p + p), now)

\* The further expiries of a timer until now, and the one to come.
LEMMA Reloaded ==
  ASSUME NEW s, NEW t, NEW p \in 1..(TickMod - 1), s.period[t] = p,
         NEW now \in T!Tick, NEW x \in Int, now - TickMod < x, x <= now
  PROVE  LoadedAgain(t, s, p, now, x)
<1>1. /\ TickMod \in Nat /\ TickMod >= 3 /\ now \in Int /\ 0 <= now /\ now < TickMod
      /\ p \in Int /\ 1 <= p /\ p < TickMod /\ p \in Nat
  BY TimersConstants DEF T!Tick
<1> DEFINE Later == {k \in Nat : x + (k + 1) * p > now}
           At(k) == T!Mod(T!Mod(x) + k * p)
           Passes(k) == T!AlreadyPassed(t, s, At(k + 1), now, At(k))
<1>2. PICK n \in Later : \A k \in Later : n <= k
  <2>1. TickMod \in Later
    <3>1. (TickMod + 1) * p = TickMod * p + p /\ TickMod * p >= TickMod
          /\ TickMod * p \in Nat
      BY <1>1, Multiples
    <3>2. x + (TickMod + 1) * p > now
      BY <1>1, <3>1
    <3> QED BY <1>1, <3>2
  <2>2. Later \subseteq Nat
    OBVIOUS
  <2> HIDE DEF Later
  <2> QED BY <2>1, <2>2, Smallest
<1>3. n \in Nat /\ \A k \in Nat : k < n => ~(x + (k + 1) * p > now)
  <2>1. \A k \in Nat : k < n => k \notin Later
    BY <1>2
  <2> QED BY <1>2, <2>1
<1>4. ASSUME NEW k \in 0..n
      PROVE  k * p \in Nat /\ k * p >= k /\ (k + 1) * p = k * p + p /\ x + k * p <= now
  <2>1. k \in Nat
    BY <1>3
  <2>2. k * p \in Nat /\ k * p >= k /\ (k + 1) * p = k * p + p
    BY <1>1, <2>1, Multiples
  <2>3. CASE k = 0
    <3>1. k * p = 0
      BY <1>1, <2>3
    <3> QED BY <2>2, <3>1
  <2>4. CASE k # 0
    <3>1. k - 1 \in Nat /\ k - 1 < n /\ (k - 1) + 1 = k
      BY <1>3, <2>1, <2>4
    <3>2. ~(x + k * p > now)
      BY <1>3, <3>1
    <3> QED BY <1>1, <2>2, <3>2
  <2> QED BY <2>3, <2>4
<1>5. ASSUME NEW k \in 0..n
      PROVE  At(k) = T!Mod(x + k * p) /\ At(k + 1) = T!Mod(x + k * p + p)
  <2> DEFINE q == k * p
  <2>1. q \in Int /\ 0 <= q /\ x + q <= now /\ (k + 1) * p = q + p
    <3>1. q \in Nat /\ x + q <= now /\ (k + 1) * p = q + p
      BY <1>4
    <3> HIDE DEF q
    <3> QED BY <3>1
  <2> HIDE DEF q
  <2>2. CASE x < 0
    <3>1. T!Mod(x) = x + TickMod
      BY <1>1, <2>2, TicksOf
    <3>2. ASSUME NEW y \in Int, -TickMod <= y, y < 2 * TickMod
          PROVE  T!Mod(y + TickMod) = T!Mod(y)
      BY <1>1, <3>2, TicksOf
    <3>3. /\ x + q \in Int /\ -TickMod <= x + q /\ x + q < 2 * TickMod
          /\ x + q + p \in Int /\ -TickMod <= x + q + p /\ x + q + p < 2 * TickMod
          /\ T!Mod(x) + q = (x + q) + TickMod /\ T!Mod(x) + (q + p) = (x + q + p) + TickMod
      BY <1>1, <2>1, <3>1
    <3> QED BY <2>1, <3>2, <3>3 DEF q
  <2>3. CASE 0 <= x
    <3>1. T!Mod(x) = x
      BY <1>1, <2>3, TicksOf
    <3>2. T!Mod(x) + (q + p) = x + q + p
      BY <1>1, <2>1, <3>1
    <3> QED BY <2>1, <3>1, <3>2 DEF q
  <2> QED BY <2>2, <2>3
<1>6. ASSUME NEW k \in 0..n
      PROVE  /\ Passes(k) <=> x + k * p + p <= now
             /\ x + k * p + p > now => StandsFor(At(k + 1), x + k * p + p, now)
  <2> DEFINE y == x + k * p
  <2>1. y \in Int /\ now - TickMod < y /\ y <= now
    BY <1>1, <1>4
  <2>2. At(k) = T!Mod(y) /\ At(k + 1) = T!Mod(y + p)
    BY <1>5
  <2> HIDE DEF y
  <2>3. /\ T!AlreadyPassed(t, s, T!Mod(y + p), now, T!Mod(y)) <=> y + p <= now
        /\ y + p > now => StandsFor(T!Mod(y + p), y + p, now)
    BY <2>1, PassedOrNot
  <2> HIDE DEF At
  <2> QED BY <2>2, <2>3 DEF y
<1>7. /\ ~Passes(n) /\ \A k \in 0..(n - 1) : Passes(k)
      /\ n \in 0..TickMod /\ n * p \in Nat /\ x + n * p <= now /\ x + n * p + p > now
      /\ StandsFor(At(n + 1), x + n * p + p, now) /\ At(n + 1) = T!Mod(x + n * p + p)
  <2>1. n \in 0..n /\ \A k \in 0..(n - 1) : k \in 0..n /\ k \in Nat /\ k < n
    BY <1>3
  <2>2. /\ n * p \in Nat /\ n * p >= n /\ (n + 1) * p = n * p + p /\ x + n * p <= now
        /\ At(n + 1) = T!Mod(x + n * p + p)
    BY <1>4, <1>5, <2>1
  <2>3. x + (n + 1) * p > now
    BY <1>2
  <2>4. x + n * p + p > now
    <3> DEFINE q == n * p
    <3>1. x + (q + p) > now /\ q \in Int
      BY <2>2, <2>3
    <3> HIDE DEF q
    <3>2. x + q + p > now
      BY <1>1, <3>1
    <3> QED BY <3>2 DEF q
  <2>5. n \in 0..TickMod
    BY <1>1, <1>3, <2>2
  <2>6. ASSUME NEW k \in 0..(n - 1) PROVE Passes(k)
    <3> DEFINE q == k * p
    <3>1. q \in Int /\ (k + 1) * p = q + p /\ ~(x + (k + 1) * p > now)
      BY <1>3, <1>4, <2>1
    <3> HIDE DEF q
    <3>2. x + q + p <= now
      BY <1>1, <3>1
    <3> HIDE DEF Passes
    <3> QED BY <1>6, <2>1, <3>2 DEF q
  <2>7. ~Passes(n) /\ StandsFor(At(n + 1), x + n * p + p, now)
    <3>1. ~(x + n * p + p <= now)
      <4> DEFINE q == x + n * p + p
      <4>1. q \in Int /\ q > now
        BY <1>1, <2>2, <2>4
      <4> HIDE DEF q
      <4>2. ~(q <= now)
        BY <1>1, <4>1
      <4> QED BY <4>2 DEF q
    <3> HIDE DEF Passes, At
    <3> QED BY <1>6, <2>1, <2>4, <3>1
  <2> HIDE DEF Passes, At
  <2> QED BY <2>2, <2>4, <2>5, <2>6, <2>7
<1> DEFINE m == CHOOSE m \in 0..TickMod : ~Passes(m) /\ \A k \in 0..(m - 1) : Passes(k)
<1>8. T!prvReloadTimer(t, s, T!Mod(x), now) =
        T!Inserted(t, [s EXCEPT !.due[t] = @ + m * p], At(m + 1), now)
  BY DEF T!prvReloadTimer
<1> HIDE DEF Passes, At
<1>9. m \in 0..TickMod /\ ~Passes(m) /\ \A k \in 0..(m - 1) : Passes(k)
  <2>1. \E i \in 0..TickMod : ~Passes(i) /\ \A k \in 0..(i - 1) : Passes(k)
    BY <1>7
  <2> QED BY <2>1
<1>10. m = n
  <2> HIDE DEF m
  <2>1. m < n => m \in 0..(n - 1)
    BY <1>3, <1>9
  <2>2. n < m => n \in 0..(m - 1)
    BY <1>3, <1>9
  <2>3. ~(m < n) /\ ~(n < m)
    BY <1>7, <1>9, <2>1, <2>2
  <2> QED BY <1>3, <1>9, <2>3
<1> HIDE DEF m
<1> QED BY <1>3, <1>7, <1>8, <1>10 DEF LoadedAgain
-----------------------------------------------------------------------------
(* The lists and the timers in them.                                        *)

TimerSheet ==
  [current : Seq(TimerItem), overflow : Seq(TimerItem), active : [Timer -> BOOLEAN],
   due : [Timer -> Int], period : [Timer -> Periods]]

\* The lists of s at the time at, where times count from the last wrap that the
\* service task knows of.  Nothing expires later than a period after from.
ListsKept(s, at, from, out) ==
  /\ T!Sorted(s.current) /\ T!Sorted(s.overflow)
  /\ \A i \in T!ToSet(s.current), j \in T!ToSet(s.overflow) : i.timer # j.timer
  /\ \A i \in T!ToSet(s.current) :
       /\ s.due[i.timer] = i.xItemValue - at
       /\ i.xItemValue <= from + s.period[i.timer]
  /\ \A i \in T!ToSet(s.overflow) :
       /\ s.due[i.timer] = i.xItemValue + TickMod - at
       /\ i.xItemValue + TickMod <= from + s.period[i.timer]
  /\ \A t \in Timer :
       (\E i \in T!ToSet(s.current) \cup T!ToSet(s.overflow) : i.timer = t)
         <=> s.active[t] /\ t \notin out
  /\ \A t \in Timer : s.due[t] <= s.period[t]

\* A period is less than a turn of the tick count.
LEMMA PeriodTypes ==
  \A p \in Periods : p \in 1..(TickMod - 1) /\ p \in Int /\ 1 <= p /\ p < TickMod
BY TimersConstants

\* The types of the timers and of the items of their lists.
LEMMA SheetTypes ==
  ASSUME NEW s \in TimerSheet
  PROVE  /\ s.current \in Seq(TimerItem) /\ s.overflow \in Seq(TimerItem)
         /\ \A i \in T!ToSet(s.current) \cup T!ToSet(s.overflow) :
              i \in TimerItem /\ i.timer \in Timer /\ i.xItemValue \in Int
              /\ i.xItemValue \in T!Tick
         /\ s.active \in [Timer -> BOOLEAN] /\ s.due \in [Timer -> Int]
         /\ s.period \in [Timer -> Periods]
         /\ \A t \in Timer : s.due[t] \in Int /\ s.period[t] \in Int /\ 1 <= s.period[t]
                             /\ s.period[t] \in 1..(TickMod - 1)
<1>1. s.current \in Seq(TimerItem) /\ s.overflow \in Seq(TimerItem)
  BY DEF TimerSheet
<1>2. \A i \in T!ToSet(s.current) \cup T!ToSet(s.overflow) : i \in TimerItem
  BY <1>1, InList
<1>3. TickMod \in Nat
  BY TimersConstants
<1> QED BY <1>1, <1>2, <1>3, TimerItemTypes, PeriodTypes DEF TimerSheet

\* A timer is put into one of the lists.
LEMMA InsertedSheet ==
  ASSUME NEW s \in TimerSheet, NEW t \in Timer, NEW next \in T!Tick, NEW now,
         T!Sorted(s.current), T!Sorted(s.overflow),
         \A i \in T!ToSet(s.current) \cup T!ToSet(s.overflow) : i.timer # t
  PROVE  LET r == T!Inserted(t, s, next, now)
             item == [timer |-> t, xItemValue |-> next]
         IN /\ r \in TimerSheet /\ r.active = s.active /\ r.due = s.due
            /\ r.period = s.period
            /\ T!Sorted(r.current) /\ T!Sorted(r.overflow)
            /\ next <= now => /\ r.current = s.current
                              /\ T!ToSet(r.overflow) = T!ToSet(s.overflow) \cup {item}
            /\ ~(next <= now) => /\ r.overflow = s.overflow
                                 /\ T!ToSet(r.current) = T!ToSet(s.current) \cup {item}
<1> DEFINE item == [timer |-> t, xItemValue |-> next]
           r == T!Inserted(t, s, next, now)
           current == T!vListInsert(s.current, item)
           overflow == T!vListInsert(s.overflow, item)
<1>1. item \in TimerItem /\ item.timer = t
  BY DEF TimerItem
<1>2. /\ TickMod \in Nat /\ s.current \in Seq(TimerItem) /\ s.overflow \in Seq(TimerItem)
      /\ \A i \in T!ToSet(s.current) : i.timer # t
      /\ \A i \in T!ToSet(s.overflow) : i.timer # t
  BY TimersConstants DEF TimerSheet
<1> HIDE DEF item
<1>3. /\ current \in Seq(TimerItem) /\ T!Sorted(current)
      /\ T!ToSet(current) = T!ToSet(s.current) \cup {item}
  BY <1>1, <1>2, InsertedInOrder
<1>4. /\ overflow \in Seq(TimerItem) /\ T!Sorted(overflow)
      /\ T!ToSet(overflow) = T!ToSet(s.overflow) \cup {item}
  BY <1>1, <1>2, InsertedInOrder
<1>5. r = IF next <= now THEN [s EXCEPT !.overflow = overflow]
          ELSE [s EXCEPT !.current = current]
  BY DEF T!Inserted, item
<1> HIDE DEF r, current, overflow
<1>6. CASE next <= now
  <2>1. r = [s EXCEPT !.overflow = overflow]
    BY <1>5, <1>6
  <2>2. /\ r \in TimerSheet /\ r.overflow = overflow /\ r.current = s.current
        /\ r.active = s.active /\ r.due = s.due /\ r.period = s.period
    BY <1>4, <2>1 DEF TimerSheet
  <2> QED BY <1>4, <1>6, <2>2 DEF r, item
<1>7. CASE ~(next <= now)
  <2>1. r = [s EXCEPT !.current = current]
    BY <1>5, <1>7
  <2>2. /\ r \in TimerSheet /\ r.current = current /\ r.overflow = s.overflow
        /\ r.active = s.active /\ r.due = s.due /\ r.period = s.period
    BY <1>3, <2>1 DEF TimerSheet
  <2> QED BY <1>3, <1>7, <2>2 DEF r, item
<1> QED BY <1>6, <1>7

\* A timer is inserted for the time x at which it is due.
LEMMA InsertKeeps ==
  ASSUME NEW s \in TimerSheet, NEW at \in Int, NEW from \in Int, NEW out,
         ListsKept(s, at, from, out), NEW t \in out, t \in Timer, s.active[t],
         NEW x \in Int, s.due[t] = x - at, x <= from + s.period[t],
         NEW next, NEW now \in Int, StandsFor(next, x, now)
  PROVE  /\ ListsKept(T!Inserted(t, s, next, now), at, from, out \ {t})
         /\ T!Inserted(t, s, next, now) \in TimerSheet
         /\ T!Inserted(t, s, next, now).active = s.active
         /\ T!Inserted(t, s, next, now).period = s.period
         /\ next <= now => T!Inserted(t, s, next, now).current = s.current
<1> DEFINE r == T!Inserted(t, s, next, now)
           item == [timer |-> t, xItemValue |-> next]
<1>1. next \in T!Tick /\ next \in Int
      /\ IF next <= now THEN x = next + TickMod ELSE x = next
  BY TimersConstants DEF StandsFor, T!Tick
<1>2. \A i \in T!ToSet(s.current) \cup T!ToSet(s.overflow) : i.timer # t
  BY DEF ListsKept
<1>3. /\ r \in TimerSheet /\ r.active = s.active /\ r.due = s.due /\ r.period = s.period
      /\ T!Sorted(r.current) /\ T!Sorted(r.overflow)
      /\ next <= now => /\ r.current = s.current
                        /\ T!ToSet(r.overflow) = T!ToSet(s.overflow) \cup {item}
      /\ ~(next <= now) => /\ r.overflow = s.overflow
                           /\ T!ToSet(r.current) = T!ToSet(s.current) \cup {item}
  BY <1>1, <1>2, InsertedSheet DEF ListsKept
<1>4. item.timer = t /\ item.xItemValue = next
  OBVIOUS
<1> HIDE DEF r, item
<1>5. ListsKept(r, at, from, out \ {t})
  <2>1. \A i \in T!ToSet(r.current), j \in T!ToSet(r.overflow) : i.timer # j.timer
    BY <1>2, <1>3, <1>4 DEF ListsKept
  <2>2. ASSUME NEW i \in T!ToSet(r.current)
        PROVE  r.due[i.timer] = i.xItemValue - at
               /\ i.xItemValue <= from + r.period[i.timer]
    BY <1>1, <1>3, <1>4 DEF ListsKept
  <2>3. ASSUME NEW i \in T!ToSet(r.overflow)
        PROVE  /\ r.due[i.timer] = i.xItemValue + TickMod - at
               /\ i.xItemValue + TickMod <= from + r.period[i.timer]
    <3>1. CASE i \in T!ToSet(s.overflow)
      BY <1>3, <3>1 DEF ListsKept
    <3>2. CASE i \notin T!ToSet(s.overflow)
      <4>1. i = item /\ next <= now
        BY <1>3, <3>2
      <4>2. i.timer = t /\ i.xItemValue = next /\ r.due = s.due /\ r.period = s.period
        BY <1>3, <1>4, <4>1
      <4> DEFINE v == next + TickMod
      <4>3. x = v
        BY <1>1, <4>1
      <4> HIDE DEF v
      <4>4. s.due[t] = v - at /\ v <= from + s.period[t]
        BY ONLY <4>3, s.due[t] = x - at, x <= from + s.period[t]
      <4>5. r.due[i.timer] = v - at /\ v <= from + r.period[i.timer]
        BY ONLY <4>2, <4>4
      <4>6. v = i.xItemValue + TickMod
        BY ONLY <4>2 DEF v
      <4>7. /\ v \in Int /\ i.xItemValue \in Int /\ TickMod \in Int /\ from \in Int
            /\ at \in Int
        BY <1>1, <4>2, <4>3, TimersConstants
      <4> QED BY ONLY <4>5, <4>6, <4>7
    <3> QED BY <3>1, <3>2
  <2>4. ASSUME NEW u \in Timer
        PROVE  (\E i \in T!ToSet(r.current) \cup T!ToSet(r.overflow) : i.timer = u)
                 <=> r.active[u] /\ u \notin out \ {t}
    <3>1. T!ToSet(r.current) \cup T!ToSet(r.overflow)
            = T!ToSet(s.current) \cup T!ToSet(s.overflow) \cup {item}
      BY <1>3
    <3>2. CASE u = t
      BY <1>3, <1>4, <3>1, <3>2
    <3>3. CASE u # t
      BY <1>3, <1>4, <3>1, <3>3 DEF ListsKept
    <3> QED BY <3>2, <3>3
  <2> QED BY <1>3, <2>1, <2>2, <2>3, <2>4 DEF ListsKept
<1> QED BY <1>3, <1>5 DEF r

\* The bound on the expiry times may be a later one.
LEMMA KeptLater ==
  ASSUME NEW s \in TimerSheet, NEW at \in Int, NEW from \in Int, NEW out,
         ListsKept(s, at, from, out), NEW later \in Int, from <= later
  PROVE  ListsKept(s, at, later, out)
<1>1. ASSUME NEW i \in T!ToSet(s.current) PROVE i.xItemValue <= later + s.period[i.timer]
  <2>1. i.xItemValue \in Int /\ s.period[i.timer] \in Int
    BY SheetTypes
  <2> QED BY <2>1 DEF ListsKept
<1>2. ASSUME NEW i \in T!ToSet(s.overflow)
      PROVE  i.xItemValue + TickMod <= later + s.period[i.timer]
  <2>1. i.xItemValue \in Int /\ s.period[i.timer] \in Int /\ TickMod \in Int
    BY SheetTypes, TimersConstants
  <2> QED BY <2>1 DEF ListsKept
<1> QED BY <1>1, <1>2 DEF ListsKept

\* The due time of a timer that is in no list changes.
LEMMA DueChanges ==
  ASSUME NEW s \in TimerSheet, NEW at \in Int, NEW from \in Int, NEW out,
         ListsKept(s, at, from, out), NEW t \in Timer, t \in out \/ ~s.active[t],
         NEW d \in Int, d <= s.period[t]
  PROVE  LET r == [s EXCEPT !.due[t] = d]
         IN /\ r \in TimerSheet /\ r.due[t] = d /\ r.active = s.active
            /\ r.period = s.period
            /\ r.current = s.current /\ r.overflow = s.overflow
            /\ ListsKept(r, at, from, out)
<1> DEFINE r == [s EXCEPT !.due[t] = d]
<1>1. /\ r \in TimerSheet /\ r.due = [s.due EXCEPT ![t] = d]
      /\ r.active = s.active /\ r.period = s.period
      /\ r.current = s.current /\ r.overflow = s.overflow
  BY DEF TimerSheet
<1> HIDE DEF r
<1>2. /\ \A i \in T!ToSet(s.current) \cup T!ToSet(s.overflow) : i.timer # t
           /\ i.timer \in Timer
      /\ s.due \in [Timer -> Int]
  BY SheetTypes DEF ListsKept
<1>3. /\ r.due[t] = d /\ \A u \in Timer : u # t => r.due[u] = s.due[u]
  BY <1>1, <1>2
<1>4. ListsKept(r, at, from, out)
  BY <1>1, <1>2, <1>3 DEF ListsKept
<1> QED BY <1>1, <1>3, <1>4 DEF r

\* A call after the timer was inserted is one before.
LEMMA CalledBefore ==
  ASSUME NEW s \in TimerSheet, NEW t \in Timer, NEW next, NEW now
  PROVE  T!Called(T!Inserted(t, s, next, now), t) = T!Inserted(t, T!Called(s, t), next, now)
<1> DEFINE item == [timer |-> t, xItemValue |-> next]
<1>1. CASE next <= now
  <2>1. /\ T!Inserted(t, s, next, now) = [s EXCEPT !.overflow = T!vListInsert(@, item)]
        /\ T!Inserted(t, T!Called(s, t), next, now)
             = [T!Called(s, t) EXCEPT !.overflow = T!vListInsert(@, item)]
    BY <1>1 DEF T!Inserted
  <2> HIDE DEF item
  <2> QED BY <2>1 DEF T!Called, TimerSheet
<1>2. CASE ~(next <= now)
  <2>1. /\ T!Inserted(t, s, next, now) = [s EXCEPT !.current = T!vListInsert(@, item)]
        /\ T!Inserted(t, T!Called(s, t), next, now)
             = [T!Called(s, t) EXCEPT !.current = T!vListInsert(@, item)]
    BY <1>2 DEF T!Inserted
  <2> HIDE DEF item
  <2> QED BY <2>1 DEF T!Called, TimerSheet
<1> QED BY <1>1, <1>2

\* What an expiry leaves alone.
OthersStay(s, r, t) ==
  /\ r.period = s.period
  /\ \A u \in Timer : /\ r.active[u] => s.active[u]
                      /\ u # t => r.active[u] = s.active[u]

\* An expiry at the time x, up to now.
LEMMA ExpiresKeeps ==
  ASSUME autoReload \in [Timer -> BOOLEAN],
         NEW s \in TimerSheet, NEW at \in Int, NEW from \in Int, NEW out,
         ListsKept(s, at, from, out), NEW t \in out, t \in Timer, s.active[t],
         NEW now \in T!Tick, NEW x \in Int, s.due[t] = x - at,
         now - TickMod < x, x <= now, now <= at, from <= now
  PROVE  LET r == T!Expires(t, s, T!Mod(x), now)
         IN /\ r \in TimerSheet /\ ListsKept(r, at, now, out \ {t}) /\ OthersStay(s, r, t)
            /\ now = TickMod - 1 => r.current = s.current
<1> DEFINE p == s.period[t]
           r == T!Expires(t, s, T!Mod(x), now)
<1>1. /\ p \in 1..(TickMod - 1) /\ p \in Int /\ 1 <= p /\ s.due \in [Timer -> Int]
      /\ s.active \in [Timer -> BOOLEAN] /\ s.due[t] \in Int
      /\ TickMod \in Int /\ now \in Int /\ 0 <= now /\ now < TickMod
  BY SheetTypes, TimersConstants DEF T!Tick
<1>2. ListsKept(s, at, now, out)
  BY <1>1, KeptLater
<1>3. CASE autoReload[t]
  <2>1. PICK n \in Nat :
           /\ n * p \in Nat /\ x + n * p <= now /\ x + n * p + p > now
           /\ StandsFor(T!Mod(x + n * p + p), x + n * p + p, now)
           /\ T!prvReloadTimer(t, s, T!Mod(x), now) =
                T!Inserted(t, [s EXCEPT !.due[t] = @ + n * p], T!Mod(x + n * p + p), now)
    <3>1. /\ s.period[t] = p /\ p \in 1..(TickMod - 1) /\ now \in T!Tick /\ x \in Int
          /\ now - TickMod < x /\ x <= now
      BY <1>1
    <3> HIDE DEF p, r
    <3>2. LoadedAgain(t, s, p, now, x)
      BY ONLY <3>1, Reloaded
    <3> QED BY <3>2 DEF LoadedAgain
  <2> DEFINE q == n * p
             b == [s EXCEPT !.due[t] = s.due[t] + q]
             c == [s EXCEPT !.due[t] = s.due[t] + q + p]
             next == T!Mod(x + q + p)
  <2> HIDE DEF q
  <2>2. /\ q \in Int /\ x + q <= now /\ x + q + p > now /\ StandsFor(next, x + q + p, now)
        /\ T!prvReloadTimer(t, s, T!Mod(x), now)
             = T!Inserted(t, [s EXCEPT !.due[t] = @ + q], next, now)
    BY <2>1 DEF q
  <2> HIDE DEF next
  <2>3. [s EXCEPT !.due[t] = @ + q] = b
    BY DEF TimerSheet
  <2>4. b \in TimerSheet /\ T!Called(b, t) = c
    <3> HIDE DEF p
    <3>1. b \in TimerSheet /\ b.due = [s.due EXCEPT ![t] = s.due[t] + q]
          /\ b.period = s.period
      <4> DEFINE e == s.due[t] + q
      <4>1. e \in Int /\ b = [s EXCEPT !.due[t] = e]
        BY <1>1, <2>2
      <4> HIDE DEF e, b
      <4>2. b \in TimerSheet /\ b.due = [s.due EXCEPT ![t] = e] /\ b.period = s.period
        BY <4>1 DEF TimerSheet
      <4> QED BY <4>2 DEF e
    <3>2. T!Called(b, t) = [b EXCEPT !.due = [b.due EXCEPT ![t] = b.due[t] + b.period[t]]]
      BY DEF T!Called
    <3>3. b.due[t] + b.period[t] = s.due[t] + q + p
      BY <1>1, <3>1 DEF p
    <3>4. [b EXCEPT !.due = [b.due EXCEPT ![t] = b.due[t] + b.period[t]]]
            = [s EXCEPT !.due = [b.due EXCEPT ![t] = s.due[t] + q + p]]
      BY <3>3 DEF TimerSheet
    <3>5. [b.due EXCEPT ![t] = s.due[t] + q + p] = [s.due EXCEPT ![t] = s.due[t] + q + p]
      BY <1>1, <3>1
    <3> QED BY <3>1, <3>2, <3>4, <3>5
  <2>5. r = T!Inserted(t, c, next, now)
    <3>1. r = T!Called(T!Inserted(t, b, next, now), t)
      BY <1>3, <2>2, <2>3 DEF T!Expires
    <3> HIDE DEF b, c, r
    <3>2. T!Called(T!Inserted(t, b, next, now), t)
            = T!Inserted(t, T!Called(b, t), next, now)
      BY <2>4, CalledBefore
    <3> QED BY <2>4, <3>1, <3>2
  <2> DEFINE d == s.due[t] + q + p
  <2>6. d \in Int /\ d <= s.period[t] /\ d = (x + q + p) - at
    BY <1>1, <2>2
  <2> HIDE DEF d, p
  <2>7. /\ c \in TimerSheet /\ c.due[t] = d /\ c.active = s.active /\ c.period = s.period
        /\ c.current = s.current /\ c.overflow = s.overflow /\ ListsKept(c, at, now, out)
    <3>1. c = [s EXCEPT !.due[t] = d]
      BY DEF d
    <3> HIDE DEF c
    <3> QED BY <1>1, <1>2, <2>6, <3>1, DueChanges
  <2> HIDE DEF b, c, r
  <2>8. (x + q + p) \in Int /\ (x + q + p) <= now + c.period[t] /\ c.active[t]
    BY <1>1, <2>2, <2>7 DEF p
  <2> DEFINE y == x + q + p
  <2>9. y \in Int /\ c.due[t] = y - at /\ y <= now + c.period[t] /\ StandsFor(next, y, now)
    BY <2>2, <2>6, <2>7, <2>8
  <2> HIDE DEF y
  <2>10. /\ ListsKept(r, at, now, out \ {t}) /\ r \in TimerSheet
         /\ r.active = c.active /\ r.period = c.period
         /\ next <= now => r.current = c.current
    BY <1>1, <2>5, <2>7, <2>8, <2>9, InsertKeeps
  <2>11. now = TickMod - 1 => next <= now
    BY <1>1, <2>9 DEF StandsFor, T!Tick
  <2> QED BY <2>7, <2>10, <2>11 DEF r, OthersStay
<1>4. CASE ~autoReload[t]
  <2> DEFINE b == [s EXCEPT !.active[t] = FALSE]
             d == s.due[t] + p
             c == [b EXCEPT !.due[t] = d]
  <2>1. /\ b \in TimerSheet /\ b.active = [s.active EXCEPT ![t] = FALSE] /\ b.due = s.due
        /\ b.period = s.period /\ b.current = s.current /\ b.overflow = s.overflow
    BY DEF TimerSheet
  <2>2. r = c
    BY <1>4, <2>1 DEF T!Expires, T!Called
  <2> HIDE DEF b
  <2>3. /\ b.active[t] = FALSE /\ \A u \in Timer : u # t => b.active[u] = s.active[u]
    BY <1>1, <2>1
  <2>4. ListsKept(b, at, now, out \ {t})
    <3>1. ASSUME NEW u \in Timer
          PROVE  (\E i \in T!ToSet(b.current) \cup T!ToSet(b.overflow) : i.timer = u)
                   <=> b.active[u] /\ u \notin out \ {t}
      <4>1. (\E i \in T!ToSet(b.current) \cup T!ToSet(b.overflow) : i.timer = u)
                   <=> s.active[u] /\ u \notin out
        BY <1>2, <2>1 DEF ListsKept
      <4> QED BY <2>3, <4>1
    <3> QED BY <1>2, <2>1, <3>1 DEF ListsKept
  <2>5. d \in Int /\ d <= b.period[t]
    BY <1>1, <2>1
  <2> HIDE DEF d
  <2>6. /\ c \in TimerSheet /\ c.active = b.active /\ c.period = b.period
        /\ c.current = b.current /\ ListsKept(c, at, now, out \ {t})
    <3> DEFINE o == out \ {t}
    <3>1. /\ b \in TimerSheet /\ ListsKept(b, at, now, o) /\ ~b.active[t] /\ t \in Timer
          /\ at \in Int /\ now \in Int /\ d \in Int /\ d <= b.period[t]
      BY <1>1, <2>1, <2>3, <2>4, <2>5
    <3> HIDE DEF o, r, c
    <3>2. /\ [b EXCEPT !.due[t] = d] \in TimerSheet
          /\ [b EXCEPT !.due[t] = d].active = b.active
          /\ [b EXCEPT !.due[t] = d].period = b.period
          /\ [b EXCEPT !.due[t] = d].current = b.current
          /\ ListsKept([b EXCEPT !.due[t] = d], at, now, o)
      BY ONLY <3>1, DueChanges
    <3> QED BY <3>2 DEF c, o
  <2> HIDE DEF c, r
  <2>7. OthersStay(s, c, t) /\ c.current = s.current
    BY <1>1, <2>1, <2>3, <2>6 DEF OthersStay
  <2> QED BY <2>2, <2>6, <2>7 DEF r
<1> QED BY <1>3, <1>4

\* The timer of a command leaves its list.
LEMMA UnlistedKeeps ==
  ASSUME NEW s \in TimerSheet, NEW at \in Int, NEW from \in Int, NEW out,
         ListsKept(s, at, from, out), NEW t \in Timer
  PROVE  LET r == T!Unlisted(s, t)
         IN /\ r \in TimerSheet /\ ListsKept(r, at, from, out \cup {t})
            /\ r.active = s.active /\ r.due = s.due /\ r.period = s.period
            /\ T!ToSet(r.current) \subseteq T!ToSet(s.current)
            /\ T!ToSet(r.overflow) \subseteq T!ToSet(s.overflow)
<1> DEFINE r == T!Unlisted(s, t)
           current == T!Without(s.current, t)
           overflow == T!Without(s.overflow, t)
<1>1. TickMod \in Nat /\ s.current \in Seq(TimerItem) /\ s.overflow \in Seq(TimerItem)
  BY TimersConstants DEF TimerSheet
<1>2. /\ current \in Seq(TimerItem) /\ T!Sorted(current)
      /\ T!ToSet(current) = {i \in T!ToSet(s.current) : i.timer # t}
  BY <1>1, LeftInOrder DEF ListsKept
<1>3. /\ overflow \in Seq(TimerItem) /\ T!Sorted(overflow)
      /\ T!ToSet(overflow) = {i \in T!ToSet(s.overflow) : i.timer # t}
  BY <1>1, LeftInOrder DEF ListsKept
<1>4. r = [s EXCEPT !.current = current, !.overflow = overflow]
  BY DEF T!Unlisted
<1> HIDE DEF r, current, overflow
<1>5. /\ r \in TimerSheet /\ r.current = current /\ r.overflow = overflow
      /\ r.active = s.active /\ r.due = s.due /\ r.period = s.period
  BY <1>2, <1>3, <1>4 DEF TimerSheet
<1>6. ListsKept(r, at, from, out \cup {t})
  <2>1. ASSUME NEW u \in Timer
        PROVE  (\E i \in T!ToSet(r.current) \cup T!ToSet(r.overflow) : i.timer = u)
                 <=> r.active[u] /\ u \notin out \cup {t}
    <3>1. (\E i \in T!ToSet(s.current) \cup T!ToSet(s.overflow) : i.timer = u)
            <=> s.active[u] /\ u \notin out
      BY DEF ListsKept
    <3> QED BY <1>2, <1>3, <1>5, <3>1
  <2> QED BY <1>2, <1>3, <1>5, <2>1 DEF ListsKept
<1> QED BY <1>2, <1>3, <1>5, <1>6 DEF r

\* The first timer of the current list leaves it.
LEMMA FirstLeavesList ==
  ASSUME NEW s \in TimerSheet, NEW at \in Int, NEW from \in Int, NEW out,
         ListsKept(s, at, from, out), s.current # << >>
  PROVE  LET r == [s EXCEPT !.current = Tail(@)]
             i == Head(s.current)
         IN /\ r \in TimerSheet /\ ListsKept(r, at, from, out \cup {i.timer})
            /\ r.active = s.active /\ r.due = s.due /\ r.period = s.period
            /\ r.current = Tail(s.current)
            /\ i \in TimerItem /\ i \in T!ToSet(s.current) /\ i.timer \notin out
            /\ s.active[i.timer] /\ s.due[i.timer] = i.xItemValue - at
            /\ Len(Tail(s.current)) = Len(s.current) - 1
<1> DEFINE r == [s EXCEPT !.current = Tail(@)]
           i == Head(s.current)
           current == Tail(s.current)
<1>1. TickMod \in Nat /\ s.current \in Seq(TimerItem) /\ s.overflow \in Seq(TimerItem)
  BY TimersConstants DEF TimerSheet
<1>2. /\ i \in TimerItem /\ i \in T!ToSet(s.current)
      /\ current \in Seq(TimerItem) /\ T!Sorted(current)
      /\ Len(current) = Len(s.current) - 1
      /\ T!ToSet(current) = {j \in T!ToSet(s.current) : j.timer # i.timer}
  BY <1>1, FirstOfList DEF ListsKept
<1>3. r = [s EXCEPT !.current = current]
  OBVIOUS
<1> HIDE DEF r, i, current
<1>4. /\ r \in TimerSheet /\ r.current = current /\ r.overflow = s.overflow
      /\ r.active = s.active /\ r.due = s.due /\ r.period = s.period
  BY <1>2, <1>3 DEF TimerSheet
<1>5. /\ i.timer \in Timer /\ i.timer \notin out /\ s.active[i.timer]
      /\ s.due[i.timer] = i.xItemValue - at
      /\ \A j \in T!ToSet(s.overflow) : j.timer # i.timer
  BY <1>2, SheetTypes DEF ListsKept
<1>6. ListsKept(r, at, from, out \cup {i.timer})
  <2>1. ASSUME NEW u \in Timer
        PROVE  (\E j \in T!ToSet(r.current) \cup T!ToSet(r.overflow) : j.timer = u)
                 <=> r.active[u] /\ u \notin out \cup {i.timer}
    <3>1. (\E j \in T!ToSet(s.current) \cup T!ToSet(s.overflow) : j.timer = u)
            <=> s.active[u] /\ u \notin out
      BY DEF ListsKept
    <3> QED BY <1>2, <1>4, <1>5, <3>1
  <2> QED BY <1>2, <1>4, <2>1 DEF ListsKept
<1> QED BY <1>2, <1>4, <1>5, <1>6 DEF r, i, current

\* Timers are stopped at most, and those of out are left alone.
TimersShrink(s, r, out) ==
  /\ r.period = s.period
  /\ \A u \in Timer : /\ r.active[u] => s.active[u]
                      /\ u \in out => r.active[u] = s.active[u]

\* prvProcessExpiredTimer
LEMMA ProcessKeeps ==
  ASSUME autoReload \in [Timer -> BOOLEAN],
         NEW s \in TimerSheet, NEW at \in Int, NEW from \in Int, NEW out,
         ListsKept(s, at, from, out), s.current # << >>,
         NEW now \in T!Tick, Head(s.current).xItemValue <= now, now <= at, from <= now
  PROVE  LET r == T!prvProcessExpiredTimer(s, now)
         IN /\ r \in TimerSheet /\ ListsKept(r, at, now, out) /\ TimersShrink(s, r, out)
            /\ now = TickMod - 1 => Len(r.current) = Len(s.current) - 1
<1> DEFINE i == Head(s.current)
           b == [s EXCEPT !.current = Tail(@)]
           t == i.timer
           x == i.xItemValue
           r == T!prvProcessExpiredTimer(s, now)
<1>1. /\ b \in TimerSheet /\ ListsKept(b, at, from, out \cup {t})
      /\ b.active = s.active /\ b.due = s.due /\ b.period = s.period
      /\ b.current = Tail(s.current)
      /\ i \in TimerItem /\ t \notin out /\ s.active[t] /\ s.due[t] = x - at
      /\ Len(Tail(s.current)) = Len(s.current) - 1
  BY FirstLeavesList
<1>2. /\ t \in Timer /\ x \in T!Tick /\ x \in Int /\ x <= now
      /\ TickMod \in Int /\ now \in Int /\ 0 <= x /\ x < TickMod /\ now < TickMod
  BY <1>1, TimerItemTypes, TimersConstants DEF T!Tick
<1>3. r = T!Expires(t, b, x, now)
  BY DEF T!prvProcessExpiredTimer
<1> HIDE DEF i, b, t, x, r
<1>4. T!Mod(x) = x /\ now - TickMod < x
  BY <1>2, TicksOf
<1>5. t \in out \cup {t} /\ (out \cup {t}) \ {t} = out /\ b.active[t] /\ b.due[t] = x - at
  BY <1>1
<1>6. /\ r \in TimerSheet /\ ListsKept(r, at, now, (out \cup {t}) \ {t})
      /\ OthersStay(b, r, t)
      /\ now = TickMod - 1 => r.current = b.current
  <2> DEFINE o == out \cup {t}
  <2>1. t \in o /\ ListsKept(b, at, from, o)
    BY <1>1
  <2> HIDE DEF o
  <2>2. LET e == T!Expires(t, b, T!Mod(x), now)
        IN /\ e \in TimerSheet /\ ListsKept(e, at, now, o \ {t}) /\ OthersStay(b, e, t)
           /\ now = TickMod - 1 => e.current = b.current
    BY <1>1, <1>2, <1>4, <1>5, <2>1, ExpiresKeeps
  <2> QED BY <1>3, <1>4, <2>2 DEF o
<1>7. TimersShrink(s, r, out)
  BY <1>1, <1>6 DEF OthersStay, TimersShrink
<1> QED BY <1>1, <1>5, <1>6, <1>7 DEF r

\* prvSwitchTimerLists, step by step.
LEMMA AllExpire ==
  ASSUME autoReload \in [Timer -> BOOLEAN],
         NEW s \in TimerSheet, NEW at \in Int, NEW out,
         ListsKept(s, at, TickMod - 1, out), TickMod <= at, NEW after,
         after = CHOOSE g : g = [n \in 0..Len(s.current) |->
                   IF n = 0 THEN s
                   ELSE T!prvProcessExpiredTimer(g[n - 1], T!tmrMAX_TIME_BEFORE_OVERFLOW)]
  PROVE  LET e == after[Len(s.current)]
         IN /\ e \in TimerSheet /\ ListsKept(e, at, TickMod - 1, out)
            /\ TimersShrink(s, e, out)
            /\ e.current = << >>
<1> DEFINE last == Len(s.current)
           max == TickMod - 1
           S == {r \in TimerSheet : ListsKept(r, at, max, out) /\ TimersShrink(s, r, out)}
           step == [r \in S |-> IF r.current = << >> THEN r
                                ELSE T!prvProcessExpiredTimer(r, max)]
<1>1. /\ last \in Nat /\ max \in T!Tick /\ max \in Int /\ max <= at
      /\ T!tmrMAX_TIME_BEFORE_OVERFLOW = max
  BY TimersConstants DEF TimerSheet, T!Tick, T!tmrMAX_TIME_BEFORE_OVERFLOW
<1>2. s \in S
  BY DEF TimersShrink
<1>3. ASSUME NEW r \in S, r.current # << >>
      PROVE  /\ T!prvProcessExpiredTimer(r, max) \in S
             /\ Len(T!prvProcessExpiredTimer(r, max).current) = Len(r.current) - 1
  <2>1. r \in TimerSheet /\ ListsKept(r, at, max, out) /\ TimersShrink(s, r, out)
    OBVIOUS
  <2>2. Head(r.current).xItemValue <= max
    <3>1. Head(r.current) \in TimerItem
      BY <1>3, <2>1, FirstLeavesList, <1>1
    <3> QED BY <3>1, TimerItemTypes, TimersConstants DEF T!Tick
  <2> HIDE DEF max
  <2>3. LET q == T!prvProcessExpiredTimer(r, max)
        IN /\ q \in TimerSheet /\ ListsKept(q, at, max, out) /\ TimersShrink(r, q, out)
           /\ max = TickMod - 1 => Len(q.current) = Len(r.current) - 1
    BY <1>1, <1>3, <2>1, <2>2, ProcessKeeps
  <2>4. TimersShrink(s, T!prvProcessExpiredTimer(r, max), out)
    BY <2>1, <2>3 DEF TimersShrink
  <2> QED BY <2>3, <2>4 DEF max
<1>4. step \in [S -> S]
  <2> HIDE DEF S
  <2> QED BY <1>3
<1> DEFINE Right(f) == \A n \in 0..last : f[n] \in S /\ Len(f[n].current) = last - n
<1>5. ASSUME NEW f, f[0] = s,
             \A n \in 0..last : n # 0 =>
               f[n] = IF f[n - 1] \in S /\ f[n - 1].current # << >>
                      THEN T!prvProcessExpiredTimer(f[n - 1], max) ELSE f[n]
      PROVE  Right(f)
  <2> DEFINE Good == {n \in 0..last : f[n] \in S /\ Len(f[n].current) = last - n}
  <2>1. 0 \in Good
    BY <1>1, <1>2, <1>5
  <2>2. ASSUME NEW n \in Good, n < last PROVE n + 1 \in Good
    <3>1. n + 1 \in 0..last /\ n + 1 # 0 /\ (n + 1) - 1 = n /\ last - n # 0
      BY <1>1, <2>2
    <3>2. f[n] \in S /\ Len(f[n].current) = last - n
      OBVIOUS
    <3> HIDE DEF S, Good, last, max
    <3>3. f[n].current # << >>
      BY <3>1, <3>2
    <3>4. f[n + 1] = T!prvProcessExpiredTimer(f[n], max)
      BY <1>5, <3>1, <3>2, <3>3
    <3>5. f[n + 1] \in S /\ Len(f[n + 1].current) = (last - n) - 1
      BY <1>3, <3>2, <3>3, <3>4
    <3>6. (last - n) - 1 = last - (n + 1)
      BY <1>1, <3>1
    <3> QED BY <3>1, <3>5, <3>6 DEF Good
  <2> HIDE DEF Good
  <2>3. \A n \in 0..last : n \in Good
    BY <1>1, <2>1, <2>2, StepByStep
  <2> QED BY <2>3 DEF Good
<1>6. PICK g \in [0..last -> S] :
         g = [n \in 0..last |-> IF n = 0 THEN s ELSE step[g[n - 1]]]
  <2> HIDE DEF step, last, S
  <2>1. \E g \in [0..last -> S] : Computes(g, step, s, last)
    BY <1>1, <1>2, <1>4, Iteration
  <2> QED BY <2>1 DEF Computes
<1>7. \A n \in 0..last : n # 0 => n - 1 \in 0..last
  BY <1>1
<1>8. /\ g[0] = s
      /\ \A n \in 0..last : n # 0 => g[n] = step[g[n - 1]]
      /\ \A n \in 0..last : g[n] \in S
  <2> HIDE DEF step, S
  <2>1. 0 \in 0..last
    BY <1>1
  <2> QED BY <1>6, <2>1
<1>9. \A n \in 0..last : n # 0 =>
        g[n] = IF g[n - 1].current = << >> THEN g[n - 1]
               ELSE T!prvProcessExpiredTimer(g[n - 1], max)
  <2> HIDE DEF S
  <2> QED BY <1>7, <1>8
<1> HIDE DEF step
<1>10. Right(g)
  <2> HIDE DEF S, Right, max, last
  <2>1. \A n \in 0..last : n # 0 =>
               g[n] = IF g[n - 1] \in S /\ g[n - 1].current # << >>
                      THEN T!prvProcessExpiredTimer(g[n - 1], max) ELSE g[n]
    BY <1>9
  <2> QED BY <1>5, <1>8, <2>1
<1>11. g = [n \in 0..last |->
              IF n = 0 THEN s
              ELSE T!prvProcessExpiredTimer(g[n - 1], T!tmrMAX_TIME_BEFORE_OVERFLOW)]
  <2>1. ASSUME NEW n \in 0..last, n # 0
        PROVE  g[n] = T!prvProcessExpiredTimer(g[n - 1], max)
    <3>1. n - 1 \in 0..last /\ last - (n - 1) # 0
      BY <1>1, <1>7, <2>1
    <3>2. Len(g[n - 1].current) = last - (n - 1)
      BY <1>10, <3>1
    <3>3. g[n - 1].current # << >>
      <4> DEFINE l == g[n - 1].current
      <4>1. Len(l) # 0
        BY <3>1, <3>2
      <4> HIDE DEF l
      <4>2. l # << >>
        BY <4>1
      <4> QED BY <4>2 DEF l
    <3> HIDE DEF S, Right, max, last
    <3> QED BY <1>9, <2>1, <3>3
  <2> HIDE DEF S, Right, max, last
  <2> QED BY <1>1, <1>6, <1>8, <2>1
<1>12. after = [n \in 0..last |-> IF n = 0 THEN s
                 ELSE T!prvProcessExpiredTimer(after[n - 1], T!tmrMAX_TIME_BEFORE_OVERFLOW)]
  <2> HIDE DEF S, Right, max
  <2> QED BY <1>11
<1>13. Right(after)
  <2> HIDE DEF S, Right, max
  <2>1. 0 \in 0..last
    BY <1>1
  <2> HIDE DEF last
  <2>2. after[0] = s
    BY <1>12, <2>1
  <2>3. \A n \in 0..last : n # 0 => after[n] = T!prvProcessExpiredTimer(after[n - 1], max)
    BY <1>1, <1>12
  <2>4. \A n \in 0..last : n # 0 =>
               after[n] = IF after[n - 1] \in S /\ after[n - 1].current # << >>
                      THEN T!prvProcessExpiredTimer(after[n - 1], max) ELSE after[n]
    BY <2>3
  <2> QED BY <1>5, <2>2, <2>4
<1>14. after[last] \in S /\ Len(after[last].current) = 0
  <2> HIDE DEF S, last
  <2>1. last \in 0..last /\ last - last = 0
    BY <1>1
  <2> QED BY <1>13, <2>1
<1>15. after[last].current = << >>
  <2> DEFINE l == after[last].current
  <2>1. l \in Seq(TimerItem) /\ Len(l) = 0
    BY <1>14 DEF TimerSheet
  <2> HIDE DEF l
  <2>2. l = << >>
    BY <2>1
  <2> QED BY <2>2 DEF l
<1> QED BY <1>14, <1>15

\* prvSwitchTimerLists: the times count from the next wrap.
LEMMA SwitchKeeps ==
  ASSUME autoReload \in [Timer -> BOOLEAN],
         NEW s \in TimerSheet, NEW at \in Int, NEW out,
         ListsKept(s, at, TickMod - 1, out), TickMod <= at
  PROVE  LET r == T!prvSwitchTimerLists(s)
         IN /\ r \in TimerSheet /\ ListsKept(r, at - TickMod, at - TickMod, out)
            /\ TimersShrink(s, r, out)
<1> DEFINE after == CHOOSE g : g = [n \in 0..Len(s.current) |->
                IF n = 0 THEN s
                ELSE T!prvProcessExpiredTimer(g[n - 1], T!tmrMAX_TIME_BEFORE_OVERFLOW)]
           e == after[Len(s.current)]
           r == [e EXCEPT !.current = e.overflow, !.overflow = e.current]
<1>1. T!prvSwitchTimerLists(s) = r
  BY DEF T!prvSwitchTimerLists
<1>2. /\ e \in TimerSheet /\ ListsKept(e, at, TickMod - 1, out) /\ TimersShrink(s, e, out)
      /\ e.current = << >>
  <2>1. after = CHOOSE g : g = [n \in 0..Len(s.current) |->
                   IF n = 0 THEN s
                   ELSE T!prvProcessExpiredTimer(g[n - 1], T!tmrMAX_TIME_BEFORE_OVERFLOW)]
    OBVIOUS
  <2> HIDE DEF after
  <2> QED BY <2>1, AllExpire
<1> HIDE DEF after, e
<1>3. /\ r \in TimerSheet /\ r.current = e.overflow /\ r.overflow = << >>
      /\ r.active = e.active /\ r.due = e.due /\ r.period = e.period
  BY <1>2 DEF TimerSheet
<1> HIDE DEF r
<1>4. T!ToSet(<< >>) = {}
  BY DEF T!ToSet
<1>5. ASSUME NEW i \in T!ToSet(r.current)
      PROVE  /\ r.due[i.timer] = i.xItemValue - (at - TickMod)
             /\ i.xItemValue <= (at - TickMod) + r.period[i.timer]
  <2>1. /\ i.xItemValue \in Int /\ e.period[i.timer] \in Int /\ TickMod \in Int
    BY <1>2, <1>3, SheetTypes, TimersConstants
  <2> QED BY <1>2, <1>3, <2>1 DEF ListsKept
<1>6. ListsKept(r, at - TickMod, at - TickMod, out)
  BY <1>2, <1>3, <1>4, <1>5 DEF ListsKept
<1> QED BY <1>1, <1>2, <1>3, <1>6 DEF TimersShrink
-----------------------------------------------------------------------------
(* The service task.                                                        *)

\* The ticks since the service task sampled the time, and the time from there.
TicksPassed == T!Mod(xTickCount - xLastTime)
TimersNow == xLastTime + TicksPassed

TimerCommands ==
  [id : {"start"}, value : T!Tick, timer : Timer]
    \cup [id : {"changePeriod"}, value : Periods, timer : Timer]
    \cup [id : {"stop", "delete"}, value : {0}, timer : Timer]
PendedFunctions == [id : {"function"}, value : {0}, timer : {NoTimer}]

TimerTypes ==
  /\ xTickCount \in T!Tick /\ xLastTime \in T!Tick
  /\ T!State \in TimerSheet /\ autoReload \in [Timer -> BOOLEAN]
  /\ xTimerQueue \in Seq(TimerCommands \cup PendedFunctions)
  /\ pc \in {"loop", "blocked", "expired", "receive", "command"}
  /\ lag \in 0..MaxLag

ServiceHandling ==
  IF pc = "command" THEN xMessage \in TimerCommands ELSE xMessage = T!NoMessage

TimersKept == ListsKept(T!State, TimersNow, xLastTime, {xMessage.timer})

\* The service task comes to its lists before the time of the first wrap after
\* a timer's expiry.
ServiceInTime == T!Items # {} /\ pc # "blocked" => TicksPassed <= TickMod - 1 - MaxLag + lag

ServiceAsleep ==
  pc = "blocked" =>
    /\ lag = 0 /\ xTimerQueue = << >> /\ wakeTime = T!NextExpireTime
    /\ T!Items # {} => xLastTime <= xTickCount
    /\ pxCurrentTimerList # << >> => xTickCount < Head(pxCurrentTimerList).xItemValue

ServiceExpiring ==
  pc = "expired" =>
    /\ pxCurrentTimerList # << >> /\ xTimeNow = xLastTime
    /\ Head(pxCurrentTimerList).xItemValue <= xTimeNow

\* What was sent for a timer ends with its deletion, or it has been deleted.
DeletedLast(t) ==
  \/ \E i \in 1..Len(xTimerQueue) :
       /\ xTimerQueue[i].timer = t /\ xTimerQueue[i].id = "delete"
       /\ \A j \in 1..Len(xTimerQueue) : i < j => xTimerQueue[j].timer # t
  \/ /\ \A i \in 1..Len(xTimerQueue) : xTimerQueue[i].timer # t
     /\ IF xMessage.timer = t THEN xMessage.id = "delete" ELSE ~active[t]

DeletedTimers == deleted \subseteq Timer /\ \A t \in deleted : DeletedLast(t)

TimersInv ==
  TimerTypes /\ ServiceHandling /\ TimersKept /\ ServiceInTime /\ ServiceAsleep
  /\ ServiceExpiring /\ DeletedTimers

\* The two turns of the count that the times are of.
LEMMA ClockFacts ==
  ASSUME TimerTypes
  PROVE  /\ xTickCount \in Int /\ xLastTime \in Int /\ TickMod \in Int /\ TickMod >= 3
         /\ 0 <= xTickCount /\ xTickCount < TickMod /\ 0 <= xLastTime /\ xLastTime < TickMod
         /\ xLastTime <= xTickCount => TimersNow = xTickCount
              /\ TicksPassed = xTickCount - xLastTime
         /\ ~(xLastTime <= xTickCount) => /\ TimersNow = xTickCount + TickMod
                                          /\ TicksPassed = xTickCount - xLastTime + TickMod
         /\ TicksPassed \in Int /\ 0 <= TicksPassed /\ TicksPassed < TickMod
         /\ TimersNow \in Int /\ xLastTime <= TimersNow
<1>1. /\ xTickCount \in Int /\ xLastTime \in Int /\ TickMod \in Int /\ TickMod >= 3
      /\ 0 <= xTickCount /\ xTickCount < TickMod /\ 0 <= xLastTime /\ xLastTime < TickMod
  BY TimersConstants DEF TimerTypes, T!Tick
<1>2. /\ xLastTime <= xTickCount => TicksPassed = xTickCount - xLastTime
      /\ ~(xLastTime <= xTickCount) => TicksPassed = xTickCount - xLastTime + TickMod
  BY <1>1, TicksOf DEF TicksPassed
<1>3. TimersNow = xLastTime + TicksPassed
  BY DEF TimersNow
<1> QED BY <1>1, <1>2, <1>3

\* The parts of the state of the timers.
LEMMA StateParts ==
  /\ T!State.current = pxCurrentTimerList /\ T!State.overflow = pxOverflowTimerList
  /\ T!State.active = active /\ T!State.due = due /\ T!State.period = xTimerPeriodInTicks
  /\ T!Items = T!ToSet(T!State.current) \cup T!ToSet(T!State.overflow)
BY DEF T!State, T!Items

\* The timers and lists that an action leaves.
LEMMA BecomesState ==
  ASSUME NEW s \in TimerSheet, T!Becomes(s)
  PROVE  T!State' = s
BY DEF TimerSheet, T!Becomes, T!State

\* prvSampleTimeNow
LEMMA SampledKeeps ==
  ASSUME TimerTypes, NEW out, ListsKept(T!State, TimersNow, xLastTime, out)
  PROVE  LET r == T!Sampled(T!State)
         IN /\ r \in TimerSheet /\ ListsKept(r, xTickCount, xTickCount, out)
            /\ TimersShrink(T!State, r, out)
            /\ ~T!ListsSwitch => r = T!State
<1>1. /\ T!State \in TimerSheet /\ autoReload \in [Timer -> BOOLEAN]
  BY DEF TimerTypes
<1>2. CASE T!ListsSwitch
  <2>1. /\ TimersNow = xTickCount + TickMod /\ TimersNow \in Int /\ TickMod <= TimersNow
        /\ TimersNow - TickMod = xTickCount
        /\ xLastTime <= TickMod - 1 /\ TickMod - 1 \in Int /\ xLastTime \in Int
    BY <1>2, ClockFacts DEF T!ListsSwitch
  <2>2. ListsKept(T!State, TimersNow, TickMod - 1, out)
    BY <1>1, <2>1, KeptLater
  <2> DEFINE r == T!prvSwitchTimerLists(T!State)
  <2>3. r \in TimerSheet /\ ListsKept(r, TimersNow - TickMod, TimersNow - TickMod, out)
        /\ TimersShrink(T!State, r, out)
    BY <1>1, <2>1, <2>2, SwitchKeeps
  <2> HIDE DEF r
  <2>4. T!Sampled(T!State) = r
    BY <1>2 DEF T!Sampled, r
  <2> QED BY <1>2, <2>1, <2>3, <2>4
<1>3. CASE ~T!ListsSwitch
  <2>1. TimersNow = xTickCount /\ xLastTime <= xTickCount /\ xLastTime \in Int
        /\ xTickCount \in Int
    BY <1>3, ClockFacts DEF T!ListsSwitch
  <2>2. ListsKept(T!State, xTickCount, xTickCount, out)
    BY <1>1, <2>1, KeptLater
  <2>3. T!Sampled(T!State) = T!State
    BY <1>3 DEF T!Sampled
  <2> QED BY <1>1, <2>2, <2>3 DEF TimersShrink
<1> QED BY <1>2, <1>3

\* Deleted timers, where no message comes or goes.
LEMMA DeletingFrame ==
  ASSUME DeletedTimers, deleted' \subseteq deleted, UNCHANGED << xTimerQueue, xMessage >>,
         \A t \in deleted' : active'[t] => active[t]
  PROVE  DeletedTimers'
BY DEF DeletedTimers, DeletedLast

\* Only the timers count that are left out.
LEMMA SameLeftOut ==
  ASSUME NEW s, NEW at, NEW from, NEW out, NEW without, ListsKept(s, at, from, out),
         \A t \in Timer : t \in out <=> t \in without
  PROVE  ListsKept(s, at, from, without)
BY DEF ListsKept

\* The timer of a command changes.
LEMMA OneChanges ==
  ASSUME NEW s \in TimerSheet, NEW at, NEW from, NEW out,
         ListsKept(s, at, from, out), NEW t \in out, NEW r,
         r.current = s.current, r.overflow = s.overflow,
         \A u \in Timer : u # t => /\ r.active[u] = s.active[u] /\ r.due[u] = s.due[u]
                                   /\ r.period[u] = s.period[u],
         r.due[t] <= r.period[t]
  PROVE  ListsKept(r, at, from, out)
<1>1. \A i \in T!ToSet(s.current) \cup T!ToSet(s.overflow) : i.timer # t
      /\ i.timer \in Timer
  BY SheetTypes DEF ListsKept
<1> QED BY <1>1 DEF ListsKept

\* A period leaves room for the lag.
LEMMA PeriodsFit ==
  ASSUME NEW t \in Timer, NEW periods \in [Timer -> Periods]
  PROVE  MaxLag < TickMod /\ MaxLag \in Int
<1>1. periods[t] \in Periods
  OBVIOUS
<1>2. PICK p \in Periods : p \in Nat /\ p + MaxLag < TickMod
  BY <1>1, TimersConstants
<1> QED BY <1>2, TimersConstants

\* A time sample is taken.
LEMMA SampleTaken ==
  ASSUME TimerTypes, xLastTime' = xTickCount, UNCHANGED xTickCount,
         T!State' \in TimerSheet, NEW out, ListsKept(T!State', xTickCount, xTickCount, out),
         \A t \in Timer : t \in out <=> t = xMessage'.timer, lag' \in 0..MaxLag
  PROVE  TimersKept' /\ ServiceInTime' /\ xLastTime' \in T!Tick /\ TicksPassed' = 0
         /\ xTickCount' \in T!Tick
<1>1. /\ xTickCount \in Int /\ 0 <= xTickCount /\ xTickCount < TickMod /\ TickMod \in Int
      /\ xTickCount \in T!Tick
  BY ClockFacts DEF TimerTypes
<1>2. TicksPassed' = 0 /\ TimersNow' = xTickCount
  <2>1. xTickCount' - xLastTime' = 0
    BY <1>1
  <2>2. T!Mod(0) = 0
    BY <1>1, TicksOf
  <2>3. TicksPassed' = 0
    BY <2>1, <2>2 DEF TicksPassed, T!Mod
  <2> QED BY <1>1, <2>3 DEF TimersNow
<1>3. ListsKept(T!State, TimersNow, xLastTime, {xMessage.timer})'
  <2>1. ListsKept(T!State', xTickCount, xTickCount, {xMessage'.timer})
    BY SameLeftOut
  <2>2. TimersNow' = xTickCount /\ xLastTime' = xTickCount
    BY <1>2
  <2> QED BY <2>1, <2>2 DEF ListsKept, T!Sorted, T!ToSet
<1>4. ServiceInTime'
  <2> SUFFICES ASSUME T!Items' # {} PROVE (TicksPassed <= TickMod - 1 - MaxLag + lag)'
    BY DEF ServiceInTime
  <2>1. T!State'.period \in [Timer -> Periods] /\ \E t \in Timer : TRUE
    <3>1. T!Items' = T!ToSet(T!State'.current) \cup T!ToSet(T!State'.overflow)
      BY DEF T!State, T!Items
    <3> QED BY <3>1, SheetTypes DEF TimerSheet
  <2>2. MaxLag < TickMod /\ MaxLag \in Int
    BY <2>1, PeriodsFit
  <2> DEFINE l == lag'
  <2>3. l \in Int /\ 0 <= l
    BY <2>2
  <2> HIDE DEF l
  <2>4. 0 <= TickMod - 1 - MaxLag + l
    BY <1>1, <2>2, <2>3
  <2>5. TicksPassed' <= TickMod - 1 - MaxLag + l
    BY <1>2, <2>4
  <2> QED BY <2>5 DEF l
<1> QED BY <1>1, <1>2, <1>3, <1>4 DEF TimersKept

\* prvProcessTimerOrBlockTask
LEMMA ServiceLoop ==
  ASSUME TimersInv, T!prvProcessTimerOrBlockTask
  PROVE  TimersInv'
<1>1. /\ pc = "loop" /\ xLastTime' = xTickCount /\ lag' = 0 /\ T!Becomes(T!Sampled(T!State))
      /\ UNCHANGED << xTickCount, xTimerQueue, autoReload, xMessage, deleted >>
      /\ TimerTypes /\ xMessage = T!NoMessage
  BY DEF T!prvProcessTimerOrBlockTask, TimersInv, ServiceHandling
<1>2. /\ T!Sampled(T!State) \in TimerSheet
      /\ ListsKept(T!Sampled(T!State), xTickCount, xTickCount, {xMessage.timer})
      /\ TimersShrink(T!State, T!Sampled(T!State), {xMessage.timer})
      /\ ~T!ListsSwitch => T!Sampled(T!State) = T!State
  BY <1>1, SampledKeeps DEF TimersInv, TimersKept
<1>3. T!State' = T!Sampled(T!State)
  BY <1>1, <1>2, BecomesState
<1>4. lag' \in 0..MaxLag
  BY <1>1, TimersConstants
<1>5. TimersKept' /\ ServiceInTime' /\ xLastTime' \in T!Tick /\ xTickCount' \in T!Tick
  BY <1>1, <1>2, <1>3, <1>4, SampleTaken
<1>6. pc' \in {"receive", "expired", "blocked"}
  BY DEF T!prvProcessTimerOrBlockTask
<1>7. TimerTypes' /\ ServiceHandling'
  <2>1. pc' \in {"loop", "blocked", "expired", "receive", "command"} /\ pc' # "command"
    BY <1>6
  <2>2. T!State' \in TimerSheet
    BY <1>2, <1>3
  <2> QED BY <1>1, <1>4, <1>5, <2>1, <2>2 DEF TimerTypes, ServiceHandling, T!NoMessage
<1>8. /\ xTickCount \in Int
      /\ ~T!ListsSwitch => /\ pxCurrentTimerList' = pxCurrentTimerList
                           /\ pxOverflowTimerList' = pxOverflowTimerList
  BY <1>1, <1>2, <1>3, ClockFacts DEF T!State
<1>9. ServiceAsleep'
  <2> SUFFICES ASSUME pc' = "blocked"
               PROVE  (/\ lag = 0 /\ xTimerQueue = << >> /\ wakeTime = T!NextExpireTime
                       /\ T!Items # {} => xLastTime <= xTickCount
                       /\ pxCurrentTimerList # << >> =>
                            xTickCount < Head(pxCurrentTimerList).xItemValue)'
    BY DEF ServiceAsleep
  <2>1. /\ ~T!ListsSwitch /\ ~(pxCurrentTimerList # << >> /\ T!NextExpireTime <= xTickCount)
        /\ xTimerQueue = << >> /\ wakeTime' = T!NextExpireTime
    BY DEF T!prvProcessTimerOrBlockTask
  <2>2. T!NextExpireTime' = T!NextExpireTime
    BY <1>8, <2>1 DEF T!NextExpireTime, T!Forever
  <2>3. pxCurrentTimerList # << >> => xTickCount < Head(pxCurrentTimerList).xItemValue
    <3> SUFFICES ASSUME pxCurrentTimerList # << >>
                 PROVE  xTickCount < Head(pxCurrentTimerList).xItemValue
      OBVIOUS
    <3>1. Head(pxCurrentTimerList) \in TimerItem
      BY <1>1, FirstOfList, StateParts, TimersConstants DEF TimerTypes, TimersInv,
                                                            TimersKept, ListsKept,
                                                            TimerSheet
    <3>2. Head(pxCurrentTimerList).xItemValue \in Int
      BY <3>1, TimerItemTypes, TimersConstants
    <3>3. ~(Head(pxCurrentTimerList).xItemValue <= xTickCount)
      BY <2>1 DEF T!NextExpireTime
    <3> QED BY <1>8, <3>2, <3>3
  <2> QED BY <1>1, <1>8, <2>1, <2>2, <2>3
<1>10. ServiceExpiring'
  <2> SUFFICES ASSUME pc' = "expired"
               PROVE  (/\ pxCurrentTimerList # << >> /\ xTimeNow = xLastTime
                       /\ Head(pxCurrentTimerList).xItemValue <= xTimeNow)'
    BY DEF ServiceExpiring
  <2>1. ~T!ListsSwitch /\ pxCurrentTimerList # << >> /\ T!NextExpireTime <= xTickCount
        /\ xTimeNow' = xTickCount
    BY DEF T!prvProcessTimerOrBlockTask
  <2> QED BY <1>1, <1>8, <2>1 DEF T!NextExpireTime
<1>11. DeletedTimers'
  <2>1. \A t \in Timer : active'[t] => active[t]
    BY <1>2, <1>3 DEF TimersShrink, T!State
  <2>2. deleted' = deleted /\ \A t \in deleted' : active'[t] => active[t]
    BY <1>1, <2>1 DEF TimersInv, DeletedTimers
  <2> QED BY <1>1, <2>2, DeletingFrame DEF TimersInv
<1> QED BY <1>5, <1>7, <1>9, <1>10, <1>11 DEF TimersInv

\* ProcessExpired
LEMMA ServiceExpires ==
  ASSUME TimersInv, T!ProcessExpired
  PROVE  TimersInv'
<1>1. /\ pc = "expired" /\ T!Becomes(T!prvProcessExpiredTimer(T!State, xTimeNow))
      /\ pc' = "receive"
      /\ UNCHANGED << xTickCount, xTimerQueue, autoReload, xMessage, xLastTime, wakeTime,
                      deleted, lag >>
      /\ TimerTypes /\ xMessage = T!NoMessage
      /\ xTimeNow = xLastTime
      /\ T!State.current # << >> /\ Head(T!State.current).xItemValue <= xTimeNow
  BY DEF T!ProcessExpired, TimersInv, ServiceHandling, ServiceExpiring, T!State
<1> DEFINE r == T!prvProcessExpiredTimer(T!State, xLastTime)
<1>2. r \in TimerSheet /\ ListsKept(r, TimersNow, xLastTime, {xMessage.timer})
      /\ TimersShrink(T!State, r, {xMessage.timer})
  <2>1. xLastTime \in T!Tick /\ xLastTime \in Int /\ TimersNow \in Int
        /\ xLastTime <= TimersNow
        /\ T!State \in TimerSheet /\ autoReload \in [Timer -> BOOLEAN]
        /\ ListsKept(T!State, TimersNow, xLastTime, {xMessage.timer})
    BY <1>1, ClockFacts DEF TimerTypes, TimersInv, TimersKept
  <2>2. xLastTime <= xLastTime /\ Head(T!State.current).xItemValue <= xLastTime
    BY <1>1, <2>1
  <2> QED BY <1>1, <2>1, <2>2, ProcessKeeps
<1>3. T!State' = r
  BY <1>1, <1>2, BecomesState
<1> HIDE DEF r
<1>4. TicksPassed' = TicksPassed /\ TimersNow' = TimersNow
  BY <1>1 DEF TicksPassed, TimersNow, T!Mod
<1>5. TimersKept'
  BY <1>1, <1>2, <1>3, <1>4 DEF TimersKept, ListsKept, T!Sorted, T!ToSet
<1>6. ServiceInTime'
  <2>1. T!Items # {}
    <3>1. Head(T!State.current) \in T!ToSet(T!State.current)
      BY <1>1, FirstOfList, TimersConstants DEF TimerTypes, TimersInv, TimersKept,
                                                ListsKept, TimerSheet
    <3> QED BY <3>1, StateParts
  <2> QED BY <1>1, <1>4, <2>1 DEF ServiceInTime, TimersInv
<1>7. TimerTypes' /\ ServiceHandling'
  BY <1>1, <1>2, <1>3 DEF TimerTypes, ServiceHandling, T!NoMessage
<1>8. ServiceAsleep' /\ ServiceExpiring'
  BY <1>1 DEF ServiceAsleep, ServiceExpiring
<1>9. DeletedTimers'
  <2>1. \A t \in Timer : active'[t] => active[t]
    BY <1>2, <1>3 DEF TimersShrink, T!State
  <2>2. deleted' = deleted /\ \A t \in deleted' : active'[t] => active[t]
    BY <1>1, <2>1 DEF TimersInv, DeletedTimers
  <2> QED BY <1>1, <2>2, DeletingFrame DEF TimersInv
<1> QED BY <1>5, <1>6, <1>7, <1>8, <1>9 DEF TimersInv

\* Commands are for a timer, calls are for none.
LEMMA MessageTypes ==
  /\ \A m \in TimerCommands :
       /\ m.timer \in Timer /\ m.id # "function" /\ m.timer # NoTimer
       /\ m.id = "start" => m.value \in T!Tick
       /\ m.id = "changePeriod" => m.value \in Periods
  /\ \A m \in PendedFunctions : m.id = "function" /\ m.timer = NoTimer
BY TimersConstants DEF TimerCommands, PendedFunctions

\* What was sent for a timer, after the first message has left.
LEMMA FirstReceived ==
  ASSUME NEW S, NEW q \in Seq(S), q # << >>
  PROVE  /\ Tail(q) \in Seq(S) /\ Len(Tail(q)) = Len(q) - 1 /\ Len(q) \in Nat
         /\ 1 \in 1..Len(q)
         /\ Head(q) = q[1] /\ q[1] \in S
         /\ \A i \in 1..(Len(q) - 1) : Tail(q)[i] = q[i + 1] /\ i + 1 \in 1..Len(q)
         /\ \A i \in 1..Len(q) : i # 1 => i - 1 \in 1..(Len(q) - 1) /\ (i - 1) + 1 = i
OBVIOUS

\* prvProcessReceivedCommands receives a message.
LEMMA ServiceReceives ==
  ASSUME TimersInv, T!Receive
  PROVE  TimersInv'
<1> DEFINE m == Head(xTimerQueue)
           q == xTimerQueue
<1>1. /\ pc = "receive" /\ q # << >> /\ xTimerQueue' = Tail(q)
      /\ UNCHANGED << xTickCount, xTimeNow, xLastTime, wakeTime, deleted, lag >>
      /\ TimerTypes /\ xMessage = T!NoMessage
      /\ q \in Seq(TimerCommands \cup PendedFunctions)
      /\ m.id = "function" => UNCHANGED << pc, xMessage, T!timers >>
      /\ m.id # "function" => /\ T!Becomes(T!Unlisted(T!State, m.timer)) /\ xMessage' = m
                              /\ pc' = "command" /\ UNCHANGED autoReload
  BY DEF T!Receive, TimersInv, ServiceHandling, TimerTypes
<1>2. /\ Tail(q) \in Seq(TimerCommands \cup PendedFunctions)
      /\ Len(Tail(q)) = Len(q) - 1 /\ Len(q) \in Nat
      /\ 1 \in 1..Len(q) /\ m = q[1] /\ q[1] \in TimerCommands \cup PendedFunctions
      /\ \A i \in 1..(Len(q) - 1) : Tail(q)[i] = q[i + 1] /\ i + 1 \in 1..Len(q)
      /\ \A i \in 1..Len(q) : i # 1 => i - 1 \in 1..(Len(q) - 1) /\ (i - 1) + 1 = i
  BY <1>1, FirstReceived
<1> HIDE DEF m
<1>3. /\ m.id = "function" => m.timer = NoTimer
      /\ m.id # "function" => m \in TimerCommands /\ m.timer \in Timer
  BY <1>2, MessageTypes
<1>4. TicksPassed' = TicksPassed /\ TimersNow' = TimersNow
  BY <1>1 DEF TicksPassed, TimersNow, T!Mod
<1>5. /\ TimerTypes' /\ ServiceHandling' /\ TimersKept' /\ ServiceInTime'
      /\ pc' \in {"receive", "command"}
      /\ \A t \in Timer : active'[t] = active[t]
  <2>1. CASE m.id = "function"
    <3>1. T!State' = T!State /\ T!Items' = T!Items
      BY <1>1, <2>1 DEF T!timers, T!State, T!Items
    <3>2. TimerTypes'
      BY <1>1, <1>2, <2>1, <3>1 DEF TimerTypes, T!timers
    <3>3. TimersKept'
      BY <1>1, <1>4, <2>1, <3>1 DEF TimersKept, TimersInv, ListsKept, T!Sorted, T!ToSet
    <3> QED BY <1>1, <1>4, <2>1, <3>1, <3>2, <3>3 DEF ServiceHandling, ServiceInTime,
                                                      TimersInv, T!timers, T!NoMessage
  <2>2. CASE m.id # "function"
    <3> DEFINE r == T!Unlisted(T!State, m.timer)
    <3>1. /\ r \in TimerSheet
          /\ ListsKept(r, TimersNow, xLastTime, {xMessage.timer} \cup {m.timer})
          /\ r.active = T!State.active
          /\ T!ToSet(r.current) \subseteq T!ToSet(T!State.current)
          /\ T!ToSet(r.overflow) \subseteq T!ToSet(T!State.overflow)
      <4>1. /\ T!State \in TimerSheet
            /\ ListsKept(T!State, TimersNow, xLastTime, {xMessage.timer})
            /\ TimersNow \in Int /\ xLastTime \in Int
        BY <1>1, ClockFacts DEF TimerTypes, TimersInv, TimersKept
      <4> QED BY <1>3, <2>2, <4>1, UnlistedKeeps
    <3>2. T!State' = r
      BY <1>1, <2>2, <3>1, BecomesState
    <3> HIDE DEF r
    <3>3. ListsKept(r, TimersNow, xLastTime, {m.timer})
      <4>1. \A t \in Timer : t \in {xMessage.timer} \cup {m.timer} <=> t \in {m.timer}
        BY <1>1, TimersConstants DEF T!NoMessage
      <4> DEFINE o == {xMessage.timer} \cup {m.timer}
                 w == {m.timer}
      <4>2. ListsKept(r, TimersNow, xLastTime, o) /\ \A t \in Timer : t \in o <=> t \in w
        BY <3>1, <4>1
      <4> HIDE DEF o, w
      <4>3. ListsKept(r, TimersNow, xLastTime, w)
        BY <4>2, SameLeftOut
      <4> QED BY <4>3 DEF w
    <3>4. TimersKept'
      BY <1>1, <1>4, <2>2, <3>2, <3>3 DEF TimersKept, ListsKept, T!Sorted, T!ToSet
    <3>5. T!Items' \subseteq T!Items
      <4>1. T!Items' = T!ToSet(r.current) \cup T!ToSet(r.overflow)
        BY <3>2 DEF T!State, T!Items
      <4> QED BY <3>1, <4>1, StateParts
    <3>6. ServiceInTime'
      BY <1>1, <1>4, <3>5 DEF ServiceInTime, TimersInv
    <3>7. TimerTypes'
      BY <1>1, <1>2, <2>2, <3>1, <3>2 DEF TimerTypes
    <3>8. active' = active
      BY <3>1, <3>2 DEF T!State
    <3> QED BY <1>1, <1>3, <2>2, <3>4, <3>6, <3>7, <3>8 DEF ServiceHandling
  <2> QED BY <2>1, <2>2
<1>6. ServiceAsleep' /\ ServiceExpiring'
  BY <1>5 DEF ServiceAsleep, ServiceExpiring
<1>7. DeletedTimers'
  <2>1. ASSUME NEW t \in deleted PROVE DeletedLast(t)'
    <3>0. t \in Timer /\ t # NoTimer
      BY TimersConstants DEF TimersInv, DeletedTimers
    <3>1. Len(xTimerQueue') = Len(q) - 1
      BY <1>1, <1>2
    <3>2. CASE \E i \in 1..Len(q) : /\ q[i].timer = t /\ q[i].id = "delete"
                                    /\ \A j \in 1..Len(q) : i < j => q[j].timer # t
      <4>1. PICK i \in 1..Len(q) : /\ q[i].timer = t /\ q[i].id = "delete"
                                   /\ \A j \in 1..Len(q) : i < j => q[j].timer # t
        BY <3>2
      <4>2. CASE i = 1
        <5>1. m.timer = t /\ m.id = "delete"
          BY <1>2, <4>1, <4>2
        <5>2. xMessage'.timer = t /\ xMessage'.id = "delete"
          BY <1>1, <5>1
        <5>3. ASSUME NEW j \in 1..(Len(q) - 1) PROVE xTimerQueue'[j].timer # t
          <6>1. j + 1 \in 1..Len(q) /\ 1 < j + 1 /\ xTimerQueue'[j] = q[j + 1]
            BY <1>1, <1>2
          <6> QED BY <4>1, <4>2, <6>1
        <5> QED BY <3>1, <5>2, <5>3 DEF DeletedLast
      <4>3. CASE i # 1
        <5>1. i - 1 \in 1..(Len(q) - 1) /\ (i - 1) + 1 = i
          BY <1>2, <4>3
        <5>2. xTimerQueue'[i - 1] = q[i]
          BY <1>1, <1>2, <5>1
        <5>3. ASSUME NEW j \in 1..(Len(q) - 1), i - 1 < j PROVE xTimerQueue'[j].timer # t
          <6>1. j + 1 \in 1..Len(q) /\ i < j + 1 /\ xTimerQueue'[j] = q[j + 1]
            BY <1>1, <1>2, <5>1, <5>3
          <6> QED BY <4>1, <6>1
        <5> QED BY <3>1, <4>1, <5>1, <5>2, <5>3 DEF DeletedLast
      <4> QED BY <4>2, <4>3
    <3>3. CASE /\ \A i \in 1..Len(q) : q[i].timer # t
               /\ IF xMessage.timer = t THEN xMessage.id = "delete" ELSE ~active[t]
      <4>1. ~active[t] /\ m.timer # t
        BY <1>1, <1>2, <3>0, <3>3 DEF T!NoMessage
      <4>2. ~active'[t] /\ xMessage'.timer # t
        BY <1>1, <1>5, <3>0, <4>1 DEF T!NoMessage
      <4>3. ASSUME NEW j \in 1..(Len(q) - 1) PROVE xTimerQueue'[j].timer # t
        <5>1. j + 1 \in 1..Len(q) /\ xTimerQueue'[j] = q[j + 1]
          BY <1>1, <1>2
        <5> QED BY <3>3, <5>1
      <4> QED BY <3>1, <4>2, <4>3 DEF DeletedLast
    <3>4. DeletedLast(t)
      BY DEF TimersInv, DeletedTimers
    <3> QED BY <3>2, <3>3, <3>4 DEF DeletedLast
  <2> QED BY <1>1, <2>1 DEF TimersInv, DeletedTimers
<1> QED BY <1>5, <1>6, <1>7 DEF TimersInv

\* NoneReceived
LEMMA ServiceGoesOn ==
  ASSUME TimersInv, T!NoneReceived
  PROVE  TimersInv'
<1>1. /\ pc = "receive" /\ pc' = "loop"
      /\ UNCHANGED << xTickCount, xTimerQueue, T!timers, xTimeNow, xMessage, xLastTime,
                      wakeTime, deleted, lag >>
  BY DEF T!NoneReceived
<1>2. T!State' = T!State /\ T!Items' = T!Items /\ TicksPassed' = TicksPassed
      /\ TimersNow' = TimersNow
  BY <1>1 DEF T!timers, T!State, T!Items, TicksPassed, TimersNow, T!Mod
<1>3. TimerTypes' /\ ServiceHandling' /\ TimersKept' /\ ServiceInTime' /\ ServiceAsleep'
      /\ ServiceExpiring'
  BY <1>1, <1>2 DEF TimersInv, TimerTypes, ServiceHandling, TimersKept, ListsKept,
                    T!Sorted, T!ToSet,
     ServiceInTime, ServiceAsleep, ServiceExpiring, T!timers
<1>4. DeletedTimers'
  BY <1>1, DeletingFrame DEF TimersInv, T!timers
<1> QED BY <1>3, <1>4 DEF TimersInv

\* A start counts from the tick of its request.
LEMMA StartKeeps ==
  ASSUME TimerTypes, NEW s \in TimerSheet, NEW t \in Timer,
         ListsKept(s, xTickCount, xTickCount, {t}), xMessage.value \in T!Tick
  PROVE  LET r == T!Start(t, s)
         IN /\ r \in TimerSheet /\ ListsKept(r, xTickCount, xTickCount, {})
            /\ \A u \in Timer : u # t => r.active[u] = s.active[u]
<1> DEFINE now == xTickCount
           v == xMessage.value
           p == s.period[t]
           e == T!Mod(now - v)
           x == now - e
           b == [s EXCEPT !.active[t] = TRUE, !.due[t] = p - e]
           next == T!Mod(v + p)
           y == x + p
           r == T!Start(t, s)
<1>1. /\ p \in 1..(TickMod - 1) /\ p \in Int /\ 1 <= p /\ s.due \in [Timer -> Int]
      /\ p < TickMod
      /\ s.active \in [Timer -> BOOLEAN] /\ s.period \in [Timer -> Periods]
      /\ TickMod \in Int /\ TickMod >= 3 /\ now \in T!Tick /\ now \in Int /\ 0 <= now
      /\ now < TickMod
      /\ v \in Int /\ 0 <= v /\ v < TickMod /\ autoReload \in [Timer -> BOOLEAN]
  <2>1. /\ TickMod \in Int /\ TickMod >= 3 /\ now \in T!Tick /\ now \in Int /\ 0 <= now
        /\ now < TickMod /\ autoReload \in [Timer -> BOOLEAN]
    BY ClockFacts DEF TimerTypes
  <2>2. v \in Int /\ 0 <= v /\ v < TickMod
    BY <2>1 DEF T!Tick
  <2>3. /\ s.due \in [Timer -> Int] /\ s.active \in [Timer -> BOOLEAN]
        /\ s.period \in [Timer -> Periods] /\ p \in 1..(TickMod - 1)
    BY SheetTypes
  <2> HIDE DEF p, v
  <2>4. p \in Int /\ 1 <= p /\ p < TickMod
    BY <2>1, <2>3
  <2> QED BY <2>1, <2>2, <2>3, <2>4
<1> HIDE DEF p
<1>2. /\ v <= now => e = now - v
      /\ ~(v <= now) => e = now - v + TickMod
      /\ e \in Int /\ 0 <= e /\ e < TickMod
  <2>1. now - v \in Int /\ -TickMod <= now - v /\ now - v < TickMod
    BY <1>1
  <2>2. /\ now - v < 0 => e = now - v + TickMod
        /\ 0 <= now - v => e = now - v
    BY <1>1, <2>1, TicksOf
  <2> QED BY <1>1, <2>2
<1> HIDE DEF e
<1>3. x \in Int /\ now - TickMod < x /\ x <= now /\ y \in Int /\ y = x + p
  BY <1>1, <1>2
<1>4. T!Mod(x) = v /\ next = T!Mod(y)
  <2>1. CASE v <= now
    <3>1. x = v
      BY <1>1, <1>2, <2>1
    <3> QED BY <1>1, <3>1, TicksOf
  <2>2. CASE ~(v <= now)
    <3>1. x = v - TickMod
      BY <1>1, <1>2, <2>2
    <3>2. T!Mod(x) = v
      BY <1>1, <1>2, <2>2, <3>1, TicksOf
    <3>3. /\ y = v + p - TickMod /\ -TickMod <= y /\ y < TickMod
      BY <1>1, <3>1
    <3>4. /\ v + p < TickMod => T!Mod(y) = y + TickMod /\ next = v + p
          /\ ~(v + p < TickMod) => T!Mod(y) = y /\ next = v + p - TickMod
      BY <1>1, <1>3, <3>3, TicksOf
    <3>5. next = T!Mod(y)
      <4> DEFINE z == T!Mod(y)
      <4>1. /\ v + p < TickMod => z = y + TickMod /\ next = v + p
            /\ ~(v + p < TickMod) => z = y /\ next = v + p - TickMod
        BY <3>4
      <4> HIDE DEF z, next, y
      <4>2. next = z
        BY <1>1, <1>3, <3>3, <4>1
      <4> QED BY <4>2 DEF z
    <3> QED BY <3>2, <3>5
  <2> QED BY <2>1, <2>2
<1>5. r = IF T!AlreadyPassed(t, b, next, now, v) THEN T!Expires(t, b, next, now)
          ELSE T!Inserted(t, b, next, now)
  BY DEF T!Start, T!CommandTime, p, e
<1>6. /\ b \in TimerSheet /\ b.active[t] /\ b.due[t] = y - now /\ b.period[t] = p
      /\ ListsKept(b, now, now, {t})
      /\ \A u \in Timer : u # t => b.active[u] = s.active[u]
  <2> DEFINE d == p - e
  <2>1. d \in Int /\ d <= p /\ d = y - now
    BY <1>1, <1>2
  <2>2. b = [s EXCEPT !.active[t] = TRUE, !.due[t] = d]
    OBVIOUS
  <2> HIDE DEF d, b, y
  <2>3. /\ b \in TimerSheet /\ b.active = [s.active EXCEPT ![t] = TRUE]
        /\ b.due = [s.due EXCEPT ![t] = d] /\ b.period = s.period
        /\ b.current = s.current /\ b.overflow = s.overflow
    BY <2>1, <2>2 DEF TimerSheet
  <2>4. /\ b.active[t] /\ b.due[t] = d
        /\ \A u \in Timer : u # t => b.active[u] = s.active[u] /\ b.due[u] = s.due[u]
    BY <1>1, <2>3
  <2>5. ListsKept(b, now, now, {t})
    <3>1. t \in {t} /\ b.due[t] <= b.period[t]
      BY <2>1, <2>3, <2>4 DEF p
    <3> QED BY <2>3, <2>4, <3>1, OneChanges
  <2> QED BY <2>1, <2>3, <2>4, <2>5 DEF p
<1>7. {t} \ {t} = {} /\ t \in {t} /\ now <= now
  BY <1>1
<1>8. /\ T!AlreadyPassed(t, b, T!Mod(x + p), now, T!Mod(x)) <=> x + p <= now
      /\ x + p > now => StandsFor(T!Mod(x + p), x + p, now)
  <2> HIDE DEF b, x
  <2> QED BY <1>1, <1>3, <1>6, PassedOrNot
<1>9. /\ T!AlreadyPassed(t, b, next, now, v) <=> y <= now
      /\ y > now => StandsFor(next, y, now)
  BY <1>4, <1>8
<1> HIDE DEF b, r, next, y
<1>10. CASE y <= now
  <2>1. LET q == T!Expires(t, b, T!Mod(y), now)
        IN /\ q \in TimerSheet /\ ListsKept(q, now, now, {t} \ {t}) /\ OthersStay(b, q, t)
           /\ now = TickMod - 1 => q.current = b.current
    <3>1. now - TickMod < y
      BY <1>1, <1>3
    <3> DEFINE o == {t}
    <3>2. t \in o /\ ListsKept(b, now, now, o)
      BY <1>6
    <3>4. /\ b \in TimerSheet /\ t \in Timer /\ b.active[t] /\ b.due[t] = y - now
          /\ now \in T!Tick /\ now \in Int /\ y \in Int /\ now - TickMod < y /\ y <= now
          /\ now <= now /\ autoReload \in [Timer -> BOOLEAN]
      BY <1>1, <1>3, <1>6, <1>7, <1>10, <3>1
    <3> HIDE DEF x, o, now
    <3>3. LET q == T!Expires(t, b, T!Mod(y), now)
          IN /\ q \in TimerSheet /\ ListsKept(q, now, now, o \ {t}) /\ OthersStay(b, q, t)
             /\ now = TickMod - 1 => q.current = b.current
      BY ONLY <3>2, <3>4, ExpiresKeeps
    <3> QED BY <3>3 DEF o
  <2>2. r = T!Expires(t, b, T!Mod(y), now)
    BY <1>4, <1>5, <1>9, <1>10
  <2> QED BY <1>6, <1>7, <2>1, <2>2 DEF OthersStay, r
<1>11. CASE ~(y <= now)
  <2>1. r = T!Inserted(t, b, next, now) /\ StandsFor(next, y, now) /\ y <= now + b.period[t]
    BY <1>1, <1>3, <1>5, <1>6, <1>9, <1>11
  <2>2. /\ ListsKept(T!Inserted(t, b, next, now), now, now, {t} \ {t})
        /\ T!Inserted(t, b, next, now) \in TimerSheet
        /\ T!Inserted(t, b, next, now).active = b.active
    <3> DEFINE o == {t}
    <3>1. t \in o /\ ListsKept(b, now, now, o)
      BY <1>6
    <3>3. b.due[t] = y - now /\ y \in Int /\ now \in Int /\ b.active[t] /\ b \in TimerSheet
      BY <1>1, <1>3, <1>6
    <3> HIDE DEF x, o, now
    <3>2. /\ ListsKept(T!Inserted(t, b, next, now), now, now, o \ {t})
          /\ T!Inserted(t, b, next, now) \in TimerSheet
          /\ T!Inserted(t, b, next, now).active = b.active
      BY <2>1, <3>1, <3>3, InsertKeeps
    <3> QED BY <3>2 DEF o
  <2> QED BY <1>6, <1>7, <2>1, <2>2 DEF r
<1> QED BY <1>10, <1>11

\* A period that is changed counts from now.
LEMMA ChangeKeeps ==
  ASSUME TimerTypes, NEW s \in TimerSheet, NEW t \in Timer,
         ListsKept(s, xTickCount, xTickCount, {t}), xMessage.value \in Periods
  PROVE  LET r == T!ChangePeriod(t, s)
         IN /\ r \in TimerSheet /\ ListsKept(r, xTickCount, xTickCount, {})
            /\ \A u \in Timer : u # t => r.active[u] = s.active[u]
<1> DEFINE now == xTickCount
           p == xMessage.value
           b == [s EXCEPT !.active[t] = TRUE, !.period[t] = p, !.due[t] = p]
           y == now + p
           next == T!Mod(y)
           r == T!ChangePeriod(t, s)
<1>1. /\ p \in 1..(TickMod - 1) /\ p \in Int /\ 1 <= p /\ s.due \in [Timer -> Int]
      /\ p < TickMod /\ p \in Periods
      /\ s.active \in [Timer -> BOOLEAN] /\ s.period \in [Timer -> Periods]
      /\ TickMod \in Int /\ TickMod >= 3 /\ now \in T!Tick /\ now \in Int /\ 0 <= now
      /\ now < TickMod
  <2>1. /\ TickMod \in Int /\ TickMod >= 3 /\ now \in T!Tick /\ now \in Int /\ 0 <= now
        /\ now < TickMod
    BY ClockFacts DEF TimerTypes
  <2>2. /\ s.due \in [Timer -> Int] /\ s.active \in [Timer -> BOOLEAN]
        /\ s.period \in [Timer -> Periods]
    BY SheetTypes
  <2>3. p \in 1..(TickMod - 1) /\ p \in Int /\ 1 <= p /\ p < TickMod /\ p \in Periods
    BY PeriodTypes
  <2> QED BY <2>1, <2>2, <2>3
<1>2. r = IF T!AlreadyPassed(t, b, next, now, now) THEN b ELSE T!Inserted(t, b, next, now)
  BY DEF T!ChangePeriod
<1> HIDE DEF p, r
<1>3. /\ b \in TimerSheet /\ b.active[t] /\ b.due[t] = p /\ b.period[t] = p
      /\ ListsKept(b, now, now, {t})
      /\ \A u \in Timer : u # t => b.active[u] = s.active[u]
  <2>1. b = [s EXCEPT !.active[t] = TRUE, !.period[t] = p, !.due[t] = p]
    OBVIOUS
  <2> HIDE DEF b
  <2>2. /\ b \in TimerSheet /\ b.active = [s.active EXCEPT ![t] = TRUE]
        /\ b.due = [s.due EXCEPT ![t] = p] /\ b.period = [s.period EXCEPT ![t] = p]
        /\ b.current = s.current /\ b.overflow = s.overflow
    BY <1>1, <2>1 DEF TimerSheet
  <2>3. /\ b.active[t] /\ b.due[t] = p /\ b.period[t] = p
        /\ \A u \in Timer : u # t => /\ b.active[u] = s.active[u] /\ b.due[u] = s.due[u]
                                     /\ b.period[u] = s.period[u]
    BY <1>1, <2>2
  <2>4. t \in {t} /\ b.due[t] <= b.period[t]
    BY <1>1, <2>3
  <2>5. ListsKept(b, now, now, {t})
    BY <2>2, <2>3, <2>4, OneChanges
  <2> QED BY <2>2, <2>3, <2>5
<1>4. {t} \ {t} = {} /\ t \in {t} /\ now <= now /\ T!Mod(now) = now
      /\ now - TickMod < now /\ y \in Int /\ y > now /\ p = y - now
  BY <1>1, TicksOf
<1>5. /\ T!AlreadyPassed(t, b, T!Mod(now + p), now, T!Mod(now)) <=> now + p <= now
      /\ now + p > now => StandsFor(T!Mod(now + p), now + p, now)
  <2> HIDE DEF b
  <2> QED BY <1>1, <1>3, <1>4, PassedOrNot
<1>6. ~T!AlreadyPassed(t, b, next, now, now) /\ StandsFor(next, y, now)
  BY <1>1, <1>4, <1>5
<1>7. y <= now + b.period[t]
  BY <1>1, <1>3
<1> HIDE DEF b, next, y
<1>8. /\ ListsKept(T!Inserted(t, b, next, now), now, now, {t} \ {t})
      /\ T!Inserted(t, b, next, now) \in TimerSheet
      /\ T!Inserted(t, b, next, now).active = b.active
  <2> DEFINE o == {t}
  <2>1. /\ b \in TimerSheet /\ now \in Int /\ ListsKept(b, now, now, o) /\ t \in o
        /\ t \in Timer /\ b.active[t] /\ y \in Int /\ b.due[t] = y - now
        /\ y <= now + b.period[t] /\ StandsFor(next, y, now)
    BY <1>1, <1>3, <1>4, <1>6, <1>7
  <2> HIDE DEF o, now
  <2>2. /\ ListsKept(T!Inserted(t, b, next, now), now, now, o \ {t})
        /\ T!Inserted(t, b, next, now) \in TimerSheet
        /\ T!Inserted(t, b, next, now).active = b.active
    BY ONLY <2>1, InsertKeeps
  <2> QED BY <2>2 DEF o
<1>9. r = T!Inserted(t, b, next, now)
  BY <1>2, <1>6
<1> QED BY <1>3, <1>4, <1>8, <1>9 DEF r

\* A timer that is stopped or deleted rests.
LEMMA StopKeeps ==
  ASSUME NEW s \in TimerSheet, NEW t \in Timer, NEW at, NEW from,
         ListsKept(s, at, from, {t})
  PROVE  LET r == [s EXCEPT !.active[t] = FALSE]
         IN /\ r \in TimerSheet /\ ListsKept(r, at, from, {}) /\ r.active[t] = FALSE
            /\ \A u \in Timer : u # t => r.active[u] = s.active[u]
<1> DEFINE r == [s EXCEPT !.active[t] = FALSE]
<1>1. /\ r \in TimerSheet /\ r.active = [s.active EXCEPT ![t] = FALSE]
      /\ r.due = s.due /\ r.period = s.period
      /\ r.current = s.current /\ r.overflow = s.overflow
      /\ s.active \in [Timer -> BOOLEAN]
  BY DEF TimerSheet
<1> HIDE DEF r
<1>2. /\ r.active[t] = FALSE /\ \A u \in Timer : u # t => r.active[u] = s.active[u]
  BY <1>1
<1>3. ListsKept(r, at, from, {})
  <2>1. ASSUME NEW u \in Timer
        PROVE  (\E i \in T!ToSet(r.current) \cup T!ToSet(r.overflow) : i.timer = u)
                 <=> r.active[u] /\ u \notin {}
    <3>1. (\E i \in T!ToSet(s.current) \cup T!ToSet(s.overflow) : i.timer = u)
            <=> s.active[u] /\ u \notin {t}
      BY DEF ListsKept
    <3> QED BY <1>1, <1>2, <3>1
  <2> QED BY <1>1, <2>1 DEF ListsKept
<1> QED BY <1>1, <1>2, <1>3 DEF r

\* prvProcessReceivedCommands handles a command.
LEMMA ServiceHandles ==
  ASSUME TimersInv, T!ProcessCommand
  PROVE  TimersInv'
<1> DEFINE t == xMessage.timer
           s == T!Sampled(T!State)
           r == CASE xMessage.id = "start" -> T!Start(t, s)
                  [] xMessage.id = "changePeriod" -> T!ChangePeriod(t, s)
                  [] OTHER -> [s EXCEPT !.active[t] = FALSE]
<1>1. /\ pc = "command" /\ xLastTime' = xTickCount /\ T!Becomes(r)
      /\ pc' = "receive" /\ xMessage' = T!NoMessage
      /\ UNCHANGED << xTickCount, xTimerQueue, autoReload, xTimeNow, wakeTime, deleted,
                      lag >>
      /\ TimerTypes /\ xMessage \in TimerCommands
  BY DEF T!ProcessCommand, TimersInv, ServiceHandling
<1>2. /\ t \in Timer
      /\ xMessage.id = "start" => xMessage.value \in T!Tick
      /\ xMessage.id = "changePeriod" => xMessage.value \in Periods
  BY <1>1, MessageTypes
<1>3. /\ s \in TimerSheet /\ ListsKept(s, xTickCount, xTickCount, {t})
      /\ TimersShrink(T!State, s, {t})
  BY <1>1, SampledKeeps DEF TimersInv, TimersKept
<1> HIDE DEF t, s
<1>4. /\ r \in TimerSheet /\ ListsKept(r, xTickCount, xTickCount, {})
      /\ \A u \in Timer : u # t => r.active[u] = s.active[u]
      /\ xMessage.id = "delete" => r.active[t] = FALSE
  <2>1. CASE xMessage.id = "start"
    <3>1. r = T!Start(t, s)
      BY <2>1
    <3> HIDE DEF r
    <3> QED BY <1>1, <1>2, <1>3, <2>1, <3>1, StartKeeps
  <2>2. CASE xMessage.id = "changePeriod"
    <3>1. r = T!ChangePeriod(t, s)
      BY <2>2
    <3> HIDE DEF r
    <3> QED BY <1>1, <1>2, <1>3, <2>2, <3>1, ChangeKeeps
  <2>3. CASE xMessage.id \notin {"start", "changePeriod"}
    <3>1. r = [s EXCEPT !.active[t] = FALSE]
      BY <2>3
    <3> HIDE DEF r
    <3> QED BY <1>2, <1>3, <3>1, StopKeeps
  <2> QED BY <2>1, <2>2, <2>3
<1> HIDE DEF r
<1>5. T!State' = r
  BY <1>1, <1>4, BecomesState
<1>6. TimersKept' /\ ServiceInTime' /\ xLastTime' \in T!Tick /\ xTickCount' \in T!Tick
  <2>1. \A u \in Timer : u \in {} <=> u = xMessage'.timer
    BY <1>1, TimersConstants DEF T!NoMessage
  <2>2. lag' \in 0..MaxLag
    BY <1>1 DEF TimerTypes
  <2> DEFINE o == {}
  <2>3. ListsKept(T!State', xTickCount, xTickCount, o)
        /\ \A u \in Timer : u \in o <=> u = xMessage'.timer
    BY <1>4, <1>5, <2>1
  <2> HIDE DEF o
  <2> QED BY <1>1, <1>4, <1>5, <2>2, <2>3, SampleTaken
<1>7. TimerTypes' /\ ServiceHandling'
  BY <1>1, <1>4, <1>5, <1>6 DEF TimerTypes, ServiceHandling, T!NoMessage
<1>8. ServiceAsleep' /\ ServiceExpiring'
  BY <1>1 DEF ServiceAsleep, ServiceExpiring
<1>9. DeletedTimers'
  <2>1. ASSUME NEW u \in deleted PROVE DeletedLast(u)'
    <3>1. u \in Timer /\ u # NoTimer /\ DeletedLast(u)
      BY TimersConstants DEF TimersInv, DeletedTimers
    <3>2. active' = r.active /\ active = T!State.active
      BY <1>5 DEF T!State
    <3>3. CASE u = t
      <4>1. xMessage.id = "delete" => active'[u] = FALSE
        BY <1>4, <3>2, <3>3
      <4> QED BY <1>1, <3>1, <3>3, <4>1 DEF DeletedLast, T!NoMessage, t
    <3>4. CASE u # t
      <4>1. active'[u] => active[u]
        BY <1>3, <1>4, <3>1, <3>2, <3>4 DEF TimersShrink
      <4> QED BY <1>1, <3>1, <3>4, <4>1 DEF DeletedLast, T!NoMessage, t
    <3> QED BY <3>3, <3>4
  <2> QED BY <1>1, <2>1 DEF TimersInv, DeletedTimers
<1> QED BY <1>6, <1>7, <1>8, <1>9 DEF TimersInv
-----------------------------------------------------------------------------
(* Tasks and interrupts, and the tick.                                      *)

\* While the service task sleeps, the next tick is still before the time by which
\* it has to come to its lists.
LEMMA AsleepInTime ==
  ASSUME TimersInv, pc = "blocked", T!Items # {}
  PROVE  /\ xLastTime <= xTickCount
         /\ TicksPassed + 1 <= TickMod - 1 - MaxLag
         /\ pxCurrentTimerList = << >> => TickMod - xLastTime <= TickMod - 1 - MaxLag
         /\ pxCurrentTimerList # << >> => /\ wakeTime \in Int /\ xTickCount < wakeTime
                                          /\ wakeTime < TickMod
         /\ pxCurrentTimerList = << >> => wakeTime = 0
<1>1. /\ TimerTypes /\ ListsKept(T!State, TimersNow, xLastTime, {xMessage.timer})
      /\ T!State \in TimerSheet
      /\ xLastTime <= xTickCount /\ wakeTime = T!NextExpireTime
      /\ pxCurrentTimerList # << >> => xTickCount < Head(pxCurrentTimerList).xItemValue
  BY DEF TimersInv, TimerTypes, TimersKept, ServiceAsleep
<1>2. /\ xTickCount \in Int /\ xLastTime \in Int /\ TickMod \in Int /\ TickMod >= 3
      /\ 0 <= xTickCount /\ xTickCount < TickMod /\ 0 <= xLastTime /\ xLastTime < TickMod
      /\ TicksPassed = xTickCount - xLastTime
  BY <1>1, ClockFacts
<1>3. ASSUME NEW i \in T!Items
      PROVE  /\ i.timer \in Timer /\ i.xItemValue \in Int /\ 0 <= i.xItemValue
             /\ i.xItemValue < TickMod
             /\ T!State.period[i.timer] \in Int /\ MaxLag \in Int
             /\ T!State.period[i.timer] + MaxLag < TickMod
  <2>1. i.timer \in Timer /\ i.xItemValue \in T!Tick
        /\ T!State.period \in [Timer -> Periods]
    BY <1>1, StateParts, SheetTypes
  <2>2. T!State.period[i.timer] \in Periods
    BY <2>1
  <2> DEFINE p == T!State.period[i.timer]
             v == i.xItemValue
  <2> HIDE DEF p, v
  <2>3. p \in Int /\ MaxLag \in Int /\ p + MaxLag < TickMod
    <3>1. p \in Periods
      BY <2>2 DEF p
    <3> QED BY <3>1, TimersConstants
  <2>4. v \in Int /\ 0 <= v /\ v < TickMod
    BY <1>2, <2>1 DEF T!Tick, v
  <2> QED BY <2>1, <2>3, <2>4 DEF p, v
<1>4. CASE pxCurrentTimerList # << >>
  <2> DEFINE i == Head(pxCurrentTimerList)
  <2>1. i \in T!ToSet(T!State.current)
    BY <1>1, <1>2, <1>4, FirstOfList, StateParts, TimersConstants DEF ListsKept, TimerSheet
  <2>2. wakeTime = i.xItemValue /\ xTickCount < i.xItemValue
    BY <1>1, <1>4 DEF T!NextExpireTime
  <2> HIDE DEF i
  <2>3. i \in T!Items /\ i.xItemValue <= xLastTime + T!State.period[i.timer]
    BY <1>1, <2>1, StateParts DEF ListsKept
  <2>4. /\ i.xItemValue \in Int /\ i.xItemValue < TickMod /\ T!State.period[i.timer] \in Int
        /\ MaxLag \in Int /\ T!State.period[i.timer] + MaxLag < TickMod
    BY <1>3, <2>3
  <2> DEFINE v == i.xItemValue
             p == T!State.period[i.timer]
  <2> HIDE DEF v, p
  <2>5. v \in Int /\ v < TickMod /\ p \in Int /\ p + MaxLag < TickMod /\ v <= xLastTime + p
        /\ xTickCount < v /\ MaxLag \in Int
    BY <2>2, <2>3, <2>4 DEF v, p
  <2>6. TicksPassed + 1 <= TickMod - 1 - MaxLag
    BY <1>2, <2>5
  <2> QED BY <1>1, <1>4, <2>2, <2>5, <2>6 DEF v
<1>5. CASE pxCurrentTimerList = << >>
  <2>1. PICK i \in T!ToSet(T!State.overflow) : TRUE
    BY <1>5, StateParts DEF T!ToSet
  <2>2. i \in T!Items /\ i.xItemValue + TickMod <= xLastTime + T!State.period[i.timer]
    BY <1>1, <2>1, StateParts DEF ListsKept
  <2>3. /\ i.xItemValue \in Int /\ 0 <= i.xItemValue /\ T!State.period[i.timer] \in Int
        /\ MaxLag \in Int /\ T!State.period[i.timer] + MaxLag < TickMod
    BY <1>3, <2>2
  <2> DEFINE v == i.xItemValue
             p == T!State.period[i.timer]
  <2> HIDE DEF v, p
  <2>4. v \in Int /\ 0 <= v /\ p \in Int /\ p + MaxLag < TickMod
        /\ v + TickMod <= xLastTime + p
        /\ MaxLag \in Int
    BY <2>2, <2>3 DEF v, p
  <2>5. /\ TicksPassed + 1 <= TickMod - 1 - MaxLag
        /\ TickMod - xLastTime <= TickMod - 1 - MaxLag
    BY <1>2, <2>4
  <2>6. wakeTime = 0
    <3>1. pxOverflowTimerList # << >>
      BY <2>1, StateParts DEF T!ToSet
    <3> QED BY <1>1, <1>5, <3>1 DEF T!NextExpireTime
  <2> QED BY <1>1, <1>5, <2>5, <2>6
<1> QED BY <1>4, <1>5

\* Messages for timers that are still in use, and the last one for a timer.
LEMMA SentLast ==
  ASSUME DeletedTimers, NEW S, xTimerQueue \in Seq(S), NEW m \in S,
         xTimerQueue' = Append(xTimerQueue, m), UNCHANGED << xMessage, active >>,
         m.timer \notin deleted,
         \/ deleted' = deleted
         \/ m.id = "delete" /\ m.timer \in Timer /\ deleted' = deleted \cup {m.timer}
  PROVE  DeletedTimers'
<1> DEFINE n == Len(xTimerQueue)
           q == xTimerQueue
<1>1. /\ n \in Nat /\ Len(xTimerQueue') = n + 1 /\ xTimerQueue'[n + 1] = m
      /\ \A i \in 1..n : xTimerQueue'[i] = q[i] /\ i \in 1..(n + 1) /\ i < n + 1
      /\ \A i \in 1..(n + 1) : i \in 1..n \/ i = n + 1
      /\ n + 1 \in 1..(n + 1) /\ \A j \in 1..(n + 1) : ~(n + 1 < j)
  OBVIOUS
<1>2. ASSUME NEW u \in deleted, u \in Timer, DeletedLast(u) PROVE DeletedLast(u)'
  <2>1. m.timer # u
    OBVIOUS
  <2>2. CASE \E i \in 1..n : /\ q[i].timer = u /\ q[i].id = "delete"
                             /\ \A j \in 1..n : i < j => q[j].timer # u
    <3>1. PICK i \in 1..n : /\ q[i].timer = u /\ q[i].id = "delete"
                            /\ \A j \in 1..n : i < j => q[j].timer # u
      BY <2>2
    <3>2. i \in 1..(n + 1) /\ xTimerQueue'[i] = q[i]
      BY <1>1
    <3>3. \A j \in 1..(n + 1) : i < j => xTimerQueue'[j].timer # u
      BY <1>1, <2>1, <3>1
    <3> QED BY <1>1, <3>1, <3>2, <3>3 DEF DeletedLast
  <2>3. CASE /\ \A i \in 1..n : q[i].timer # u
             /\ IF xMessage.timer = u THEN xMessage.id = "delete" ELSE ~active[u]
    <3>1. \A j \in 1..(n + 1) : xTimerQueue'[j].timer # u
      BY <1>1, <2>1, <2>3
    <3> QED BY <1>1, <2>3, <3>1 DEF DeletedLast
  <2> QED BY <1>2, <2>2, <2>3 DEF DeletedLast
<1>3. m.id = "delete" => DeletedLast(m.timer)'
  BY <1>1 DEF DeletedLast
<1> QED BY <1>2, <1>3 DEF DeletedTimers

\* A message is sent.
LEMMA MessageSent ==
  ASSUME TimersInv, NEW id, NEW value, NEW t, T!Send(id, value, t),
         [id |-> id, value |-> value, timer |-> t] \in TimerCommands \cup PendedFunctions,
         t \notin deleted,
         \/ deleted' = deleted
         \/ id = "delete" /\ t \in Timer /\ deleted' = deleted \cup {t}
  PROVE  TimersInv'
<1> DEFINE m == [id |-> id, value |-> value, timer |-> t]
<1>1. /\ xTimerQueue' = Append(xTimerQueue, m) /\ m.id = id /\ m.timer = t
      /\ UNCHANGED << xTickCount, T!timers, xTimeNow, xMessage, xLastTime, lag >>
      /\ IF pc = "blocked" THEN pc' = "receive" /\ wakeTime' = T!Forever
         ELSE UNCHANGED << pc, wakeTime >>
      /\ TimerTypes /\ m \in TimerCommands \cup PendedFunctions
      /\ xTimerQueue \in Seq(TimerCommands \cup PendedFunctions)
  BY DEF T!Send, TimersInv, TimerTypes
<1> HIDE DEF m
<1>2. T!State' = T!State /\ T!Items' = T!Items /\ TicksPassed' = TicksPassed
      /\ TimersNow' = TimersNow
  BY <1>1 DEF T!timers, T!State, T!Items, TicksPassed, TimersNow, T!Mod
<1>3. xTimerQueue' \in Seq(TimerCommands \cup PendedFunctions)
  BY <1>1
<1>4. TimerTypes' /\ TimersKept'
  BY <1>1, <1>2, <1>3 DEF TimersInv, TimerTypes, TimersKept, ListsKept, T!Sorted, T!ToSet,
                          T!timers
<1>5. ServiceHandling' /\ ServiceAsleep' /\ ServiceExpiring'
  BY <1>1, <1>2 DEF TimersInv, ServiceHandling, ServiceAsleep, ServiceExpiring,
                    T!NoMessage, T!timers
<1>6. ServiceInTime'
  <2>1. CASE pc = "blocked"
    <3>1. lag = 0 /\ lag' = lag
      BY <1>1, <2>1 DEF TimersInv, ServiceAsleep
    <3> SUFFICES ASSUME T!Items # {} PROVE TicksPassed <= TickMod - 1 - MaxLag + 0
      BY <1>1, <1>2, <3>1 DEF ServiceInTime
    <3>2. TicksPassed + 1 <= TickMod - 1 - MaxLag
      BY <2>1, AsleepInTime
    <3>3. TicksPassed \in Int /\ TickMod \in Int /\ MaxLag \in Int
      BY <1>1, ClockFacts, TimersConstants
    <3> QED BY <3>2, <3>3
  <2>2. CASE pc # "blocked"
    BY <1>1, <1>2, <2>2 DEF ServiceInTime, TimersInv
  <2> QED BY <2>1, <2>2
<1>7. DeletedTimers'
  <2>1. DeletedTimers /\ UNCHANGED << xMessage, active >>
    BY <1>1 DEF TimersInv, T!timers
  <2>2. m.timer \notin deleted
    BY <1>1
  <2>3. \/ deleted' = deleted
        \/ m.id = "delete" /\ m.timer \in Timer /\ deleted' = deleted \cup {m.timer}
    BY <1>1
  <2> QED BY <1>1, <2>1, <2>2, <2>3, SentLast
<1> QED BY <1>4, <1>5, <1>6, <1>7 DEF TimersInv

\* xTimerCreate
LEMMA TimerCreated ==
  ASSUME TimersInv, NEW t \in Timer, NEW p \in Periods, NEW reload \in BOOLEAN,
         T!xTimerCreate(t, p, reload)
  PROVE  TimersInv'
<1>1. /\ t \in deleted /\ xMessage.timer # t /\ deleted' = deleted \ {t}
      /\ \A i \in 1..Len(xTimerQueue) : xTimerQueue[i].timer # t
      /\ xTimerPeriodInTicks' = [xTimerPeriodInTicks EXCEPT ![t] = p]
      /\ autoReload' = [autoReload EXCEPT ![t] = reload]
      /\ active' = [active EXCEPT ![t] = FALSE]
      /\ due' = [due EXCEPT ![t] = 0]
      /\ UNCHANGED << xTickCount, xTimerQueue, pxCurrentTimerList, pxOverflowTimerList,
                      T!service, lag >>
      /\ TimerTypes /\ T!State \in TimerSheet
  BY DEF T!xTimerCreate, TimersInv, TimerTypes
<1>2. ~active[t]
  BY <1>1 DEF TimersInv, DeletedTimers, DeletedLast
<1>3. /\ active \in [Timer -> BOOLEAN] /\ due \in [Timer -> Int]
      /\ xTimerPeriodInTicks \in [Timer -> Periods]
      /\ pxCurrentTimerList \in Seq(TimerItem) /\ pxOverflowTimerList \in Seq(TimerItem)
      /\ autoReload \in [Timer -> BOOLEAN]
  BY <1>1 DEF TimerTypes, TimerSheet, T!State
<1>4. /\ T!State' \in TimerSheet /\ T!State'.active = active' /\ T!State'.due = due'
      /\ T!State'.period = xTimerPeriodInTicks'
      /\ T!State'.current = T!State.current /\ T!State'.overflow = T!State.overflow
  <2>1. /\ active' \in [Timer -> BOOLEAN] /\ due' \in [Timer -> Int]
        /\ xTimerPeriodInTicks' \in [Timer -> Periods]
    BY <1>1, <1>3
  <2> QED BY <1>1, <1>3, <2>1 DEF T!State, TimerSheet
<1>5. T!Items' = T!Items /\ TicksPassed' = TicksPassed /\ TimersNow' = TimersNow
  BY <1>1 DEF T!service, T!Items, TicksPassed, TimersNow, T!Mod
<1>6. TimersKept'
  <2>1. ListsKept(T!State, TimersNow, xLastTime, {xMessage.timer})
    BY DEF TimersInv, TimersKept
  <2>2. /\ T!State.active[t] = FALSE /\ T!State'.active[t] = FALSE
        /\ T!State'.due[t] = 0 /\ T!State'.period[t] = p /\ p \in Int /\ 1 <= p
        /\ \A u \in Timer : u # t => /\ T!State'.active[u] = T!State.active[u]
                                     /\ T!State'.due[u] = T!State.due[u]
                                     /\ T!State'.period[u] = T!State.period[u]
    BY <1>1, <1>2, <1>3, <1>4, StateParts, PeriodTypes
  <2>3. \A i \in T!ToSet(T!State.current) \cup T!ToSet(T!State.overflow) : i.timer # t
        /\ i.timer \in Timer
    BY <1>1, <2>1, <2>2, SheetTypes DEF ListsKept
  <2> DEFINE r == T!State'
             s == T!State
             now == TimersNow
             from == xLastTime
             o == {xMessage.timer}
  <2>4. /\ ListsKept(s, now, from, o)
        /\ r.current = s.current /\ r.overflow = s.overflow
        /\ s.active[t] = FALSE /\ r.active[t] = FALSE
        /\ r.due[t] = 0 /\ r.period[t] = p
        /\ \A u \in Timer : u # t => /\ r.active[u] = s.active[u]
                                     /\ r.due[u] = s.due[u]
                                     /\ r.period[u] = s.period[u]
        /\ \A i \in T!ToSet(s.current) \cup T!ToSet(s.overflow) : i.timer # t
             /\ i.timer \in Timer
    BY <1>4, <2>1, <2>2, <2>3
  <2> HIDE DEF r, s, now, from, o
  <2>5. ListsKept(r, now, from, o)
    <3>1. \A u \in Timer : r.due[u] <= r.period[u]
      BY <2>2, <2>4 DEF ListsKept
    <3> QED BY <2>4, <3>1 DEF ListsKept
  <2>6. TimersNow' = now /\ xLastTime' = from /\ xMessage' = xMessage
    BY <1>1, <1>5 DEF T!service, now, from
  <2> QED BY <2>5, <2>6 DEF TimersKept, ListsKept, T!Sorted, T!ToSet, r, o
<1>7. TimerTypes'
  BY <1>1, <1>3, <1>4 DEF TimerTypes, T!service
<1>8. ServiceHandling' /\ ServiceInTime' /\ ServiceAsleep' /\ ServiceExpiring'
  BY <1>1, <1>5 DEF TimersInv, ServiceHandling, ServiceInTime, ServiceAsleep,
                    ServiceExpiring, T!NextExpireTime, T!Forever,
     T!NoMessage, T!service
<1>9. DeletedTimers'
  <2>1. \A u \in deleted' : active'[u] => active[u]
    BY <1>1, <1>3 DEF TimersInv, DeletedTimers
  <2> QED BY <1>1, <2>1, DeletingFrame DEF TimersInv, T!service
<1> QED BY <1>6, <1>7, <1>8, <1>9 DEF TimersInv

\* vTimerSetReloadMode
LEMMA ReloadModeSet ==
  ASSUME TimersInv, NEW t \in Timer, NEW reload \in BOOLEAN,
         T!vTimerSetReloadMode(t, reload)
  PROVE  TimersInv'
<1>1. /\ autoReload' = [autoReload EXCEPT ![t] = reload]
      /\ UNCHANGED << xTickCount, xTimerQueue, xTimerPeriodInTicks, active, due,
                      pxCurrentTimerList, pxOverflowTimerList, T!service, deleted, lag >>
  BY DEF T!vTimerSetReloadMode
<1>2. T!State' = T!State /\ T!Items' = T!Items /\ TicksPassed' = TicksPassed
      /\ TimersNow' = TimersNow
  BY <1>1 DEF T!service, T!State, T!Items, TicksPassed, TimersNow, T!Mod
<1>3. autoReload' \in [Timer -> BOOLEAN]
  BY <1>1 DEF TimersInv, TimerTypes
<1>4. TimerTypes' /\ ServiceHandling' /\ TimersKept' /\ ServiceInTime' /\ ServiceAsleep'
      /\ ServiceExpiring'
  BY <1>1, <1>2, <1>3 DEF TimersInv, TimerTypes, ServiceHandling, TimersKept, ListsKept,
                          T!Sorted, T!ToSet,
     ServiceInTime, ServiceAsleep, ServiceExpiring, T!NextExpireTime, T!Forever,
     T!NoMessage, T!service
<1>5. DeletedTimers'
  BY <1>1, DeletingFrame DEF TimersInv, T!service
<1> QED BY <1>4, <1>5 DEF TimersInv

\* The tick.
LEMMA TimersNowTick ==
  ASSUME TimerTypes, TicksPassed + 1 < TickMod, UNCHANGED xLastTime,
         xTickCount' = T!Mod(xTickCount + 1)
  PROVE  TicksPassed' = TicksPassed + 1 /\ TimersNow' = TimersNow + 1
         /\ xTickCount' \in T!Tick
<1> DEFINE c == xTickCount'
           k == xTickCount
           f == xLastTime
<1>1. /\ k \in Int /\ f \in Int /\ TickMod \in Int /\ TickMod >= 3
      /\ 0 <= k /\ k < TickMod /\ 0 <= f /\ f < TickMod
      /\ f <= k => TicksPassed = k - f
      /\ ~(f <= k) => TicksPassed = k - f + TickMod
      /\ TimersNow = f + TicksPassed /\ c = T!Mod(k + 1)
  BY ClockFacts DEF TimersNow
<1>2. /\ k + 1 < TickMod => c = k + 1
      /\ ~(k + 1 < TickMod) => c = 0
      /\ c \in T!Tick
  BY <1>1, TicksOf
<1>3. TicksPassed' = T!Mod(c - f) /\ TimersNow' = f + TicksPassed'
  BY DEF TicksPassed, TimersNow, T!Mod
<1> DEFINE z == T!Mod(c - f)
           q == TicksPassed
<1> HIDE DEF c, k, f
<1>4. c - f \in Int /\ -TickMod <= c - f /\ c - f < TickMod
  BY <1>1, <1>2
<1>5. (c - f < 0 => z = c - f + TickMod) /\ (0 <= c - f => z = c - f)
  BY <1>1, <1>4, TicksOf
<1> HIDE DEF z, q
<1>6. q \in Int /\ q + 1 < TickMod
  BY <1>1 DEF q
<1>7. (f <= k => q = k - f) /\ (~(f <= k) => q = k - f + TickMod)
  BY <1>1 DEF q
<1>8. z = q + 1
  BY <1>1, <1>2, <1>5, <1>6, <1>7
<1>9. f + (q + 1) = (f + q) + 1
  BY <1>1, <1>6
<1> QED BY <1>1, <1>2, <1>3, <1>8, <1>9 DEF z, q, c

\* The timers' lists at the next tick.
LEMMA KeptNextTick ==
  ASSUME NEW s \in TimerSheet, NEW at \in Int, NEW from, NEW out,
         ListsKept(s, at, from, out), NEW next,
         T!ToSet(s.current) \cup T!ToSet(s.overflow) # {} => next = at + 1,
         NEW r,
         r.due = [t \in Timer |-> IF s.active[t] THEN s.due[t] - 1 ELSE 0],
         r.current = s.current, r.overflow = s.overflow, r.active = s.active,
         r.period = s.period
  PROVE  ListsKept(r, next, from, out)
<1>1. ASSUME NEW i \in T!ToSet(s.current) \cup T!ToSet(s.overflow)
      PROVE  r.due[i.timer] = s.due[i.timer] - 1 /\ next = at + 1
  <2>1. i.timer \in Timer /\ s.active[i.timer]
    BY SheetTypes DEF ListsKept
  <2> QED BY <2>1
<1>2. ASSUME NEW i \in T!ToSet(s.current) PROVE r.due[i.timer] = i.xItemValue - next
  <2>1. i.xItemValue \in Int /\ s.due[i.timer] = i.xItemValue - at
    BY SheetTypes DEF ListsKept
  <2> DEFINE v == i.xItemValue
  <2> HIDE DEF v
  <2>2. v \in Int /\ r.due[i.timer] = (v - at) - 1 /\ next = at + 1
    BY <1>1, <2>1 DEF v
  <2> QED BY <2>2 DEF v
<1>3. ASSUME NEW i \in T!ToSet(s.overflow)
      PROVE  r.due[i.timer] = i.xItemValue + TickMod - next
  <2>1. i.xItemValue \in Int /\ s.due[i.timer] = i.xItemValue + TickMod - at
    BY SheetTypes DEF ListsKept
  <2> DEFINE v == i.xItemValue
  <2> HIDE DEF v
  <2>2. /\ v \in Int /\ r.due[i.timer] = (v + TickMod - at) - 1 /\ next = at + 1
        /\ TickMod \in Int
    BY <1>1, <2>1, TimersConstants DEF v
  <2> QED BY <2>2 DEF v
<1>4. ASSUME NEW t \in Timer PROVE r.due[t] <= r.period[t]
  <2>1. /\ r.due[t] = IF s.active[t] THEN s.due[t] - 1 ELSE 0
        /\ s.due[t] \in Int /\ s.period[t] \in Int /\ 1 <= s.period[t]
        /\ s.due[t] <= s.period[t]
    BY SheetTypes DEF ListsKept
  <2> QED BY <2>1
<1> QED BY <1>1, <1>2, <1>3, <1>4 DEF ListsKept

\* xTaskIncrementTick
LEMMA TimersTick ==
  ASSUME TimersInv, T!xTaskIncrementTick
  PROVE  TimersInv'
<1>1. /\ pc # "blocked" => lag < MaxLag /\ lag' = lag + 1 /\ UNCHANGED << pc, wakeTime >>
      /\ pc = "blocked" =>
           /\ lag' = lag
           /\ IF wakeTime \in {xTickCount, xTickCount'}
              THEN pc' = "receive"
              /\ wakeTime' = T!Forever ELSE UNCHANGED << pc, wakeTime >>
      /\ xTickCount' = T!Mod(xTickCount + 1)
      /\ due' = [t \in Timer |-> IF active[t] THEN due[t] - 1 ELSE 0]
      /\ UNCHANGED << xTimerQueue, xTimerPeriodInTicks, autoReload, active,
                      pxCurrentTimerList, pxOverflowTimerList, xTimeNow, xMessage,
                      xLastTime, deleted >>
      /\ TimerTypes /\ T!State \in TimerSheet /\ lag \in 0..MaxLag
      /\ pc \in {"loop", "blocked", "expired", "receive", "command"}
  BY DEF T!xTaskIncrementTick, TimersInv, TimerTypes
<1>2. /\ xTickCount \in Int /\ xLastTime \in Int /\ TickMod \in Int /\ TickMod >= 3
      /\ 0 <= xTickCount /\ xTickCount < TickMod /\ 0 <= xLastTime /\ xLastTime < TickMod
      /\ TicksPassed \in Int /\ TimersNow \in Int /\ MaxLag \in Int
  BY <1>1, ClockFacts, TimersConstants
<1>3. lag' \in 0..MaxLag
  BY <1>1, <1>2
<1>4. xTickCount' \in T!Tick
  <2>1. xTickCount + 1 \in Int /\ -TickMod <= xTickCount + 1 /\ xTickCount + 1 < 3 * TickMod
    BY <1>2
  <2> QED BY <1>1, <2>1, TicksOf
<1> DEFINE l == lag'
<1> HIDE DEF l
<1>5. l \in Int /\ 0 <= l /\ l <= MaxLag
  BY <1>2, <1>3 DEF l
<1>6. ASSUME T!Items # {}
      PROVE  TicksPassed + 1 <= TickMod - 1 - MaxLag + l
  <2>1. CASE pc = "blocked"
    <3>1. TicksPassed + 1 <= TickMod - 1 - MaxLag
      BY <1>6, <2>1, AsleepInTime
    <3> QED BY <1>2, <1>5, <3>1
  <2>2. CASE pc # "blocked"
    <3>1. TicksPassed <= TickMod - 1 - MaxLag + lag /\ l = lag + 1 /\ lag \in Int
      BY <1>1, <1>2, <1>6, <2>2 DEF TimersInv, ServiceInTime, l
    <3> QED BY <1>2, <3>1
  <2> QED BY <2>1, <2>2
<1>7. ASSUME T!Items # {}
      PROVE  TicksPassed' = TicksPassed + 1 /\ TimersNow' = TimersNow + 1
  <2>1. TicksPassed + 1 < TickMod
    BY <1>2, <1>5, <1>6, <1>7
  <2> QED BY <1>1, <2>1, TimersNowTick
<1>8. T!Items' = T!Items /\ T!State' \in TimerSheet
  <2>1. /\ active \in [Timer -> BOOLEAN] /\ due \in [Timer -> Int]
        /\ xTimerPeriodInTicks \in [Timer -> Periods]
        /\ pxCurrentTimerList \in Seq(TimerItem) /\ pxOverflowTimerList \in Seq(TimerItem)
    BY <1>1 DEF TimerSheet, T!State
  <2>2. due' \in [Timer -> Int]
    BY <1>1, <2>1
  <2> QED BY <1>1, <2>1, <2>2 DEF T!State, TimerSheet, T!Items
<1>9. TimersKept'
  <2>1. ListsKept(T!State, TimersNow, xLastTime, {xMessage.timer})
    BY DEF TimersInv, TimersKept
  <2> DEFINE r == T!State'
             s == T!State
             now == TimersNow
             next == TimersNow'
             from == xLastTime
             o == {xMessage.timer}
  <2>2. /\ ListsKept(s, now, from, o) /\ s \in TimerSheet /\ now \in Int
        /\ T!ToSet(s.current) \cup T!ToSet(s.overflow) # {} => next = now + 1
        /\ r.due = [t \in Timer |-> IF s.active[t] THEN s.due[t] - 1 ELSE 0]
        /\ r.current = s.current /\ r.overflow = s.overflow /\ r.active = s.active
        /\ r.period = s.period
    BY <1>1, <1>2, <1>7, <2>1, StateParts DEF T!State
  <2> HIDE DEF r, s, now, next, from, o
  <2>3. ListsKept(r, next, from, o)
    BY <2>2, KeptNextTick
  <2>4. xLastTime' = from /\ xMessage' = xMessage
    BY <1>1 DEF from
  <2> QED BY <2>3, <2>4 DEF TimersKept, ListsKept, T!Sorted, T!ToSet, r, o, next
<1>10. TimerTypes'
  <2>1. pc' \in {"loop", "blocked", "expired", "receive", "command"}
    BY <1>1
  <2> QED BY <1>1, <1>3, <1>4, <1>8, <2>1 DEF TimerTypes
<1>11. ServiceInTime'
  <2> SUFFICES ASSUME T!Items # {} PROVE TicksPassed' <= TickMod - 1 - MaxLag + l
    BY <1>8 DEF ServiceInTime, l
  <2> QED BY <1>6, <1>7
<1>12. ServiceHandling' /\ ServiceExpiring'
  BY <1>1 DEF TimersInv, ServiceHandling, ServiceExpiring, T!NoMessage
<1>13. ServiceAsleep'
  <2> SUFFICES ASSUME pc' = "blocked"
               PROVE  /\ lag' = 0 /\ xTimerQueue' = << >> /\ wakeTime' = T!NextExpireTime'
                      /\ T!Items' # {} => xLastTime' <= xTickCount'
                      /\ pxCurrentTimerList' # << >> =>
                           xTickCount' < Head(pxCurrentTimerList').xItemValue
    BY DEF ServiceAsleep
  <2>1. /\ pc = "blocked" /\ lag' = lag /\ wakeTime \notin {xTickCount, xTickCount'}
        /\ wakeTime' = wakeTime /\ lag = 0 /\ xTimerQueue = << >>
        /\ wakeTime = T!NextExpireTime
    BY <1>1 DEF TimersInv, ServiceAsleep
  <2>2. T!NextExpireTime' = T!NextExpireTime
    BY <1>1 DEF T!NextExpireTime, T!Forever
  <2> DEFINE c == xTickCount'
  <2>3. /\ xTickCount + 1 < TickMod => c = xTickCount + 1
        /\ ~(xTickCount + 1 < TickMod) => c = 0
    BY <1>1, <1>2, TicksOf
  <2>4. wakeTime # c /\ wakeTime # xTickCount
    BY <2>1
  <2> HIDE DEF c
  <2>5. ASSUME pxCurrentTimerList # << >>
        PROVE  c < wakeTime /\ T!Items # {}
               /\ wakeTime = Head(pxCurrentTimerList).xItemValue
               /\ c = xTickCount + 1
    <3>1. T!Items # {}
      <4>1. Head(pxCurrentTimerList) \in T!ToSet(T!State.current)
        BY <1>1, <2>5, FirstOfList, StateParts, TimersConstants DEF TimersInv, TimersKept,
                                                                    ListsKept, TimerSheet
      <4> QED BY <4>1, StateParts
    <3>2. wakeTime \in Int /\ xTickCount < wakeTime /\ wakeTime < TickMod
      BY <2>1, <2>5, <3>1, AsleepInTime
    <3> QED BY <1>2, <2>1, <2>3, <2>4, <2>5, <3>1, <3>2 DEF T!NextExpireTime
  <2>6. ASSUME T!Items # {} PROVE xLastTime <= c
    <3>1. xLastTime <= xTickCount
      BY <2>1, <2>6, AsleepInTime
    <3>2. CASE pxCurrentTimerList # << >>
      BY <1>2, <2>5, <3>1, <3>2
    <3>3. CASE pxCurrentTimerList = << >>
      <4>1. wakeTime = 0
        BY <2>1, <2>6, <3>3, AsleepInTime
      <4> QED BY <1>2, <2>3, <2>4, <3>1, <4>1
    <3> QED BY <3>2, <3>3
  <2> QED BY <1>1, <1>8, <2>1, <2>2, <2>5, <2>6 DEF c
<1>14. DeletedTimers'
  <2>1. \A t \in deleted' : active'[t] => active[t]
    BY <1>1
  <2> QED BY <1>1, <2>1, DeletingFrame DEF TimersInv
<1> QED BY <1>9, <1>10, <1>11, <1>12, <1>13, <1>14 DEF TimersInv

\* The timers start with empty lists.
LEMMA TimersStart ==
  ASSUME T!Init
  PROVE  TimersInv
<1>1. /\ xTickCount = 0 /\ xLastTime = 0 /\ xTimerQueue = << >>
      /\ pxCurrentTimerList = << >> /\ pxOverflowTimerList = << >>
      /\ xTimerPeriodInTicks \in [Timer -> Periods] /\ autoReload \in [Timer -> BOOLEAN]
      /\ active = [t \in Timer |-> FALSE] /\ due = [t \in Timer |-> 0]
      /\ pc = "loop" /\ xMessage = T!NoMessage /\ deleted = {} /\ lag = 0
  BY DEF T!Init
<1>2. T!Items = {} /\ T!State \in TimerSheet
  <2>1. /\ active \in [Timer -> BOOLEAN] /\ due \in [Timer -> Int]
    BY <1>1
  <2> QED BY <1>1, <2>1 DEF T!Items, T!ToSet, T!State, TimerSheet
<1>3. TimerTypes /\ ServiceHandling /\ ServiceInTime /\ ServiceAsleep /\ ServiceExpiring
      /\ DeletedTimers
  BY <1>1, <1>2, TimersConstants DEF TimerTypes, ServiceHandling, ServiceInTime,
                                     ServiceAsleep, ServiceExpiring, DeletedTimers, T!Tick
<1>4. TimersKept
  <2>1. /\ T!State.current = << >> /\ T!State.overflow = << >>
        /\ T!ToSet(T!State.current) = {} /\ T!ToSet(T!State.overflow) = {}
        /\ T!State.active = active /\ T!State.due = due
        /\ T!State.period = xTimerPeriodInTicks
    BY <1>1, StateParts DEF T!ToSet
  <2>2. T!Sorted(<< >>)
    BY DEF T!Sorted
  <2>3. \A t \in Timer : due[t] <= xTimerPeriodInTicks[t]
    <3> SUFFICES ASSUME NEW t \in Timer PROVE due[t] <= xTimerPeriodInTicks[t]
      OBVIOUS
    <3>1. due[t] = 0 /\ xTimerPeriodInTicks[t] \in Periods
      BY <1>1
    <3> DEFINE p == xTimerPeriodInTicks[t]
    <3> HIDE DEF p
    <3>2. p \in Int /\ 1 <= p
      BY <3>1, PeriodTypes DEF p
    <3> QED BY <3>1, <3>2 DEF p
  <2> QED BY <1>1, <2>1, <2>2, <2>3 DEF TimersKept, ListsKept
<1> QED BY <1>3, <1>4 DEF TimersInv

\* A step that leaves the timers keeps the invariant.
LEMMA TimersStutter ==
  ASSUME TimersInv, UNCHANGED T!vars
  PROVE  TimersInv'
<1>1. T!State' = T!State /\ T!Items' = T!Items /\ TicksPassed' = TicksPassed
      /\ TimersNow' = TimersNow
  BY DEF T!vars, T!timers, T!service, T!State, T!Items, TicksPassed, TimersNow, T!Mod
<1>2. TimerTypes' /\ ServiceHandling' /\ TimersKept' /\ ServiceInTime' /\ ServiceAsleep'
      /\ ServiceExpiring'
  BY <1>1 DEF TimersInv, TimerTypes, ServiceHandling, TimersKept, ListsKept, T!Sorted,
              T!ToSet,
     ServiceInTime, ServiceAsleep, ServiceExpiring, T!NextExpireTime, T!Forever,
     T!NoMessage, T!vars, T!timers, T!service
<1>3. DeletedTimers'
  BY DEF TimersInv, DeletedTimers, DeletedLast, T!vars, T!timers, T!service
<1> QED BY <1>2, <1>3 DEF TimersInv

\* Each step of the timers, of a task or of the service keeps the invariant.
LEMMA TimersSteps ==
  ASSUME TimersInv, T!Next
  PROVE  TimersInv'
<1>1. xTickCount \in T!Tick /\ deleted \subseteq Timer /\ NoTimer \notin Timer
  BY TimersConstants DEF TimersInv, TimerTypes, DeletedTimers
<1>2. CASE T!Service
  BY <1>2, ServiceLoop, ServiceExpires, ServiceReceives, ServiceGoesOn, ServiceHandles
     DEF T!Service
<1>3. CASE T!xTaskIncrementTick
  BY <1>3, TimersTick
<1>4. CASE T!xTimerPendFunctionCall
  <2>1. [id |-> "function", value |-> 0, timer |-> NoTimer]
          \in TimerCommands \cup PendedFunctions
    BY DEF PendedFunctions
  <2> QED BY <1>1, <1>4, <2>1, MessageSent DEF T!xTimerPendFunctionCall
<1>5. ASSUME NEW t \in Timer, T!xTimerStart(t) PROVE TimersInv'
  <2>1. [id |-> "start", value |-> xTickCount, timer |-> t]
          \in TimerCommands \cup PendedFunctions
    BY <1>1 DEF TimerCommands
  <2> QED BY <1>5, <2>1, MessageSent DEF T!xTimerStart
<1>6. ASSUME NEW t \in Timer, T!xTimerStop(t) PROVE TimersInv'
  <2>1. [id |-> "stop", value |-> 0, timer |-> t] \in TimerCommands \cup PendedFunctions
    BY DEF TimerCommands
  <2> QED BY <1>6, <2>1, MessageSent DEF T!xTimerStop
<1>7. ASSUME NEW t \in Timer, T!xTimerDelete(t) PROVE TimersInv'
  <2>1. [id |-> "delete", value |-> 0, timer |-> t] \in TimerCommands \cup PendedFunctions
    BY DEF TimerCommands
  <2> QED BY <1>7, <2>1, MessageSent DEF T!xTimerDelete
<1>8. ASSUME NEW t \in Timer, NEW p \in Periods, T!xTimerChangePeriod(t, p) PROVE TimersInv'
  <2>1. [id |-> "changePeriod", value |-> p, timer |-> t]
          \in TimerCommands \cup PendedFunctions
    BY DEF TimerCommands
  <2> QED BY <1>8, <2>1, MessageSent DEF T!xTimerChangePeriod
<1>9. CASE T!Application
  BY <1>4, <1>5, <1>6, <1>7, <1>8, <1>9, TimerCreated, ReloadModeSet DEF T!Application
<1> QED BY <1>2, <1>3, <1>9 DEF T!Next

\* In a sorted list of items there is one item of a timer.
LEMMA OneItem ==
  ASSUME NEW list, T!Sorted(list), list \in Seq(TimerItem)
  PROVE  \A i, j \in T!ToSet(list) : i.timer = j.timer => i = j
<1> SUFFICES ASSUME NEW i \in T!ToSet(list), NEW j \in T!ToSet(list), i.timer = j.timer
             PROVE  i = j
  OBVIOUS
<1>1. PICK a \in 1..Len(list) : list[a] = i
  BY DEF T!ToSet
<1>2. PICK b \in 1..Len(list) : list[b] = j
  BY DEF T!ToSet
<1>3. Len(list) \in Nat /\ a \in Int /\ b \in Int
  OBVIOUS
<1>4. ~(a < b) /\ ~(b < a)
  BY <1>1, <1>2 DEF T!Sorted
<1> QED BY <1>1, <1>2, <1>3, <1>4

\* The invariant is enough for each expiry to be called.
LEMMA TimersSound ==
  ASSUME TimersInv
  PROVE  T!ListsAgree /\ T!NeverCalledEarly /\ T!AllExpiriesCalled
<1>1. /\ TimerTypes /\ T!State \in TimerSheet
      /\ ListsKept(T!State, TimersNow, xLastTime, {xMessage.timer})
      /\ ServiceAsleep
  BY DEF TimersInv, TimerTypes, TimersKept
<1>2. /\ xTickCount \in Int /\ TickMod \in Int /\ TickMod >= 3
      /\ 0 <= xTickCount /\ xTickCount < TickMod /\ TimersNow \in Int
      /\ xLastTime <= xTickCount => TimersNow = xTickCount
      /\ TimersNow = xTickCount \/ TimersNow = xTickCount + TickMod
  BY <1>1, ClockFacts
<1>3. T!NeverCalledEarly
  BY <1>1, StateParts DEF T!NeverCalledEarly, ListsKept
<1>4. T!Sorted(pxCurrentTimerList) /\ T!Sorted(pxOverflowTimerList)
  BY <1>1, StateParts DEF ListsKept
<1>5. ASSUME NEW i \in T!Items
      PROVE  /\ i.timer \in Timer /\ i.xItemValue \in Int /\ 0 <= i.xItemValue
             /\ i.xItemValue < TickMod /\ due[i.timer] \in Int
             /\ \/ i \in T!ToSet(T!State.current) /\ due[i.timer] = i.xItemValue - TimersNow
                \/ i \in T!ToSet(T!State.overflow)
                   /\ due[i.timer] = i.xItemValue + TickMod - TimersNow
  <2>1. /\ i.timer \in Timer /\ i.xItemValue \in T!Tick /\ T!State.due \in [Timer -> Int]
    BY <1>1, StateParts, SheetTypes
  <2>2. i.xItemValue \in Int /\ 0 <= i.xItemValue /\ i.xItemValue < TickMod
    BY <1>2, <2>1 DEF T!Tick
  <2> QED BY <1>1, <2>1, <2>2, StateParts DEF ListsKept
<1>6. ASSUME NEW i \in T!Items
      PROVE  T!Mod(xTickCount + due[i.timer]) = i.xItemValue
  <2> DEFINE v == i.xItemValue
             d == due[i.timer]
  <2>1. /\ v \in Int /\ 0 <= v /\ v < TickMod /\ d \in Int
        /\ d = v - TimersNow \/ d = v + TickMod - TimersNow
    BY <1>5
  <2> HIDE DEF v, d
  <2> DEFINE n == xTickCount + d
  <2>2. n = v \/ n = v - TickMod \/ n = v + TickMod
    BY <1>2, <2>1
  <2>3. /\ n \in Int /\ -TickMod <= n /\ n < 3 * TickMod
    BY <1>2, <2>1, <2>2
  <2> HIDE DEF n
  <2>4. /\ n < 0 => T!Mod(n) = n + TickMod
        /\ 0 <= n /\ n < TickMod => T!Mod(n) = n
        /\ TickMod <= n /\ n < 2 * TickMod => T!Mod(n) = n - TickMod
    BY <2>3, TicksOf
  <2> DEFINE z == T!Mod(n)
  <2> HIDE DEF z
  <2>5. /\ n < 0 => z = n + TickMod
        /\ 0 <= n /\ n < TickMod => z = n
        /\ TickMod <= n /\ n < 2 * TickMod => z = n - TickMod
    BY <2>4 DEF z
  <2>6. z = v
    BY <1>2, <2>1, <2>2, <2>3, <2>5
  <2> QED BY <2>6 DEF z, n, v, d
<1>7. ASSUME NEW t \in Timer
      PROVE  {i.xItemValue : i \in {j \in T!Items : j.timer = t}}
               = IF active[t]
               /\ xMessage.timer # t THEN {T!Mod(xTickCount + due[t])} ELSE {}
  <2>1. (\E i \in T!Items : i.timer = t) <=> active[t] /\ xMessage.timer # t
    BY <1>1, StateParts DEF ListsKept
  <2>2. \A i \in T!Items : i.timer = t => i.xItemValue = T!Mod(xTickCount + due[t])
    BY <1>6
  <2> QED BY <2>1, <2>2
<1>8. T!ListsAgree
  BY <1>4, <1>7 DEF T!ListsAgree
<1>9. T!AllExpiriesCalled
  <2> SUFFICES ASSUME pc = "blocked", NEW t \in Timer, active[t] PROVE due[t] > 0
    BY DEF T!AllExpiriesCalled
  <2>1. xMessage.timer # t
    BY TimersConstants DEF TimersInv, ServiceHandling, T!NoMessage
  <2>2. PICK i \in T!Items : i.timer = t
    BY <1>1, <2>1, StateParts DEF ListsKept
  <2>3. /\ TimersNow = xTickCount
        /\ pxCurrentTimerList # << >> => xTickCount < Head(pxCurrentTimerList).xItemValue
    BY <1>1, <1>2, <2>2 DEF ServiceAsleep
  <2> DEFINE v == i.xItemValue
             d == due[t]
  <2>4. /\ v \in Int /\ 0 <= v /\ d \in Int
        /\ \/ i \in T!ToSet(T!State.current) /\ d = v - xTickCount
           \/ i \in T!ToSet(T!State.overflow) /\ d = v + TickMod - xTickCount
    BY <1>5, <2>2, <2>3
  <2>5. CASE i \in T!ToSet(T!State.current) /\ d = v - xTickCount
    <3>1. pxCurrentTimerList # << >> /\ pxCurrentTimerList \in Seq(TimerItem)
          /\ TickMod \in Nat
      BY <1>1, <2>5, StateParts, TimersConstants DEF T!ToSet, TimerSheet
    <3> DEFINE h == Head(pxCurrentTimerList)
    <3>2. h.xItemValue <= v /\ h \in TimerItem
      BY <1>4, <2>5, <3>1, FirstOfList, StateParts
    <3>3. h.xItemValue \in Int /\ xTickCount < h.xItemValue
      BY <2>3, <3>1, <3>2, TimerItemTypes
    <3> DEFINE w == h.xItemValue
    <3> HIDE DEF w, v, d
    <3>4. w \in Int /\ xTickCount < w /\ w <= v /\ d = v - xTickCount
      BY <2>5, <3>2, <3>3 DEF w, v
    <3>5. d > 0
      BY <1>2, <2>4, <3>4
    <3> QED BY <3>5 DEF d
  <2>6. CASE i \in T!ToSet(T!State.overflow) /\ d = v + TickMod - xTickCount
    <3> HIDE DEF v, d
    <3>1. d > 0
      BY <1>2, <2>4, <2>6
    <3> QED BY <3>1 DEF d
  <2> QED BY <2>4, <2>5, <2>6
<1> QED BY <1>3, <1>8, <1>9

\* Each timer is in the right list and is called once for every expiry: not before
\* it, and none is slept over.
THEOREM EveryExpiryIsCalled == ClockedSpec => []ExpiriesCalled
<1>1. ClockedInit => (part = "Timers" => TimersInv)
  <2> SUFFICES ASSUME ClockedInit, part = "Timers" PROVE T!Init
    BY TimersStart
  <2> QED BY DEF ClockedInit
<1>2. ASSUME part = "Timers" => TimersInv, [ClockedNext]_clockedVars
      PROVE  (part = "Timers" => TimersInv)'
  <2> SUFFICES ASSUME part' = "Timers" PROVE TimersInv'
    OBVIOUS
  <2>1. part = "Timers" /\ (T!Next \/ UNCHANGED T!vars)
    <3>1. CASE ClockedNext
      BY <3>1 DEF ClockedNext, shared, ofTimers, T!vars, T!timers, T!service
    <3>2. CASE UNCHANGED clockedVars
      BY <3>2 DEF clockedVars, vars, clock, period, ofTimers, T!vars, T!timers, T!service
    <3> QED BY <1>2, <3>1, <3>2
  <2> QED BY <1>2, <2>1, TimersSteps, TimersStutter
<1>3. (part = "Timers" => TimersInv) => ExpiriesCalled
  BY TimersSound DEF ExpiriesCalled
<1> QED BY <1>1, <1>2, <1>3, PTL DEF ClockedSpec, clockedVars
=============================================================================
