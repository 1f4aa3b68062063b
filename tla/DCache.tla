------------------------------- MODULE DCache -------------------------------
(***************************************************************************)
(* The data cache of a core (DCacheSys.m), one of its sets: two ways of    *)
(* two words, written back.  A step is a clock cycle; the core holds its   *)
(* access while dwait is up, and the memory answers when it likes.  In the *)
(* two cycles of a write-back the cache puts out neither address nor data, *)
(* so the memory never changes.                                            *)
(***************************************************************************)
EXTENDS Integers

CONSTANTS
  Tags, Value,
  Memory               \* the words of each tag's block: Tags -> Value x Value

Way == 1..2
Word == 1..2
NoAccess == [op |-> "none", tag |-> 0, word |-> 0, value |-> 0]
Access ==
  [op : {"read"}, tag : Tags, word : Word, value : {0}]
    \cup [op : {"write"}, tag : Tags, word : Word, value : Value]

VARIABLES
  access,              \* what the core asks for, held while it waits
  valid, dirty, tag, data, lru,
  state, nWay,
  dmemload,            \* the value of the last read, and what it should be
  written,             \* history: the block of each tag as the core left it,
                       \* or as it is in memory once the cache dropped it
  recent               \* history: the way of the last hit

dVars == << access, valid, dirty, tag, data, lru, state, nWay, dmemload, written,
            recent >>

SetUp ==
  [valid |-> {}, dirty |-> {}, tag |-> [w \in Way |-> 0],
   data |-> [w \in Way |-> << 0, 0 >>], lru |-> FALSE]

Init ==
  /\ access = NoAccess
  /\ valid = SetUp.valid /\ dirty = SetUp.dirty /\ tag = SetUp.tag
  /\ data = SetUp.data /\ lru = SetUp.lru
  /\ state = "IDLE" /\ nWay = 1
  /\ dmemload = << 0, 0 >> /\ written = Memory /\ recent = 0
-----------------------------------------------------------------------------
HitWays(a) == {w \in valid : tag[w] = a.tag}

\* Fault: a line is not marked as written to.
F_NotMarked(w) == dirty

WrittenTo(w) == dirty \cup {w}

\* A read or a write that hits; the other way is the next victim.
Hit(a) ==
  /\ state = "IDLE"
  /\ \E w \in HitWays(a) :
       /\ \A v \in HitWays(a) : w <= v
       /\ IF a.op = "read"
          THEN /\ dmemload' = << data[w][a.word], written[a.tag][a.word] >>
               /\ UNCHANGED << data, dirty, written >>
          ELSE /\ data' = [data EXCEPT ![w][a.word] = a.value]
               /\ dirty' = WrittenTo(w)
               /\ written' = [written EXCEPT ![a.tag][a.word] = a.value]
               /\ UNCHANGED dmemload
       /\ lru' = (w = 1)
       /\ recent' = w
  /\ access' = NoAccess
  /\ UNCHANGED << valid, tag, state, nWay >>

Victim == IF lru THEN 2 ELSE 1

Miss(a) ==
  /\ state = "IDLE" /\ HitWays(a) = {}
  /\ nWay' = Victim
  /\ state' = IF Victim \in valid \cap dirty THEN "WB1" ELSE "LD1"
  /\ access' = a
  /\ UNCHANGED << valid, dirty, tag, data, lru, dmemload, written, recent >>

\* The core begins an access, or goes on with the one that missed.
Step ==
  \E a \in IF access = NoAccess THEN Access ELSE {access} : Hit(a) \/ Miss(a)

\* Write-back, when ramstate is 1: what the core wrote to the block is gone.
WriteBack ==
  /\ IF state = "WB1" THEN state' = "WB2" /\ UNCHANGED << valid, dirty, written >>
     ELSE /\ state = "WB2" /\ state' = "LD1"
          /\ valid' = valid \ {nWay} /\ dirty' = dirty \ {nWay}
          /\ written' = [written EXCEPT ![tag[nWay]] = Memory[tag[nWay]]]
  /\ UNCHANGED << access, tag, data, lru, nWay, dmemload, recent >>

\* A fill, when ramstate is 1, after which the access hits.
Fill ==
  /\ IF state = "LD1"
     THEN /\ state' = "LD2"
          /\ data' = [data EXCEPT ![nWay][1] = Memory[access.tag][1]]
          /\ UNCHANGED << tag, valid, dirty >>
     ELSE /\ state = "LD2" /\ state' = "IDLE"
          /\ data' = [data EXCEPT ![nWay][2] = Memory[access.tag][2]]
          /\ tag' = [tag EXCEPT ![nWay] = access.tag]
          /\ valid' = valid \cup {nWay} /\ dirty' = dirty \ {nWay}
  /\ UNCHANGED << access, lru, nWay, dmemload, written, recent >>

\* nRST is low: setupImpl, and what was written is gone.
Reset ==
  /\ valid' = SetUp.valid /\ dirty' = SetUp.dirty /\ tag' = SetUp.tag
  /\ data' = SetUp.data /\ lru' = SetUp.lru
  /\ state' = "IDLE" /\ nWay' = 1 /\ access' = NoAccess
  /\ written' = Memory /\ recent' = 0 /\ UNCHANGED dmemload

Next == Step \/ WriteBack \/ Fill \/ Reset

Spec == Init /\ [][Next]_dVars
-----------------------------------------------------------------------------
\* A fill in progress has overwritten words of the line of its way, whose old
\* tag is still valid: it must not hit.
Filling == IF state = "LD2" THEN {nWay} ELSE {}

\* At most one way holds a block, a line that was not written to holds the words
\* of the memory, one that was holds what the core wrote last, and a read gives
\* the last value written unless the cache has dropped it: across misses, fills,
\* write-backs and resets in any order.
LinesSound ==
  /\ dmemload[1] = dmemload[2]
  /\ \A w, v \in valid : w # v => tag[w] # tag[v]
  /\ \A w \in valid \ Filling : data[w] = written[tag[w]]
  /\ \A w \in valid \ (dirty \cup Filling) : data[w] = Memory[tag[w]]

\* The block that was hit last is not the one that a miss replaces.
RecentKept == state # "IDLE" => nWay # recent
=============================================================================
