------------------------------- MODULE ICache -------------------------------
(***************************************************************************)
(* The instruction cache of a core (ICacheSys.m): direct mapped, a line of *)
(* two words filled in two beats.  A step is a clock cycle.  The memory    *)
(* answers when it likes, with the words of the pair that holds the        *)
(* address, the even one first.  The core holds the address until the hit: *)
(* a branch taken in a miss would give the line the tag of its target.     *)
(***************************************************************************)
EXTENDS Integers, FiniteSets

CONSTANTS
  Words,               \* the memory has the words 0..(Words - 1)
  NUM_LINES

WordAddr == 0..(Words - 1)
Line == 0..(NUM_LINES - 1)

VARIABLES
  imemaddr,            \* the word address the core fetches from
  iValid, iTag,
  iData,               \* of each line two words, named by their addresses
  iState,              \* "IDLE", "LD1", "LD2"
  iLine,               \* the line that is filled
  iload                \* the word of the last hit and its address

iVars == << imemaddr, iValid, iTag, iData, iState, iLine, iload >>

LineOf(a) == a % NUM_LINES
TagOf(a) == a \div NUM_LINES
PairOf(a) == (a \div 2) * 2
NoWord == Words

Init ==
  /\ imemaddr = 0
  /\ iValid = {} /\ iTag = [l \in Line |-> 0]
  /\ iData = [l \in Line |-> << NoWord, NoWord >>]
  /\ iState = "IDLE" /\ iLine = 0
  /\ iload = << 0, 0 >>

Hits(a) == LineOf(a) \in iValid /\ iTag[LineOf(a)] = TagOf(a)

\* A hit gives the word to the core, which then fetches from anywhere.
Hit ==
  /\ iState = "IDLE" /\ Hits(imemaddr)
  /\ iload' = << imemaddr, iData[LineOf(imemaddr)][(imemaddr % 2) + 1] >>
  /\ imemaddr' \in WordAddr
  /\ UNCHANGED << iValid, iTag, iData, iState, iLine >>

Miss ==
  /\ iState = "IDLE" /\ ~Hits(imemaddr)
  /\ iLine' = LineOf(imemaddr) /\ iState' = "LD1"
  /\ UNCHANGED << imemaddr, iValid, iTag, iData, iload >>

\* A beat of the fill, when ramstate is 1: the tag is that of the address at
\* the second beat, the line that of the address at the miss.
Beat ==
  /\ IF iState = "LD1"
     THEN /\ iState' = "LD2"
          /\ iData' = [iData EXCEPT ![iLine][1] = PairOf(imemaddr)]
          /\ UNCHANGED << iTag, iValid >>
     ELSE /\ iState = "LD2" /\ iState' = "IDLE"
          /\ iData' = [iData EXCEPT ![iLine][2] = PairOf(imemaddr) + 1]
          /\ iTag' = [iTag EXCEPT ![iLine] = TagOf(imemaddr)]
          /\ iValid' = iValid \cup {iLine}
  /\ UNCHANGED << imemaddr, iLine, iload >>

\* nRST is low: setupImpl.
Reset ==
  /\ iValid' = {} /\ iTag' = [l \in Line |-> 0]
  /\ iData' = [l \in Line |-> << NoWord, NoWord >>]
  /\ iState' = "IDLE" /\ iLine' = 0
  /\ UNCHANGED << imemaddr, iload >>

Next == Hit \/ Miss \/ Beat \/ Reset

Spec == Init /\ [][Next]_iVars
-----------------------------------------------------------------------------
\* A hit gives the word that the memory holds at the address, whatever other
\* addresses share its line and however fills and resets interleave.
HitIsMemory == iload[1] = iload[2]
=============================================================================
