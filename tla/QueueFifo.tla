----------------------------- MODULE QueueFifo -----------------------------
(***************************************************************************)
(* What a queue promises its callers: a bounded sequence of items.  Items  *)
(* are put at its back or at its front, or in the place of all of them,    *)
(* and the one at the front is taken or looked at.                         *)
(***************************************************************************)
EXTENDS Integers, Sequences

CONSTANTS Item, NoItem, uxLength

VARIABLES
  contents,      \* the items of the queue, the next to take first
  pvBuffer       \* the item last copied to a caller

Init == contents = << >> /\ pvBuffer = NoItem

Put(items) ==
  /\ Len(items) <= uxLength
  /\ contents' = items
  /\ UNCHANGED pvBuffer

Send(x) == Put(Append(contents, x)) \/ Put(<< x >> \o contents)

Overwrite(x) == uxLength = 1 /\ Put(<< x >>)

Peek ==
  /\ contents # << >>
  /\ pvBuffer' = Head(contents)
  /\ UNCHANGED contents

Receive ==
  /\ contents # << >>
  /\ pvBuffer' = Head(contents)
  /\ contents' = Tail(contents)

Reset == Put(<< >>)

Next == (\E x \in Item : Send(x) \/ Overwrite(x)) \/ Peek \/ Receive \/ Reset

Spec == Init /\ [][Next]_<< contents, pvBuffer >>
=============================================================================
