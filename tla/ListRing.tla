------------------------------ MODULE ListRing ------------------------------
(***************************************************************************)
(* The doubly linked list of list.c seen as the walk its pxIndex makes.    *)
(* A list is the sequence of its items, the end marker included, that      *)
(* starts behind pxIndex and ends at it: the last element is where pxIndex *)
(* points.  Inserting at the end is inserting before pxIndex, removing the *)
(* item at pxIndex moves pxIndex back, and the next entry is the head,     *)
(* the end marker being skipped.                                           *)
(***************************************************************************)
EXTENDS Integers, SequencesExt

CONSTANT ListEnd        \* xListEnd, the marker every list contains

\* vListInitialise: pxIndex points at the marker of an empty list.
vListInitialise == << ListEnd >>

\* The items of a list, its marker excluded.
Items(r) == ToSet(r) \ {ListEnd}

\* uxNumberOfItems.
ListLength(r) == Len(r) - 1

\* vListInsertEnd: the new item goes just before pxIndex.
vListInsertEnd(r, x) == InsertAt(r, Len(r), x)

\* uxListRemove of an item the list holds.
uxListRemove(r, x) == RemoveAt(r, CHOOSE i \in 1..Len(r) : r[i] = x)

\* pxIndex moves on by one node.
Rotate(r) == Append(Tail(r), Head(r))

\* The list after listGET_OWNER_OF_NEXT_ENTRY: pxIndex on the next item.
NextEntry(r) == IF Head(r) = ListEnd THEN Rotate(Rotate(r)) ELSE Rotate(r)

\* The owner that listGET_OWNER_OF_NEXT_ENTRY returns from such a list.
EntryAtIndex(r) == r[Len(r)]
=============================================================================
