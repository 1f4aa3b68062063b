------------------------------ MODULE MCQueue ------------------------------
(* A queue with a few tasks. *)
EXTENDS Queue, TLC

CONSTANTS A, B, C, X, Y

OnePriority == [t \in Task |-> 1]

\* With one priority the tasks are interchangeable, and items always are.
Alike == Permutations(Task) \cup Permutations(Item)
=============================================================================
