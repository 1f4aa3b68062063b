------------------------------ MODULE MCMutex ------------------------------
(* Mutexes on small instances. *)
EXTENDS Mutex, TLC

CONSTANTS m1, m2, L, M, H        \* the tasks of the application

\* A low, a middle and a high task.
ThreePriorities == (Idle :> 0) @@ (L :> 1) @@ (M :> 2) @@ (H :> 3)

\* Two tasks of a low priority and a higher one.
TwoLow == (Idle :> 0) @@ (L :> 1) @@ (M :> 1) @@ (H :> 2)

\* The two are interchangeable.
Alike == Permutations({L, M})
=============================================================================
