---------------------------- MODULE MCScheduler ----------------------------
(* The scheduler on small instances. *)
EXTENDS Scheduler, TLC

CONSTANTS A, B, C        \* the tasks of the application

\* The application's tasks are interchangeable.
Workers == Permutations(Task \ {Idle})
=============================================================================
