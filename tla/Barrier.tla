------------------------------- MODULE Barrier -------------------------------
(***************************************************************************)
(* What xEventGroupSync promises: a rendezvous.  Nobody passes before all  *)
(* participants have arrived, and the arrival of the last one lets all     *)
(* pass that still wait.  A participant that gives up leaves its arrival   *)
(* behind, for the others may count on it.                                 *)
(***************************************************************************)
CONSTANT Participant

VARIABLES
  arrived,       \* those who have arrived since all last passed
  waiting        \* those of them who wait for the others

Init == arrived = {} /\ waiting = {}

\* One that has nothing to wait with does not wait.
Arrive(t) ==
  /\ t \notin waiting
  /\ arrived \cup {t} # Participant
  /\ arrived' = arrived \cup {t}
  /\ waiting' \in {waiting, waiting \cup {t}}

ArriveLast(t) ==
  /\ t \notin waiting
  /\ arrived \cup {t} = Participant
  /\ arrived' = {} /\ waiting' = {}

GiveUp(t) ==
  /\ t \in waiting
  /\ waiting' = waiting \ {t}
  /\ UNCHANGED arrived

\* The barrier is taken away and built anew.
Remove == arrived' = {} /\ waiting' = {}

Next ==
  \/ Remove
  \/ \E t \in Participant : Arrive(t) \/ ArriveLast(t) \/ GiveUp(t)

Spec == Init /\ [][Next]_<< arrived, waiting >>
=============================================================================
