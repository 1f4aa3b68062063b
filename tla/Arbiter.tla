------------------------------ MODULE Arbiter ------------------------------
(***************************************************************************)
(* The memory port of the two cores: the arbiter that                      *)
(* create_dualcore_model.m draws, and the memory controller behind it      *)
(* (MemCtrlSys.m).  A step is a clock cycle.  A core holds its request     *)
(* until its state input is one, as the caches do.                         *)
(***************************************************************************)
EXTENDS Integers

CONSTANTS Address, Value

Core == {1, 2}

VARIABLES
  request,             \* what each core drives: REN, WEN, addr and store
  ram,                 \* of MemCtrl
  load, state,         \* what each core was given in this cycle
  ramstate, chosen     \* what MemCtrl answered, and the core it was for

vars == << request, ram, load, state, ramstate, chosen >>

NoRequest == [REN |-> FALSE, WEN |-> FALSE, addr |-> 0, store |-> 0]

Request ==
  {NoRequest}
    \cup [REN : {TRUE}, WEN : {FALSE}, addr : Address, store : {0}]
    \cup [REN : {FALSE}, WEN : {TRUE}, addr : Address, store : Value]

Init ==
  /\ request = [c \in Core |-> NoRequest]
  /\ ram \in [Address -> Value]
  /\ load = [c \in Core |-> 0] /\ state = [c \in Core |-> 0]
  /\ ramstate = 0 /\ chosen = 2
-----------------------------------------------------------------------------
\* A Simulink switch: the first input if the second is not zero, or the third.
Switch(u1, u2, u3) == IF u2 THEN u1 ELSE u3

c1req(r) == r[1].REN \/ r[1].WEN

\* No line leads to the block not_c1req: it negates an input that is zero.
not_c1req == ~FALSE

\* selREN, selWEN, selADDR, selSTORE
Selected(r) == Switch(r[1], c1req(r), r[2])

\* What MemCtrl answers to the request q, a write before a read.
MemCtrl(q) ==
  IF q.WEN THEN [ramload |-> 0, ramstate |-> 1]
  ELSE IF q.REN THEN [ramload |-> ram[q.addr], ramstate |-> 1]
  ELSE [ramload |-> 0, ramstate |-> 0]

\* sel_c1load to sel_c2state.
Returned(r, zero, answer) ==
  << Switch(zero, c1req(r), answer), Switch(zero, not_c1req, answer) >>

\* A cycle: the cores drive r, and what they are given is settled at its end.
Cycle ==
  \E r \in [Core -> Request] :
    LET q == Selected(r)
        answer == MemCtrl(q)
    IN /\ \A c \in Core :
            request[c] # NoRequest /\ state[c] = 0 => r[c] = request[c]
       /\ request' = r
       /\ chosen' = Switch(1, c1req(r), 2)
       /\ ram' = IF q.WEN THEN [ram EXCEPT ![q.addr] = q.store] ELSE ram
       /\ ramstate' = answer.ramstate
       /\ load' = Returned(r, 0, answer.ramload)
       /\ state' = Returned(r, 0, answer.ramstate)

Spec == Init /\ [][Cycle]_vars
-----------------------------------------------------------------------------
\* The answer of the memory goes to the core whose request was chosen, and to
\* no other: create_dualcore_model.m says so of its return path.
ReturnPath ==
  /\ state[chosen] = ramstate
  /\ \A c \in Core \ {chosen} : state[c] = 0
=============================================================================
