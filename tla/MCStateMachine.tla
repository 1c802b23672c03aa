---------------------------- MODULE MCStateMachine ----------------------------
(***************************************************************************)
(* StateMachine for TLC: two threads, a state that is left at will and one *)
(* that has no run function, which stays where it is.                      *)
(***************************************************************************)
EXTENDS StateMachine

TwoStates == {"wait", "work"}
Runs == [s \in TwoStates |-> IF s = "wait" THEN TwoStates ELSE {"work"}]
=============================================================================
