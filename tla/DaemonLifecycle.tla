--------------------------- MODULE DaemonLifecycle ---------------------------
(***************************************************************************)
(* What a daemon promises, whoever calls it and in whatever order: its     *)
(* state moves only along the diagram below, and the subclass's run() is   *)
(* executing only while the state says that a thread is at work.           *)
(*                                                                         *)
(*     IDLE -> STARTING -> RUNNING <-> PAUSED                              *)
(*       ^                    |          |                                 *)
(*       |                    v          |                                 *)
(*       +---- (any) ---- STOPPING       |                                 *)
(*       +-------------------------------+                                 *)
(*                                                                         *)
(* Module DaemonBase, the code's locks, threads and callers, implements    *)
(* this specification.                                                     *)
(***************************************************************************)

VARIABLES
  state,      \* the daemon's state
  inRun       \* is some thread inside run()?

lifecycleVars == <<state, inRun>>

AtWork == {"RUNNING", "PAUSED", "STOPPING"}

Init == state = "IDLE" /\ inRun = FALSE

Begin == state = "IDLE" /\ state' = "STARTING" /\ UNCHANGED inRun

Enter ==
  /\ state = "STARTING" /\ ~inRun
  /\ state' = "RUNNING" /\ inRun' = TRUE

Suspend == state = "RUNNING" /\ state' = "PAUSED" /\ UNCHANGED inRun

Resume == state = "PAUSED" /\ state' = "RUNNING" /\ UNCHANGED inRun

AskToStop == state = "RUNNING" /\ state' = "STOPPING" /\ UNCHANGED inRun

\* run() returns or raises, at any moment.
Leave == inRun /\ inRun' = FALSE /\ UNCHANGED state

\* The state returns to IDLE once run() is over and not before.
Finish ==
  /\ state \in AtWork /\ ~inRun
  /\ state' = "IDLE" /\ UNCHANGED inRun

Next ==
  Begin \/ Enter \/ Suspend \/ Resume \/ AskToStop \/ Leave \/ Finish

Safe == Init /\ [][Next]_lifecycleVars

\* A daemon that was asked to stop does stop.
Stops == (state = "STOPPING") ~> (state = "IDLE")

Spec == Safe /\ Stops
=============================================================================
