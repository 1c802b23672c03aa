------------------------------- MODULE DaemonOps -------------------------------
(***************************************************************************)
(* The states of a daemon and the operations on it, shared by the module   *)
(* that models one daemon in detail (DaemonBase) and the one that models   *)
(* all the daemons of a server (TelemetryServer).                          *)
(***************************************************************************)

\* ERROR is left before the constructor returns.
States == {"IDLE", "STARTING", "RUNNING", "PAUSED", "STOPPING"}

\* The operations that daemon_ops gives an action to: all but NONE.
Operations == {"START", "STOP", "PAUSE", "UNPAUSE", "RESTART"}

\* The states in which perform() has nothing to do and returns True.
skip_if_state ==
  [START   |-> {"STARTING", "RUNNING"},
   STOP    |-> {"STOPPING", "IDLE"},
   PAUSE   |-> {"PAUSED"},
   UNPAUSE |-> {"IDLE", "RUNNING"},
   RESTART |-> {}]
=============================================================================
