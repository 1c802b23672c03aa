----------------------------- MODULE MCDaemonBase -----------------------------
(***************************************************************************)
(* DaemonBase for TLC.  Two callers are enough for every race between two  *)
(* requests; two starts let a late stop() meet a restarted daemon and that *)
(* daemon meet a further request.                                          *)
(***************************************************************************)
EXTENDS DaemonBase

CONSTANTS a, b

Callers == {a, b}

AllOps == Operations \cup Blocks \cup {"NONE"}
=============================================================================
