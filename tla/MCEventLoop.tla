------------------------------ MODULE MCEventLoop ------------------------------
(***************************************************************************)
(* EventLoop for TLC: both daemons, three connections and three starts, so *)
(* that a stop can fail, and the next one meet what it left behind.        *)
(***************************************************************************)
EXTENDS EventLoop

CONSTANTS t1, t2, t3

BothRoles == {"server", "client"}
ThreeTasks == {t1, t2, t3}
=============================================================================
