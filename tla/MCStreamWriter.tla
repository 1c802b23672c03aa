---------------------------- MODULE MCStreamWriter ----------------------------
(***************************************************************************)
(* StreamWriter for TLC: one stream of each kind, one client queue.        *)
(* Three frames show a gap: one before it and one after.  A client queue   *)
(* of one frame is full as soon as its reader is one frame behind.         *)
(***************************************************************************)
EXTENDS StreamWriter

CONSTANTS t, u, f, q

AllKinds == {t, u, f}
KindOf == [s \in Streams |->
            CASE s = t -> "tcp" [] s = u -> "udp" [] s = f -> "file"]
OneClient == {q}

Deploy(attached, ss, qs) ==
  [attached |-> attached, streams |-> ss, clients |-> qs]

\* The server's writer with the streams it may serve at once, a writer of
\* its own kind (a tcp daemon's, a file's) and one with a websocket client.
SetUps ==
  {Deploy(TRUE, {t, u}, {}), Deploy(TRUE, {t, f}, {}), Deploy(TRUE, {u}, {q}),
   Deploy(FALSE, {t, f}, {}), Deploy(FALSE, {t}, {q})}

ServerWithTcp == {Deploy(TRUE, {t}, {})}
=============================================================================
