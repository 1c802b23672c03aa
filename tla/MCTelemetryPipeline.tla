-------------------------- MODULE MCTelemetryPipeline --------------------------
(* Two channels of a group with a metric between them: sampled half as often,
   it makes a dispatch need two data frames.  What is commanded is not sampled
   within the time there is.  The application adds a new channel, or one whose
   name is taken. *)
EXTENDS TelemetryPipeline

MCOrder == <<"g1", "state", "g2", "cmd">>
MCGroup == {"g1", "g2"}
MCNames == {"new", "g1"}
MCRate == [g1 |-> 1, state |-> 2, g2 |-> 1, cmd |-> 3, new |-> 1]
MCSize == [c \in {"g1", "g2", "state", "cmd", "new"} |-> 1]
================================================================================
