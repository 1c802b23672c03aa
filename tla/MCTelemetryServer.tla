-------------------------- MODULE MCTelemetryServer --------------------------
(***************************************************************************)
(* TelemetryServer for TLC: the telemetry daemon, the command queue and an *)
(* application that depends on both and is registered between them, so     *)
(* that the walk has to postpone it.                                       *)
(***************************************************************************)
EXTENDS TelemetryServer

CONSTANT r1

Servers == {"telem", "command", "app"}
Registered == <<"telem", "app", "command">>
Depends == [telem |-> <<>>, command |-> <<>>, app |-> <<"command", "telem">>]

OneRequest == {r1}
NoRequest == {}

Cmd(kind, op, list) == [kind |-> kind, op |-> op, names |-> list]
SomeCommands ==
  {Cmd("rejected", "NONE", <<>>), Cmd("plain", "NONE", <<>>),
   Cmd("all", "RESTART", <<>>), Cmd("some", "NONE", <<"telem">>),
   Cmd("some", "STOP", <<"nobody", "telem">>)}
=============================================================================
