------------------------------ MODULE MCRequests ------------------------------
(***************************************************************************)
(* Requests for TLC: up to three requests out of those that can get in     *)
(* each other's way, an integer channel of two bits, one that may not be   *)
(* commanded and an enum channel.                                          *)
(***************************************************************************)
EXTENDS Requests

PlainChannels == {"speed", "fixed"}
EnumChannels == {"mode"}
MayCommand == {"speed", "mode"}
OnOff == {"on", "off"}

Http(via, path) == [Nothing EXCEPT !.via = via, !.path = path]
Cmd(via, form, op, chan, by) ==
  [Nothing EXCEPT !.via = via, !.path = "/command", !.form = form,
                  !.cmd = "channel", !.op = op, !.chan = chan, !.by = by]
Text(a, s) == [a EXCEPT !.kind = "text", !.text = s]
Int1(a, i) == [a EXCEPT !.kind = "int", !.int = i]

\* What gets in the way of looking handlers up, of the thread that runs
\* commands, and of the application; and what never should.
Lookups ==
  {Http("GET", "/"), Http("HEAD", "/nowhere"), Http("POST", "/nowhere"),
   Http("GET", "/registries"), Cmd("GET", "query", "get", "none", "text_id")}

Deaths ==
  {Cmd("GET", "query", "increment", "speed", "name"),
   Text(Cmd("GET", "query", "increment", "speed", "name"), "1"),
   Text(Cmd("GET", "query", "set", "mode", "name"), "on"),
   Text(Cmd("POST", "urlencoded", "set", "mode", "name"), "other")}

Writes ==
  {Int1(Cmd("ws", "query", "set", "speed", "id"), 2),
   Int1(Cmd("ws", "query", "decrement", "speed", "both"), 2),
   Text(Cmd("GET", "query", "set", "mode", "name"), "on"),
   Text(Cmd("GET", "query", "set", "mode", "name"), "off"),
   Cmd("GET", "query", "increment", "speed", "name")}

Others ==
  {Http("GET", "/id"), Http("POST", "/shutdown"),
   Text(Http("POST", "/shutdown"), "x"), Http("GET", "/types"),
   Http("GET", "/registries"), Cmd("ws", "query", "set", "none", "mismatch"),
   Cmd("POST", "multipart", "get", "speed", "name"),
   Cmd("ws", "malformed", "get", "mode", "name"),
   Cmd("ws", "query", "get", "mode", "name"),
   Cmd("ws", "query", "get", "none", "unknown"),
   Text(Cmd("POST", "urlencoded", "set", "speed", "name"), "1"),
   Cmd("GET", "query", "set", "speed", "name"),
   Int1(Cmd("ws", "query", "set", "fixed", "name"), 1),
   Int1(Cmd("ws", "query", "set", "speed", "name"), 4),
   Cmd("ws", "query", "divide", "speed", "name"),
   Cmd("GET", "query", "decrement", "mode", "name"),
   [Cmd("ws", "query", "none", "none", "none") EXCEPT !.cmd = "none"],
   [Cmd("ws", "query", "none", "none", "none") EXCEPT !.cmd = "other"],
   Text([Cmd("ws", "query", "none", "none", "none") EXCEPT !.cmd = "help"],
        "other")}

SomeLoads ==
  {[asks |-> Lookups, requests |-> 3, blocks |-> 0],
   [asks |-> Deaths, requests |-> 3, blocks |-> 0],
   [asks |-> Writes, requests |-> 2, blocks |-> 2],
   [asks |-> Others, requests |-> 2, blocks |-> 0]}
=============================================================================
