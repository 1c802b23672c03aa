------------------------------- MODULE Requests -------------------------------
(***************************************************************************)
(* What clients of a telemetry server ask for: the http requests that      *)
(* HttpRequestMapper hands to the handlers of factories/telemetry_server.py *)
(* and the commands among them, and those of the websocket command daemon, *)
(* that the command queue's thread applies to channels through             *)
(* factories/telemetry_environment.py, while the application works on its  *)
(* channel group.                                                          *)
(*                                                                         *)
(* ThreadingHTTPServer has a thread per request.  Nothing guards the       *)
(* mapper's dictionaries, and they, like those of the registries, are      *)
(* defaultdicts: to look an unknown key up is to insert it.                *)
(*                                                                         *)
(* How daemons and the server itself are commanded is in TelemetryServer.  *)
(***************************************************************************)
EXTENDS Integers, Sequences

CONSTANTS
  Loads,       \* what is asked for: [asks, requests, blocks], see below
  Plain,       \* the integer channels
  Enums,       \* the enum channels
  Commandable, \* the channels that may be commanded
  Bits,        \* the width of an integer channel
  EnumValues,  \* the strings of the enum
  App,         \* the channel of its group that the application changes
  MaxRequests  \* bound on the requests

Channels == Plain \cup Enums
Group == {App} \cup Enums  \* the application's channel group
Numbers == 1 .. MaxRequests
Methods == {"GET", "POST"}

\* The handlers that register_http_handlers and the mapper itself add.
Registered ==
  [m \in Methods |->
     IF m = "GET" THEN {"/", "/id", "/types", "/registries", "/command"}
     ELSE {"/shutdown", "/command"}]

\* A load is a set of things to ask for, a bound on the requests that ask for
\* them and a bound on the blocks that the application enters meanwhile.
Asks == UNION {l.asks : l \in Loads}

\* via "ws" is a message to the websocket command daemon.  form says where a
\* POST request has its arguments; the rest are the arguments of a command.
\* kind is the type of the value: what comes by http is text.
ASSUME RequestsAssumption ==
  /\ Asks \subseteq
       [via : {"GET", "HEAD", "POST", "ws"}, path : STRING,
        form : {"query", "urlencoded", "multipart", "malformed"},
        cmd : STRING, op : STRING, chan : Channels \cup {"none"},
        by : {"name", "id", "both", "mismatch", "unknown", "text_id", "none"},
        kind : {"absent", "int", "text"}, int : Int, text : STRING]
  /\ \A a \in Asks :
       a.via # "ws" => a.kind # "int" /\ a.by \in {"name", "unknown", "text_id",
                                                   "mismatch", "none"}
  /\ \A a \in Asks :  \* the daemon has no paths; names and ids are of channels
       /\ a.via = "ws" => a.path = "/command"
       /\ a.by \in {"name", "id", "both"} => a.chan \in Channels
  /\ Plain \cap Enums = {} /\ App \in Plain
  /\ Commandable \subseteq Channels
  /\ Bits \in Nat \ {0} /\ MaxRequests \in Nat
  /\ \A l \in Loads : l.requests \in 0 .. MaxRequests /\ l.blocks \in Nat

VARIABLES
  load,      \* what is asked for here; never changes
  table,     \* the keys of mapper.requests[method]
  pc,        \* where each request is
  ask,       \* what it asks for
  seen,      \* the keys when its iteration over a method's handlers began
  status,    \* its answer, "raised" if its thread ended without one
  result,    \* what the command's callback has brought
  late,      \* the requests that gave their command up (history)
  queue,     \* the command queue
  cpc,       \* the command queue's thread: "get", "add" or "dead"
  reading,   \* the value that its add() has read
  handlers,  \* the keys of its self.handlers
  text_keys, \* has the channel registry a key that is no integer?
  value,     \* the value of each channel
  applied,   \* the requests whose command wrote a channel (history)
  block,     \* is the application inside its group's data()?
  blocks,    \* its blocks so far
  snap,      \* the values read at the block's start
  inside,    \* the channels commanded since then (history)
  moved      \* has a block ended since add() read? (history)

mapVars == <<load, table, pc, ask, seen, status, late>>
cmdVars == <<queue, cpc, reading, handlers, text_keys, result, applied>>
appVars == <<block, blocks, snap>>
vars == <<mapVars, cmdVars, appVars, value, inside, moved>>

Nothing == [via |-> "GET", path |-> "/", form |-> "query", cmd |-> "none",
            op |-> "none", chan |-> "none", by |-> "none", kind |-> "absent",
            int |-> 0, text |-> ""]

\* integer_bounds of an unsigned type, integer_can_hold and default_val.
CanHold(v) == 0 <= v /\ v <= 2 ^ Bits - 1
DefaultEnum == CHOOSE v \in EnumValues : TRUE

TypeOK ==
  /\ load \in Loads
  /\ table \in [Methods -> SUBSET STRING]
  /\ pc \in [Numbers -> {"new", "lookup", "index", "index2", "handle",
                   "waiting", "done"}]
  /\ \A n \in Numbers : ask[n] \in Asks \cup {Nothing}
  /\ status \in [Numbers -> {"none", "200", "400", "404", "raised"}]
  /\ result \in [Numbers -> {"none", "success", "failure"}]
  /\ queue \in Seq(Numbers) /\ cpc \in {"get", "add", "dead"}
  /\ \A c \in Plain : CanHold(value[c])
  /\ \A c \in Enums : value[c] \in EnumValues
  /\ late \subseteq Numbers /\ applied \subseteq Numbers
  /\ inside \subseteq Channels /\ blocks \in 0 .. load.blocks
  /\ {text_keys, block, moved} \subseteq BOOLEAN

Init ==
  /\ load \in Loads
  /\ table = Registered
  /\ pc = [n \in Numbers |-> "new"] /\ ask = [n \in Numbers |-> Nothing]
  /\ seen = [n \in Numbers |-> {}] /\ late = {}
  /\ status = [n \in Numbers |-> "none"]
  /\ queue = <<>> /\ cpc = "get" /\ reading = 0
  /\ handlers = {"channel", "help"} /\ text_keys = FALSE
  /\ result = [n \in Numbers |-> "none"] /\ applied = {}
  /\ block = FALSE /\ blocks = 0
  /\ value = [c \in Channels |-> IF c \in Plain THEN 0 ELSE DefaultEnum]
  /\ snap = value /\ inside = {} /\ moved = FALSE

-----------------------------------------------------------------------------
(* Requests *)

Method(n) == IF ask[n].via = "POST" THEN "POST" ELSE "GET"
Path(n) == ask[n].path

Arrive(n, a) ==
  /\ pc[n] = "new" /\ n <= load.requests /\ a \in load.asks
  /\ \A m \in 1 .. n - 1 : pc[m] # "new"
  /\ ask' = [ask EXCEPT ![n] = a]
  /\ pc' = [pc EXCEPT ![n] = IF a.via = "ws" THEN "handle" ELSE "lookup"]
  /\ UNCHANGED <<load, table, seen, status, late, cmdVars, appVars, value, inside,
                 moved>>

\* Answers n and changes nothing else; "raised" is the end of its thread.
End(n, s) ==
  /\ status' = [status EXCEPT ![n] = s]
  /\ pc' = [pc EXCEPT ![n] = "done"]
  /\ UNCHANGED <<load, ask, cmdVars, appVars, value, inside, moved>>

\* get_handle inserts the path, with None for a handle; None is a 404.
HasHandle_Mut(n) == Path(n) \in table[Method(n)]
HasHandle(n) == Path(n) \in Registered[Method(n)]

Lookup(n) ==
  /\ pc[n] = "lookup"
  /\ table' = [table EXCEPT ![Method(n)] = @ \cup {Path(n)}]
  /\ IF HasHandle(n)
       THEN /\ pc' = [pc EXCEPT ![n] = IF Path(n) = "/" THEN "index"
                                       ELSE "handle"]
            /\ seen' = [seen EXCEPT ![n] = table'["GET"]]
            /\ UNCHANGED <<load, status, ask, cmdVars, appVars, value, inside,
                           moved>>
       ELSE End(n, "404") /\ UNCHANGED seen
  /\ UNCHANGED late

\* index_handler: an insertion ends the iteration with RuntimeError.  Paths
\* are inserted below both methods, but each is iterated over by itself.
Index(n) ==
  /\ pc[n] = "index"
  /\ \/ /\ table["GET"] = seen[n]
        /\ seen' = [seen EXCEPT ![n] = table["POST"]]
        /\ pc' = [pc EXCEPT ![n] = "index2"]
        /\ UNCHANGED <<load, status, ask, cmdVars, appVars, value, inside,
                       moved>>
     \/ table["GET"] # seen[n] /\ End(n, "raised") /\ UNCHANGED seen
  /\ UNCHANGED <<table, late>>

Index2(n) ==
  /\ pc[n] = "index2"
  /\ End(n, IF table["POST"] = seen[n] THEN "200" ELSE "raised")
  /\ UNCHANGED <<table, seen, late>>

\* The handlers of paths other than "/command".  json.dumps sorts the keys of
\* every registry, which it cannot if one of them is text; int() raises on an
\* app_id that is no number.  The right app_id is TelemetryServer's shutdown.
Outcome(n) ==
  CASE Path(n) \in {"/id", "/types"} -> "200"
    [] Path(n) = "/registries" -> IF text_keys THEN "raised" ELSE "200"
    [] OTHER (* "/shutdown" *) -> IF ask[n].kind = "text" THEN "raised"
                                  ELSE "400"

Handle(n) ==
  /\ pc[n] = "handle" /\ Path(n) # "/command"
  /\ End(n, Outcome(n))
  /\ UNCHANGED <<table, seen, late>>

\* get_post_request_data knows two forms; the fields of a multipart one are
\* not where run_command looks.  A malformed websocket message is no JSON; any
\* other one is enqueued.
HasCommand(n) ==
  IF ask[n].via = "ws" THEN ask[n].form # "malformed"
  ELSE ask[n].cmd # "none" /\ ask[n].form # "multipart"

HandleNoCommand(n) ==
  /\ pc[n] = "handle" /\ Path(n) = "/command" /\ ~HasCommand(n)
  /\ End(n, "400")
  /\ UNCHANGED <<table, seen, late>>

\* execute
Enqueue(n) ==
  /\ pc[n] = "handle" /\ Path(n) = "/command" /\ HasCommand(n)
  /\ queue' = Append(queue, n)
  /\ pc' = [pc EXCEPT ![n] = "waiting"]
  /\ UNCHANGED <<load, table, ask, seen, status, late, cpc, reading,
                 handlers, text_keys, result, applied, appVars, value, inside, moved>>

Answered(n) ==
  /\ pc[n] = "waiting" /\ result[n] # "none"
  /\ End(n, IF result[n] = "success" THEN "200" ELSE "400")
  /\ UNCHANGED <<table, seen, late>>

\* Two seconds are over: False, whatever the callback brings later.
TimedOut_Mut(n) == FALSE
TimedOut(n) ==
  /\ pc[n] = "waiting"
  /\ End(n, "400")
  /\ late' = late \cup {n}
  /\ UNCHANGED <<table, seen>>

-----------------------------------------------------------------------------
(* The command queue's thread *)

\* channel_commander up to the channel: it needs an operation and a name or an
\* identifier; both must agree.
Found(a) ==
  /\ a.op # "none"
  /\ a.by \in {"name", "id", "both"}
  /\ a.op \in {"set", "get", "increment", "decrement"}

\* get_item inserts the identifier that it did not find.
Inserts(a) == a.op # "none" /\ a.by = "text_id"

Amount(a) ==
  LET by == IF a.kind = "absent" THEN 1 ELSE a.int IN
    IF a.op = "decrement" THEN -by ELSE by

\* Channel.command, and get_value of an enum: an unknown string fails an
\* assertion, and text that is added to a number is a TypeError.
ChannelVerdict(a) ==
  CASE ~Found(a) -> "refuse"
    [] Found(a) /\ a.op = "get" -> "get"
    [] Found(a) /\ a.op = "set" /\ a.kind = "absent" -> "refuse"
    [] Found(a) /\ a.op = "set" /\ a.kind # "absent" /\ a.chan \in Enums ->
         IF a.kind = "text" /\ a.text \in EnumValues
           THEN IF a.chan \in Commandable THEN "set" ELSE "refuse"
           ELSE "die"
    [] Found(a) /\ a.op = "set" /\ a.kind # "absent" /\ a.chan \in Plain ->
         IF a.chan \in Commandable /\ a.kind = "int" /\ CanHold(a.int)
           THEN "set" ELSE "refuse"
    [] Found(a) /\ a.op \in {"increment", "decrement"} ->
         IF a.chan \in Enums \/ a.chan \notin Commandable THEN "refuse"
         ELSE IF a.kind = "text" THEN "die" ELSE "add"

\* elem_handle: a command that has no handlers is rejected.
Verdict(a) ==
  CASE a.cmd \notin {"channel", "help"} -> "reject"
    [] a.cmd = "help" -> "help"
    [] a.cmd = "channel" -> ChannelVerdict(a)

Front == Head(queue)
Takes(verdict) ==
  /\ cpc = "get" /\ queue # <<>> /\ Verdict(ask[Front]) = verdict
  /\ UNCHANGED <<mapVars, appVars>>

\* elem_handle calls back and is through with the command.
Reply(ok) ==
  /\ result' = [result EXCEPT ![Front] = IF ok THEN "success" ELSE "failure"]
  /\ queue' = Tail(queue)

\* A message without a command, or one that has no handlers.  handlers is a
\* defaultdict of lists: a command nobody has registered is known to
\* help_handler once it was asked for.
Reject ==
  /\ Takes("reject") /\ Reply(FALSE)
  /\ handlers' = handlers \cup ({ask[Front].cmd} \ {"none"})
  /\ UNCHANGED <<cpc, reading, text_keys, applied, value, inside, moved>>

Help ==
  /\ Takes("help") /\ Reply(ask[Front].text \in handlers \cup {""})
  /\ UNCHANGED <<cpc, reading, handlers, text_keys, applied, value, inside,
                 moved>>

Refuse ==
  /\ Takes("refuse") /\ Reply(FALSE)
  /\ text_keys' = (text_keys \/ Inserts(ask[Front]))
  /\ UNCHANGED <<cpc, reading, handlers, applied, value, inside, moved>>

GetChannel ==
  /\ Takes("get") /\ Reply(TRUE)
  /\ UNCHANGED <<cpc, reading, handlers, text_keys, applied, value, inside,
                 moved>>

WriteChannel(v) ==
  /\ value' = [value EXCEPT ![ask[Front].chan] = v]
  /\ applied' = applied \cup {Front}
  /\ inside' = IF block THEN inside \cup {ask[Front].chan} ELSE inside

SetChannel ==
  /\ Takes("set") /\ Reply(TRUE)
  /\ WriteChannel(IF ask[Front].chan \in Enums THEN ask[Front].text
                  ELSE ask[Front].int)
  /\ UNCHANGED <<cpc, reading, handlers, text_keys, moved>>

\* add() reads, and then sets, and no lock makes that one step.
BeginAdd ==
  /\ Takes("add")
  /\ reading' = value[ask[Front].chan] /\ moved' = FALSE
  /\ cpc' = "add"
  /\ UNCHANGED <<queue, handlers, text_keys, result, applied, value, inside>>

EndAdd_Mut ==
  /\ cpc = "add"
  /\ cpc' = "get"
  /\ Reply(TRUE)
  /\ LET sum == reading + Amount(ask[Front]) IN
       IF CanHold(sum) THEN WriteChannel(sum)
       ELSE UNCHANGED <<value, applied, inside>>
  /\ UNCHANGED <<reading, handlers, text_keys, moved, mapVars, appVars>>

EndAdd ==
  /\ cpc = "add"
  /\ cpc' = "get"
  /\ LET sum == reading + Amount(ask[Front]) IN
       /\ Reply(CanHold(sum))
       /\ IF CanHold(sum) THEN WriteChannel(sum)
          ELSE UNCHANGED <<value, applied, inside>>
  /\ UNCHANGED <<reading, handlers, text_keys, moved, mapVars, appVars>>

\* The exception ends the thread; nobody calls back.
Die ==
  /\ Takes("die")
  /\ cpc' = "dead" /\ queue' = Tail(queue)
  /\ UNCHANGED <<reading, handlers, text_keys, result, applied, value, inside,
                 moved>>

\* The daemon is started again, on the queue as it is.
Revive ==
  /\ cpc = "dead"
  /\ cpc' = "get"
  /\ UNCHANGED <<queue, reading, handlers, text_keys, result, applied, mapVars,
                 appVars, value, inside, moved>>

-----------------------------------------------------------------------------
(* The application's `with group.data() as data` *)

EnterBlock_Mut ==
  /\ ~block /\ blocks < load.blocks
  /\ block' = TRUE /\ blocks' = blocks + 1
  /\ UNCHANGED snap /\ inside' = {}
  /\ UNCHANGED <<mapVars, cmdVars, value, moved>>

EnterBlock ==
  /\ ~block /\ blocks < load.blocks
  /\ block' = TRUE /\ blocks' = blocks + 1
  /\ snap' = value /\ inside' = {}
  /\ UNCHANGED <<mapVars, cmdVars, value, moved>>

\* It writes every channel of its group, with the value that it has for App.
ExitBlock(v) ==
  /\ block
  /\ block' = FALSE /\ moved' = TRUE
  /\ value' = [c \in Channels |-> IF c = App THEN v
                                  ELSE IF c \in Group THEN snap[c]
                                  ELSE value[c]]
  /\ UNCHANGED <<blocks, snap, inside, mapVars, cmdVars>>

-----------------------------------------------------------------------------

Request(n) ==
  \/ Lookup(n) \/ Index(n) \/ Index2(n) \/ Handle(n) \/ HandleNoCommand(n)
  \/ Enqueue(n) \/ Answered(n) \/ TimedOut(n)

CommandThread ==
  \/ Reject \/ Help \/ Refuse \/ GetChannel \/ SetChannel
  \/ BeginAdd \/ EndAdd \/ Die

Next ==
  \/ \E n \in Numbers : Request(n) \/ \E a \in Asks : Arrive(n, a)
  \/ CommandThread \/ Revive
  \/ EnterBlock \/ \E v \in {snap[App], 2 ^ Bits - 1} : ExitBlock(v)

\* Threads run; nobody is obliged to start the command queue again.
Fairness ==
  /\ \A n \in Numbers : WF_vars(Request(n))
  /\ WF_vars(CommandThread)

Spec == Init /\ [][Next]_vars /\ Fairness

-----------------------------------------------------------------------------
(* Properties *)

Commands(n) == Path(n) = "/command" /\ HasCommand(n)

\* A client that is told of success was obeyed, and one that is told of failure
\* was not, unless it was told so because two seconds had passed.
AnswerTruthful ==
  \A n \in Numbers :
    pc[n] = "done" /\ Commands(n) /\ Verdict(ask[n]) \in {"set", "add"} =>
      /\ status[n] = "200" => n \in applied
      /\ status[n] = "400" /\ n \in applied => n \in late

\* A path is answered with 404 exactly if nobody registered it for the method,
\* no matter who has asked for it before and put it into the table.  A request
\* is left without an answer only if it was for the index while a new unknown
\* path was looked up, for the registries after a channel was looked for by an
\* identifier in text, as all identifiers in http requests are, or for a
\* shutdown with text for an app_id.
FailuresExplained ==
  \A n \in Numbers :
    /\ pc[n] = "done" /\ ask[n].via # "ws" =>
         (status[n] = "404") = (Path(n) \notin Registered[Method(n)])
    /\ status[n] = "raised" =>
         \/ Path(n) = "/" /\ \E m \in Numbers : status[m] = "404"
         \/ Path(n) = "/registries"
              /\ \E m \in Numbers : Commands(m) /\ ask[m].by = "text_id"
         \/ Path(n) = "/shutdown" /\ ask[n].kind = "text"

\* Writes that nobody means to undo stand: add() adds to the value that is
\* there unless a block of the application has ended since it read, and a block
\* leaves channels the application did not change as they are unless a command
\* fell into it.
WritesKept ==
  /\ [][cpc = "add" /\ applied' # applied =>
          \/ moved
          \/ value'[ask[Front].chan] =
               value[ask[Front].chan] + Amount(ask[Front])]_vars
  /\ [][block /\ ~block' =>
          \A c \in Channels \ {App} : value'[c] = value[c] \/ c \in inside]_vars

\* Every request ends, also when the command queue's thread has died with its
\* command or is not there at all.
RequestsEnd == \A n \in Numbers : (pc[n] # "new") ~> (pc[n] = "done")
=============================================================================
