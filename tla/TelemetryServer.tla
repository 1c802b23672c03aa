--------------------------- MODULE TelemetryServer ---------------------------
(***************************************************************************)
(* vtelem/telemetry/server.py with vtelem/daemon/manager.py and            *)
(* vtelem/daemon/command_queue.py: the daemons of a server and the three   *)
(* threads that operate them.                                              *)
(*                                                                         *)
(*   main     app.py: start_all, scale_speed, await_shutdown               *)
(*   handler  the http request "shutdown", which calls stop_all            *)
(*   command  the command queue's own daemon, which carries out the        *)
(*            requests of http and websocket clients, "daemon" commands    *)
(*            among them                                                   *)
(*                                                                         *)
(* A daemon is no more than its state here: what its start, stop and pause *)
(* do in detail is in DaemonBase.  What is modelled is who holds the       *)
(* DaemonManager's lock, how perform_all walks the dependencies, who waits *)
(* for whom, and how commands are answered.                                *)
(***************************************************************************)
EXTENDS Naturals, SequencesExt, DaemonOps

CONSTANTS
  Daemons,    \* the daemons under the manager
  Order,      \* their names in the order of add_daemon
  DependsOn,  \* the names each depends on; a name need not be registered
  Command,    \* the one whose thread runs the command queue
  Mortal,     \* those whose task may end before it is asked to
  Requests,   \* calls of execute()
  Commands    \* what is asked for: [kind, op, names]

Http == "http"     \* the server itself, a daemon the manager does not know

ASSUME ServerAssumption ==
  /\ Order \in Seq(Daemons) /\ ToSet(Order) = Daemons /\ IsInjective(Order)
  /\ Command \in Daemons /\ Http \notin Daemons
  /\ DependsOn \in [Daemons -> Seq(STRING)]
  /\ \A c \in Commands :
       /\ c.kind \in {"rejected", "plain", "some", "all"}
       /\ c.op \in Operations \cup {"NONE"}

Actors == {"main", "handler", "command"}
Nobody == "nobody"
None == "None"     \* ends the command queue's thread
Threads == Daemons \cup {Http}

VARIABLES
  dstate,    \* the state of every daemon
  lock,      \* who holds the manager's lock
  phase,     \* the call that main and handler are in
  at,        \* where each actor is in it
  stack,     \* perform_stack: name_stack,
  executed,  \* executed,
  failed,    \* and the names whose result is False
  sem,       \* state_sem
  queue,     \* the command queue: requests, and None
  asked,     \* the command of each request
  request,   \* the request that is being handled
  names,     \* the daemons its command has yet to operate
  good,      \* all(bool_results) so far
  answer,    \* what the callback has stored for each request
  result,    \* what execute() has returned
  counts     \* the metrics of the command queue

walkVars == <<stack, executed, failed>>
commandVars == <<request, names, good, counts>>
clientVars == <<asked, answer, result>>
vars == <<dstate, lock, phase, at, walkVars, sem, queue,
          commandVars, clientVars>>

\* The operation that perform_all is called with.
AllOperation ==
  [start |-> "START", pause |-> "PAUSE", unpause |-> "UNPAUSE",
   stop |-> "STOP"]

Phases == DOMAIN AllOperation \cup
  {"serving", "httpstart", "await_start", "await_stop", "httplook",
   "httpstop", "httpjoin", "close", "done", "raised"}

Outcomes == {"success", "failure", "rejected"}

TypeOK ==
  /\ dstate \in [Threads -> States]
  /\ lock \in Actors \cup {Nobody}
  /\ phase \in [{"main", "handler"} -> Phases]
  /\ at \in [Actors ->
       {"out", "walk", "join", "get", "names", "perform", "reply"}]
  /\ sem \in 0 .. 3
  /\ ToSet(queue) \subseteq Requests \cup {None}
  /\ request \in Requests \cup {Nobody} /\ good \in BOOLEAN
  /\ DOMAIN answer = Requests /\ DOMAIN asked = Requests
  /\ answer \in [Requests -> {"none", "success", "failure"}]
  /\ result \in [Requests ->
       {"none", "waiting", "success", "failure", "unknown"}]
  /\ counts \in [Outcomes \cup {"command"} -> Nat]

Init ==
  /\ dstate = [d \in Threads |-> "IDLE"]
  /\ lock = Nobody
  /\ phase = [main |-> "start", handler |-> "serving"]
  /\ at = [main |-> "out", handler |-> "out", command |-> "get"]
  /\ stack = <<>> /\ executed = <<>> /\ failed = {}
  /\ sem = 0
  /\ queue = <<>>
  /\ asked = [r \in Requests |-> None]
  /\ request = Nobody /\ names = <<>> /\ good = TRUE
  /\ answer = [r \in Requests |-> "none"]
  /\ result = [r \in Requests |-> "none"]
  /\ counts = [m \in Outcomes \cup {"command"} |-> 0]

-----------------------------------------------------------------------------
(* DaemonBase.perform, of operation o on daemon d *)

\* The state that an operation's method insists on, and the next one.
From ==
  [START |-> "IDLE", STOP |-> "RUNNING", PAUSE |-> "RUNNING",
   UNPAUSE |-> "PAUSED", RESTART |-> "RUNNING"]
To ==
  [START |-> "STARTING", STOP |-> "STOPPING", PAUSE |-> "PAUSED",
   UNPAUSE |-> "RUNNING", RESTART |-> "STOPPING"]

Moves(d, o) == d \in Daemons /\ dstate[d] = From[o]
Joins(d, o) == o \in {"STOP", "RESTART"} /\ Moves(d, o)

\* Its result, unless it has a thread to join first.
Succeeds(d, o) ==
  d \in Daemons /\ (dstate[d] \in skip_if_state[o] \/ Moves(d, o))

\* What it does to the state, and the inject_stop of the command queue.
Apply(d, o) ==
  /\ dstate' = IF Moves(d, o) THEN [dstate EXCEPT ![d] = To[o]] ELSE dstate
  /\ queue' = IF Joins(d, o) /\ d = Command THEN Append(queue, None)
              ELSE queue

\* The daemons' threads.  run_harness sets RUNNING; a task may end by itself;
\* asked to stop, it ends sooner or later.  The command queue's thread is the
\* actor "command".
SetRunning(d) ==
  /\ dstate[d] = "STARTING"
  /\ dstate' = [dstate EXCEPT ![d] = "RUNNING"]
  /\ UNCHANGED <<lock, phase, at, walkVars, sem, queue, commandVars,
                 clientVars>>

SetIdle(d) ==
  /\ d # Command
  /\ \/ dstate[d] = "STOPPING"
     \/ d \in Mortal /\ dstate[d] \in {"RUNNING", "PAUSED"}
  /\ dstate' = [dstate EXCEPT ![d] = "IDLE"]
  /\ UNCHANGED <<lock, phase, at, walkVars, sem, queue, commandVars,
                 clientVars>>

-----------------------------------------------------------------------------
(* DaemonManager.perform_all, called by p *)

Performed(n) == n \in ToSet(executed)
Deps(n) == IF n \in Daemons THEN DependsOn[n] ELSE <<>>

\* to_execute: the dependencies that have to come first.
ToExecute_Mut(n) == ToSet(Deps(n)) \ Daemons
ToExecute(n) == {d \in ToSet(Deps(n)) : ~Performed(d)}

\* They keep their order: the k-th is the one with k of them up to it.
InOrder(n) ==
  LET deps == Deps(n)
      left == {i \in DOMAIN deps : deps[i] \in ToExecute(n)}
      Rank(i) == Cardinality({j \in left : j <= i})
  IN  [k \in 1 .. Cardinality(left) |-> deps[CHOOSE i \in left : Rank(i) = k]]

PerformAll(p) ==
  /\ phase[p] \in DOMAIN AllOperation /\ at[p] = "out" /\ lock = Nobody
  /\ lock' = p
  /\ stack' = Order /\ executed' = <<>> /\ failed' = {}
  /\ at' = [at EXCEPT ![p] = "walk"]
  /\ UNCHANGED <<dstate, phase, sem, queue, commandVars, clientVars>>

\* perform_stack pops the last name, and goes on with the others if it was
\* executed already.
Skip(p) ==
  /\ at[p] = "walk" /\ stack # <<>> /\ Performed(Last(stack))
  /\ stack' = Front(stack)
  /\ UNCHANGED <<dstate, lock, phase, at, executed, failed, sem,
                 queue, commandVars, clientVars>>

\* Its dependencies and the name itself go to the front, the far end.
Postpone_Mut(p) ==
  /\ at[p] = "walk" /\ stack # <<>>
  /\ LET curr == Last(stack) IN
       /\ ~Performed(curr) /\ ToExecute(curr) # {}
       /\ stack' = InOrder(curr) \o Front(stack)
  /\ UNCHANGED <<dstate, lock, phase, at, executed, failed, sem, queue,
                 commandVars, clientVars>>

Postpone(p) ==
  /\ at[p] = "walk" /\ stack # <<>>
  /\ LET curr == Last(stack) IN
       /\ ~Performed(curr) /\ ToExecute(curr) # {}
       /\ stack' = InOrder(curr) \o <<curr>> \o Front(stack)
  /\ UNCHANGED <<dstate, lock, phase, at, executed, failed, sem, queue,
                 commandVars, clientVars>>

\* perform(); a name that is not registered is a failure.
PerformNext(p) ==
  /\ at[p] = "walk" /\ stack # <<>>
  /\ LET curr == Last(stack)
         o == AllOperation[phase[p]]
     IN /\ ~Performed(curr) /\ ToExecute(curr) = {}
        /\ Apply(curr, o)
        /\ at' = IF Joins(curr, o) THEN [at EXCEPT ![p] = "join"] ELSE at
        /\ failed' = IF Succeeds(curr, o) THEN failed ELSE failed \cup {curr}
        /\ executed' = Append(executed, curr)
  /\ stack' = Front(stack)
  /\ UNCHANGED <<lock, phase, sem, commandVars, clientVars>>

\* join() returns, with a timeout at the latest; stop() is True either way.
Joined_Mut(p) ==
  /\ at[p] = "join" /\ p # "command" /\ dstate[Last(executed)] = "IDLE"
  /\ at' = [at EXCEPT ![p] = "walk"]
  /\ UNCHANGED <<dstate, lock, phase, walkVars, sem, queue, commandVars,
                 clientVars>>

Joined(p) ==
  /\ at[p] = "join" /\ p # "command"
  /\ at' = [at EXCEPT ![p] = "walk"]
  /\ UNCHANGED <<dstate, lock, phase, walkVars, sem, queue,
                 commandVars, clientVars>>

\* What follows perform_all: each call asserts that there was no failure.
AfterAll ==
  [start |-> "httpstart", pause |-> "unpause", unpause |-> "await_start",
   stop |-> "httplook"]

AllPerformed(p) ==
  /\ at[p] = "walk" /\ stack = <<>>
  /\ lock' = Nobody
  /\ at' = [at EXCEPT ![p] = "out"]
  /\ phase' = [phase EXCEPT ![p] =
                 IF failed = {} THEN AfterAll[phase[p]] ELSE "raised"]
  /\ executed' = <<>> /\ failed' = {}
  /\ UNCHANGED <<dstate, stack, sem, queue, commandVars, clientVars>>

-----------------------------------------------------------------------------
(* The rest of start_all, stop_all and await_shutdown *)

Goto(p, next) == phase' = [phase EXCEPT ![p] = next]

\* self.perform(START), and state_sem.release().
StartHttp ==
  /\ phase["main"] = "httpstart"
  /\ dstate' = [dstate EXCEPT ![Http] = "STARTING"]
  /\ sem' = sem + 1
  /\ Goto("main", "pause")
  /\ UNCHANGED <<lock, at, walkVars, queue, commandVars, clientVars>>

AwaitStart ==
  /\ phase["main"] = "await_start" /\ sem > 0
  /\ sem' = sem - 1
  /\ Goto("main", "await_stop")
  /\ UNCHANGED <<dstate, lock, at, walkVars, queue, commandVars,
                 clientVars>>

AwaitStop ==
  /\ phase["main"] = "await_stop" /\ sem > 0
  /\ sem' = sem - 1
  /\ Goto("main", "done")
  /\ UNCHANGED <<dstate, lock, at, walkVars, queue, commandVars,
                 clientVars>>

\* The time the server was given to run is over, if it was given one.
AwaitTimeout ==
  /\ phase["main"] = "await_stop"
  /\ Goto("main", "stop")
  /\ UNCHANGED <<dstate, lock, at, walkVars, sem, queue, commandVars,
                 clientVars>>

\* The "shutdown" request.
Shutdown ==
  /\ phase["handler"] = "serving" /\ dstate[Http] = "RUNNING"
  /\ Goto("handler", "stop")
  /\ UNCHANGED <<dstate, lock, at, walkVars, sem, queue, commandVars,
                 clientVars>>

\* self.perform(STOP), with no lock around it: a look at the state ...
LookAtHttp(p) ==
  /\ phase[p] = "httplook"
  /\ Goto(p, IF dstate[Http] \in skip_if_state["STOP"] THEN "close"
             ELSE "httpstop")
  /\ UNCHANGED <<dstate, lock, at, walkVars, sem, queue, commandVars,
                 clientVars>>

\* ... and stop(), which is False if it is no longer RUNNING.
StopHttp(p) ==
  /\ phase[p] = "httpstop"
  /\ IF dstate[Http] = "RUNNING"
       THEN dstate' = [dstate EXCEPT ![Http] = "STOPPING"]
            /\ Goto(p, "httpjoin")
       ELSE Goto(p, "raised") /\ UNCHANGED dstate
  /\ UNCHANGED <<lock, at, walkVars, sem, queue, commandVars,
                 clientVars>>

\* server.shutdown() waits for the serving thread.
HttpStopped(p) ==
  /\ phase[p] = "httpjoin" /\ dstate[Http] # "STOPPING"
  /\ Goto(p, "close")
  /\ UNCHANGED <<dstate, lock, at, walkVars, sem, queue, commandVars,
                 clientVars>>

\* close(), udp_clients.remove_all() and state_sem.release().
Close_Mut(p) ==
  /\ phase[p] = "close"
  /\ Goto(p, "done")
  /\ UNCHANGED <<dstate, lock, at, walkVars, sem, queue, commandVars,
                 clientVars>>

Close(p) ==
  /\ phase[p] = "close"
  /\ sem' = sem + 1
  /\ Goto(p, "done")
  /\ UNCHANGED <<dstate, lock, at, walkVars, queue, commandVars,
                 clientVars>>

-----------------------------------------------------------------------------
(* The command queue *)

\* execute() enqueues a command and waits two seconds for its callback.
Execute(r, c) ==
  /\ result[r] = "none"
  /\ result' = [result EXCEPT ![r] = "waiting"]
  /\ asked' = [asked EXCEPT ![r] = c]
  /\ queue' = Append(queue, r)
  /\ UNCHANGED <<dstate, lock, phase, at, walkVars, sem, commandVars,
                 answer>>

Answered(r) ==
  /\ result[r] = "waiting" /\ answer[r] # "none"
  /\ result' = [result EXCEPT ![r] = answer[r]]
  /\ UNCHANGED <<dstate, lock, phase, at, walkVars, sem, queue,
                 commandVars, asked, answer>>

TimesOut(r) ==
  /\ result[r] = "waiting" /\ answer[r] = "none"
  /\ result' = [result EXCEPT ![r] = "unknown"]
  /\ UNCHANGED <<dstate, lock, phase, at, walkVars, sem, queue,
                 commandVars, asked, answer>>

Counted(outcome) == [counts EXCEPT ![outcome] = @ + 1]

\* elem_handle calls back and is through with the command.
Reply(r, outcome) ==
  /\ request' = Nobody /\ names' = <<>> /\ good' = TRUE
  /\ answer' = [answer EXCEPT ![r] = IF outcome = "success" THEN "success"
                                     ELSE "failure"]
  /\ at' = [at EXCEPT !["command"] = "get"]

AtWork == dstate[Command] \in {"RUNNING", "PAUSED", "STOPPING"}
Ready(where) == AtWork /\ at["command"] = where

\* run() de-queues None and returns.
TakeNone ==
  /\ Ready("get") /\ queue # <<>> /\ Head(queue) = None
  /\ queue' = Tail(queue)
  /\ dstate' = [dstate EXCEPT ![Command] = "IDLE"]
  /\ UNCHANGED <<lock, phase, at, walkVars, sem, commandVars,
                 clientVars>>

\* run() de-queues a command; one that is malformed or has no handler is
\* answered at once.
TakeCommand ==
  /\ Ready("get") /\ queue # <<>> /\ Head(queue) # None
  /\ queue' = Tail(queue)
  /\ LET r == Head(queue)
         c == asked[r]
     IN IF c.kind = "rejected"
          THEN /\ Reply(r, "rejected")
               /\ counts' = [Counted("command") EXCEPT !["rejected"] = @ + 1]
          ELSE /\ request' = r /\ good' = TRUE
               /\ names' = IF c.kind = "some" THEN c.names ELSE <<>>
               /\ at' = [at EXCEPT !["command"] =
                     CASE c.kind = "plain" -> "reply"
                       [] c.kind = "some" -> "perform"
                       [] OTHER -> "names"]
               /\ counts' = Counted("command") /\ UNCHANGED answer
  /\ UNCHANGED <<dstate, lock, phase, walkVars, sem, asked, result>>

Operation == asked[request].op

\* "all" is the keys of manager.states(), which takes the lock.
AllNames ==
  /\ Ready("names") /\ lock = Nobody
  /\ names' = Order
  /\ at' = [at EXCEPT !["command"] = "perform"]
  /\ UNCHANGED <<dstate, lock, phase, walkVars, sem, queue, request,
                 good, counts, clientVars>>

\* manager.perform_str takes the lock for each name in turn, if it is one.
MayPerform_Mut == Ready("perform") /\ names # <<>>
MayPerform ==
  /\ Ready("perform") /\ names # <<>>
  /\ Head(names) \in Daemons => lock = Nobody

PerformOne ==
  /\ MayPerform
  /\ Operation = "NONE" => Head(names) \notin Daemons
  /\ ~Joins(Head(names), Operation)
  /\ Apply(Head(names), Operation)
  /\ good' = (good /\ Succeeds(Head(names), Operation))
  /\ names' = Tail(names)
  /\ UNCHANGED <<lock, phase, at, walkVars, sem, request, counts,
                 clientVars>>

StopOne ==
  /\ MayPerform
  /\ Joins(Head(names), Operation) /\ Head(names) # Command
  /\ Apply(Head(names), Operation)
  /\ lock' = "command"
  /\ at' = [at EXCEPT !["command"] = "join"]
  /\ UNCHANGED <<phase, walkVars, sem, commandVars, clientVars>>

\* restart() goes on to start(), which wants the daemon to be IDLE.
JoinedOne ==
  /\ Ready("join")
  /\ LET d == Head(names)
         again == Operation = "RESTART"
     IN /\ dstate' = IF again /\ dstate[d] = "IDLE"
                       THEN [dstate EXCEPT ![d] = "STARTING"] ELSE dstate
        /\ good' = (good /\ (again => dstate[d] = "IDLE"))
  /\ lock' = Nobody
  /\ names' = Tail(names)
  /\ at' = [at EXCEPT !["command"] = "perform"]
  /\ UNCHANGED <<phase, walkVars, sem, queue, request, counts,
                 clientVars>>

\* NONE raises KeyError, and a thread that joins itself RuntimeError: nobody
\* catches it, the thread ends, and OptionalRLock keeps the manager's lock.
Dies ==
  /\ MayPerform
  /\ \/ Operation = "NONE" /\ Head(names) \in Daemons /\ UNCHANGED queue
     \/ /\ Head(names) = Command /\ Joins(Command, Operation)
        /\ queue' = Append(queue, None)
  /\ dstate' = [dstate EXCEPT ![Command] = "IDLE"]
  /\ lock' = "command"
  /\ at' = [at EXCEPT !["command"] = "get"]
  /\ request' = Nobody /\ names' = <<>> /\ good' = TRUE
  /\ UNCHANGED <<phase, walkVars, sem, counts, clientVars>>

\* The answer to a "daemon" command includes manager.states().
StatesAdded ==
  /\ Ready("perform") /\ names = <<>> /\ lock = Nobody
  /\ at' = [at EXCEPT !["command"] = "reply"]
  /\ UNCHANGED <<dstate, lock, phase, walkVars, sem, queue,
                 commandVars, clientVars>>

\* Any other handler succeeds or fails as it likes.
HandlerReturns_Mut(ok) ==
  /\ Ready("reply")
  /\ asked[request].kind # "plain" => ok = good
  /\ Reply(request, IF ok THEN "success" ELSE "failure")
  /\ counts' = IF ok THEN Counted("success") ELSE counts
  /\ UNCHANGED <<dstate, lock, phase, walkVars, sem, queue, asked, result>>

HandlerReturns(ok) ==
  /\ Ready("reply")
  /\ asked[request].kind # "plain" => ok = good
  /\ LET outcome == IF ok THEN "success" ELSE "failure"
     IN Reply(request, outcome) /\ counts' = Counted(outcome)
  /\ UNCHANGED <<dstate, lock, phase, walkVars, sem, queue, asked, result>>

-----------------------------------------------------------------------------

Walk(p) ==
  \/ PerformAll(p) \/ Skip(p) \/ Postpone(p) \/ PerformNext(p)
  \/ Joined(p) \/ AllPerformed(p)
  \/ LookAtHttp(p) \/ StopHttp(p) \/ HttpStopped(p) \/ Close(p)

Main == Walk("main") \/ StartHttp \/ AwaitStart \/ AwaitStop

CommandThread ==
  \/ TakeNone \/ TakeCommand \/ AllNames \/ PerformOne \/ StopOne
  \/ JoinedOne \/ Dies \/ StatesAdded
  \/ \E ok \in BOOLEAN : HandlerReturns(ok)

Caller(r) == Answered(r) \/ TimesOut(r)

Next ==
  \/ \E d \in Threads : SetRunning(d) \/ SetIdle(d)
  \/ Main \/ AwaitTimeout
  \/ Walk("handler") \/ Shutdown
  \/ CommandThread
  \/ \E r \in Requests :
       Caller(r) \/ \E c \in Commands : Execute(r, c)

\* Threads that can run do run, and every wait for a daemon's thread ends,
\* with its timeout if need be; the http server's loop polls for shutdown().
Fairness ==
  /\ WF_vars(Main) /\ WF_vars(Walk("handler")) /\ WF_vars(CommandThread)
  /\ WF_vars(dstate[Http] = "STOPPING" /\ SetIdle(Http))

Spec == Init /\ [][Next]_vars /\ Fairness

-----------------------------------------------------------------------------
(* Properties *)

Walkers == {p \in {"main", "handler"} : at[p] \in {"walk", "join"}}

\* perform_stack is "respecting the dependency order": although dependencies
\* are put at the end of the list that pop() does not take from, no daemon is
\* operated on before all that it depends on.
DepsFirst ==
  \A i \in DOMAIN executed :
    \A n \in ToSet(Deps(executed[i])) : \E j \in 1 .. i - 1 : executed[j] = n

\* perform_all leaves nobody out and operates on nobody twice.
EachOnce ==
  /\ IsInjective(executed)
  /\ \A p \in Walkers : stack = <<>> => Daemons \subseteq ToSet(executed)

\* The states that an operation may have left behind when a daemon's task can
\* still end by itself.
Left ==
  [START |-> {"STARTING", "RUNNING", "IDLE"}, PAUSE |-> {"PAUSED", "IDLE"},
   UNPAUSE |-> {"RUNNING", "IDLE"}, STOP |-> {"STOPPING", "IDLE"}]

\* While perform_all holds the lock nobody undoes what it has done: a daemon
\* it has operated on successfully stays that way until the lock is released,
\* whatever commands are being carried out.
WalkHolds ==
  \A p \in Walkers : \A d \in (ToSet(executed) \ failed) \cap Daemons :
    dstate[d] \in Left[AllOperation[phase[p]]]

Handling == IF at["command"] # "get" THEN 1 ELSE 0

\* The thread of the command queue died with the manager's lock.
Leaked == lock = "command" /\ at["command"] = "get"

\* Every command that was taken is counted once more as a success, a failure
\* or rejected, but for the one being handled or the one the thread died of.
CommandAccounting ==
  counts["command"] =
    counts["success"] + counts["failure"] + counts["rejected"]
      + Handling + (IF Leaked THEN 1 ELSE 0)

\* The manager's lock is always released, although its holder waits for a
\* thread that may be waiting for the lock, unless an exception left it held.
LockReturned ==
  \A p \in Actors : (lock = p) ~> (lock # p \/ Leaked)

\* Once a "shutdown" request is through, await_shutdown() ends, wherever main
\* was when it came, unless the manager's lock is lost to it.
ShutdownHeard ==
  (phase["handler"] = "done")
    ~> (phase["main"] \in {"done", "raised"} \/ Leaked)

\* scale_speed asserts that all daemons could be paused; app.py calls it right
\* after start_all.
ScaleAsserts ==
  phase["main"] = "pause" /\ at["main"] = "walk" /\ stack = <<>>
    => failed = {}
=============================================================================
