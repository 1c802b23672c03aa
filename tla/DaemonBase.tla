------------------------------ MODULE DaemonBase ------------------------------
(***************************************************************************)
(* vtelem/daemon/__init__.py: the daemon life cycle under concurrent       *)
(* callers.  A daemon owns a state, guarded by a reentrant lock, and the   *)
(* handle of at most one thread; every start() makes a new thread.  Each   *)
(* `with self.lock` block is one step here; everything the code does       *)
(* outside the lock (the lock-free look at the state in perform(), the     *)
(* launch of the thread, the hand-over to join()) is a step of its own.    *)
(*                                                                         *)
(* run() is "to be implemented by parent": it may end at any moment, and   *)
(* it does end once it sees STOPPING, as the loop of daemon/synchronous.py *)
(* and the poisoned queues of daemon/queue.py do.                          *)
(***************************************************************************)
EXTENDS Integers, FiniteSets, DaemonOps

CONSTANTS
  Controllers,  \* threads that operate the daemon
  Ops,          \* the requests they make
  Managed,      \* TRUE: every request goes through DaemonManager.perform
  MaxStarts,    \* bound on the threads made by start()
  MaxPauses     \* bound on the pauses asked for

\* The two context managers, which are only used on the daemon itself.
Blocks == {"booted", "paused"}

\* NONE is the one DaemonOperation without an entry of its own in daemon_ops.
ASSUME DaemonAssumption ==
  /\ IsFiniteSet(Controllers)
  /\ Managed \in BOOLEAN
  /\ MaxStarts \in Nat /\ MaxPauses \in Nat
  /\ Ops \subseteq Operations \cup {"NONE"} \cup Blocks
  /\ Managed => Ops \subseteq Operations

VARIABLES
  state,    \* self.state
  thread,   \* self.thread: the index of a thread, 0 for None
  worker,   \* where each thread made by start() is in run_harness
  pc,       \* where each controller is in its request
  op,       \* the request it is carrying out
  joined,   \* the thread its join() is waiting for
  metrics   \* self.function["metrics_data"]

vars == <<state, thread, worker, pc, op, joined, metrics>>

Threads == 1 .. MaxStarts
WorkerPCs ==
  {"none", "created", "launched", "running", "ended", "counted", "dead"}
ControllerPCs ==
  {"idle", "start", "launch", "yielded", "stop", "inject", "assert", "join",
   "joining", "reap", "pause", "held", "unpause", "raised"}
MetricNames == {"starts", "stops", "pauses", "unpauses", "count", "errors"}

\* The "_failed" forms are blocks whose opening assertion failed: their
\* finally clause still runs, and then the AssertionError goes on.
Requests == Ops \cup {"booted_failed", "paused_failed"}

TypeOK ==
  /\ state \in States
  /\ thread \in 0 .. MaxStarts
  /\ worker \in [Threads -> WorkerPCs]
  /\ pc \in [Controllers -> ControllerPCs]
  /\ op \in [Controllers -> Requests \cup {"none"}]
  /\ joined \in [Controllers -> 0 .. MaxStarts]
  /\ metrics \in [MetricNames -> Nat]

Init ==
  /\ state = "IDLE"
  /\ thread = 0
  /\ worker = [t \in Threads |-> "none"]
  /\ pc = [c \in Controllers |-> "idle"]
  /\ op = [c \in Controllers |-> "none"]
  /\ joined = [c \in Controllers |-> 0]
  /\ metrics = [m \in MetricNames |-> 0]

Go(c, label) == pc' = [pc EXCEPT ![c] = label]

(* The states in which the locked blocks act.  Definitions whose name ends   *)
(* in _Mut are deliberate mistakes: put in place of the definition that      *)
(* follows them, they must make a checked property fail.                     *)

MayStart_Mut == state \notin {"STARTING", "RUNNING"}
MayStart == state = "IDLE"

MayStop_Mut == state \in {"RUNNING", "STOPPING"}
MayStop == state = "RUNNING"

MayPause_Mut == state \notin {"IDLE", "PAUSED"}
MayPause == state = "RUNNING"

MayUnpause == state = "PAUSED"

-----------------------------------------------------------------------------
(* Requests *)

\* The method a request enters first.
Entry ==
  [START   |-> "start", STOP |-> "stop", PAUSE |-> "pause",
   UNPAUSE |-> "unpause", RESTART |-> "stop",
   booted  |-> "start", paused |-> "pause"]

\* DaemonManager.perform holds the manager's lock until the daemon's own
\* perform returns; OptionalRLock keeps it when an exception leaves the block.
ManagerFree_Mut == TRUE
ManagerFree == Managed => \A d \in Controllers : pc[d] = "idle"

\* The bounds: requests that no longer fit them are not made.
WithinBounds(o) ==
  /\ o \in {"START", "RESTART", "booted"} => metrics["starts"] < MaxStarts
  /\ o \in {"PAUSE", "paused"} => metrics["pauses"] < MaxPauses

\* perform looks at the state without the lock and, unless there is nothing
\* to do, calls the operation's method; by then the state may have moved on.
Perform(c, o) ==
  /\ pc[c] = "idle" /\ ManagerFree /\ WithinBounds(o)
  /\ o \in Operations
  /\ Go(c, IF state \in skip_if_state[o] THEN "idle" ELSE Entry[o])
  /\ op' = [op EXCEPT ![c] = o]
  /\ UNCHANGED <<state, thread, worker, joined, metrics>>

\* The default entry of daemon_ops has an action and no "skip_if_state", so
\* looking that up raises KeyError.
PerformNone(c) ==
  /\ pc[c] = "idle" /\ "NONE" \in Ops
  /\ Go(c, "raised")
  /\ op' = [op EXCEPT ![c] = "NONE"]
  /\ UNCHANGED <<state, thread, worker, joined, metrics>>

EnterBlock(c, o) ==
  /\ pc[c] = "idle" /\ WithinBounds(o)
  /\ o \in Blocks
  /\ Go(c, Entry[o])
  /\ op' = [op EXCEPT ![c] = o]
  /\ UNCHANGED <<state, thread, worker, joined, metrics>>

-----------------------------------------------------------------------------
(* start *)

Start(c) ==
  /\ pc[c] = "start"
  /\ MayStart /\ metrics["starts"] < MaxStarts
  /\ LET t == metrics["starts"] + 1 IN
       /\ thread' = t
       /\ worker' = [worker EXCEPT ![t] = "created"]
       /\ metrics' = [metrics EXCEPT !["count"] = 0, !["starts"] = t]
  /\ state' = "STARTING"
  /\ Go(c, "launch")
  /\ UNCHANGED <<op, joined>>

\* start() returns False; booted()'s assertion on it then fails, and its
\* finally clause stops the daemon that somebody else has started.
StartRefused(c) ==
  /\ pc[c] = "start" /\ ~MayStart
  /\ IF op[c] = "booted"
       THEN Go(c, "stop") /\ op' = [op EXCEPT ![c] = "booted_failed"]
       ELSE Go(c, "idle") /\ UNCHANGED op
  /\ UNCHANGED <<state, thread, worker, joined, metrics>>

Launchable == thread # 0 /\ worker[thread] = "created"

\* self.thread.start(), after the lock is released: the handle is read again.
Launch(c) ==
  /\ pc[c] = "launch" /\ Launchable
  /\ worker' = [worker EXCEPT ![thread] = "launched"]
  /\ Go(c, IF op[c] = "booted" THEN "yielded" ELSE "idle")
  /\ UNCHANGED <<state, thread, op, joined, metrics>>

\* The handle is None (AttributeError) or a thread that was started already
\* (RuntimeError).  A booted() block runs its finally clause.
LaunchFails(c) ==
  /\ pc[c] = "launch" /\ ~Launchable
  /\ IF op[c] = "booted"
       THEN Go(c, "stop") /\ op' = [op EXCEPT ![c] = "booted_failed"]
       ELSE Go(c, "raised") /\ UNCHANGED op
  /\ UNCHANGED <<state, thread, worker, joined, metrics>>

\* The body of a booted() block is over: finally, stop().
LeaveBooted(c) ==
  /\ pc[c] = "yielded"
  /\ Go(c, "stop")
  /\ UNCHANGED <<state, thread, worker, op, joined, metrics>>

-----------------------------------------------------------------------------
(* stop and restart *)

BeginStop(c) ==
  /\ pc[c] = "stop" /\ MayStop
  /\ state' = "STOPPING"
  /\ Go(c, "inject")
  /\ UNCHANGED <<thread, worker, op, joined, metrics>>

\* stop() returns False: in a booted() block the assertion on it fails.
StopRefused(c) ==
  /\ pc[c] = "stop" /\ ~MayStop
  /\ Go(c, IF op[c] \in {"booted", "booted_failed"} THEN "raised" ELSE "idle")
  /\ UNCHANGED <<state, thread, worker, op, joined, metrics>>

\* self.function["inject_stop"](), outside the lock; a daemon without one
\* raises KeyError, which is swallowed.
InjectStop(c) ==
  /\ pc[c] = "inject"
  /\ Go(c, "assert")
  /\ UNCHANGED <<state, thread, worker, op, joined, metrics>>

\* assert self.thread is not None
AssertThread(c) ==
  /\ pc[c] = "assert"
  /\ Go(c, IF thread # 0 THEN "join" ELSE "raised")
  /\ UNCHANGED <<state, thread, worker, op, joined, metrics>>

\* self.thread.join(...): the handle is read once more; None and a thread that
\* was not started yet raise.
Join(c) ==
  /\ pc[c] = "join"
  /\ IF thread # 0 /\ worker[thread] # "created"
       THEN Go(c, "joining") /\ joined' = [joined EXCEPT ![c] = thread]
       ELSE Go(c, "raised") /\ UNCHANGED joined
  /\ UNCHANGED <<state, thread, worker, op, metrics>>

\* join returns when the thread is over or when the timeout has passed.
JoinDone(c) ==
  /\ pc[c] = "joining" /\ worker[joined[c]] = "dead"
  /\ Go(c, "reap")
  /\ UNCHANGED <<state, thread, worker, op, joined, metrics>>

JoinTimeout(c) ==
  /\ pc[c] = "joining" /\ worker[joined[c]] # "dead"
  /\ Go(c, "reap")
  /\ UNCHANGED <<state, thread, worker, op, joined, metrics>>

AfterStop(c) ==
  CASE op[c] = "RESTART" -> "start"
    [] op[c] = "booted_failed" -> "raised"
    [] OTHER -> "idle"

Outcome == IF state = "IDLE" THEN "stops" ELSE "errors"

Reap(c) ==
  /\ pc[c] = "reap"
  /\ thread' = 0
  /\ metrics' = [metrics EXCEPT ![Outcome] = @ + 1]
  /\ Go(c, AfterStop(c))
  /\ UNCHANGED <<state, worker, op, joined>>

-----------------------------------------------------------------------------
(* pause and unpause *)

Pause(c) ==
  /\ pc[c] = "pause" /\ MayPause
  /\ state' = "PAUSED"
  /\ metrics' = [metrics EXCEPT !["pauses"] = @ + 1]
  /\ Go(c, IF op[c] = "paused" THEN "held" ELSE "idle")
  /\ UNCHANGED <<thread, worker, op, joined>>

\* pause() returns False; paused()'s assertion fails, and its finally clause
\* un-pauses the daemon that somebody else may have paused.
PauseRefused(c) ==
  /\ pc[c] = "pause" /\ ~MayPause
  /\ IF op[c] = "paused"
       THEN Go(c, "unpause") /\ op' = [op EXCEPT ![c] = "paused_failed"]
       ELSE Go(c, "idle") /\ UNCHANGED op
  /\ UNCHANGED <<state, thread, worker, joined, metrics>>

LeavePaused(c) ==
  /\ pc[c] = "held"
  /\ Go(c, "unpause")
  /\ UNCHANGED <<state, thread, worker, op, joined, metrics>>

Unpause(c) ==
  /\ pc[c] = "unpause" /\ MayUnpause
  /\ state' = "RUNNING"
  /\ metrics' = [metrics EXCEPT !["unpauses"] = @ + 1]
  /\ Go(c, IF op[c] = "paused_failed" THEN "raised" ELSE "idle")
  /\ UNCHANGED <<thread, worker, op, joined>>

UnpauseRefused(c) ==
  /\ pc[c] = "unpause" /\ ~MayUnpause
  /\ Go(c, IF op[c] \in {"paused", "paused_failed"} THEN "raised" ELSE "idle")
  /\ UNCHANGED <<state, thread, worker, op, joined, metrics>>

-----------------------------------------------------------------------------
(* run_harness, in the thread *)

\* set_state(RUNNING) reports whether it was a transition: only then run().
SetRunning(t) ==
  /\ worker[t] = "launched"
  /\ worker' = [worker EXCEPT ![t] =
                  IF state # "RUNNING" THEN "running" ELSE "ended"]
  /\ state' = "RUNNING"
  /\ UNCHANGED <<thread, pc, op, joined, metrics>>

\* run() returns because it has seen the request to stop ...
RunObservesStop(t) ==
  /\ worker[t] = "running" /\ state = "STOPPING"
  /\ worker' = [worker EXCEPT ![t] = "ended"]
  /\ UNCHANGED <<state, thread, pc, op, joined, metrics>>

\* ... or by itself: it has nothing left to do, or the task raised.
RunEnds(t) ==
  /\ worker[t] = "running" /\ state # "STOPPING"
  /\ worker' = [worker EXCEPT ![t] = "ended"]
  /\ UNCHANGED <<state, thread, pc, op, joined, metrics>>

CountRun_Mut(t) ==
  /\ worker[t] = "ended"
  /\ worker' = [worker EXCEPT ![t] = "counted"]
  /\ metrics' = [metrics EXCEPT !["count"] =
                   IF state = "STOPPING" THEN @ + 1 ELSE @]
  /\ UNCHANGED <<state, thread, pc, op, joined>>

CountRun(t) ==
  /\ worker[t] = "ended"
  /\ worker' = [worker EXCEPT ![t] = "counted"]
  /\ metrics' = [metrics EXCEPT !["count"] = @ + 1]
  /\ UNCHANGED <<state, thread, pc, op, joined>>

SetIdle(t) ==
  /\ worker[t] = "counted"
  /\ worker' = [worker EXCEPT ![t] = "dead"]
  /\ state' = "IDLE"
  /\ UNCHANGED <<thread, pc, op, joined, metrics>>

-----------------------------------------------------------------------------

Controller(c) ==
  \/ \E o \in Ops : Perform(c, o) \/ EnterBlock(c, o)
  \/ PerformNone(c)
  \/ Start(c) \/ StartRefused(c) \/ Launch(c) \/ LaunchFails(c)
  \/ LeaveBooted(c)
  \/ BeginStop(c) \/ StopRefused(c) \/ InjectStop(c) \/ AssertThread(c)
  \/ Join(c) \/ JoinDone(c) \/ JoinTimeout(c) \/ Reap(c)
  \/ Pause(c) \/ PauseRefused(c) \/ LeavePaused(c)
  \/ Unpause(c) \/ UnpauseRefused(c)

\* The steps the thread takes by itself, whatever the task does.
Harness(t) ==
  SetRunning(t) \/ RunObservesStop(t) \/ CountRun(t) \/ SetIdle(t)

Next ==
  \/ \E c \in Controllers : Controller(c)
  \/ \E t \in Threads : Harness(t) \/ RunEnds(t)

\* A request that is under way goes on: the methods never block, except in
\* join(), which has a timeout.  The bodies of the blocks belong to the caller.
InRequest(c) == pc[c] \notin {"idle", "yielded", "held"} /\ Controller(c)

\* The operating system schedules every thread that can run.
Fairness ==
  /\ \A t \in Threads : WF_vars(Harness(t))
  /\ \A c \in Controllers : WF_vars(InRequest(c))

Spec == Init /\ [][Next]_vars /\ Fairness

-----------------------------------------------------------------------------
(* Properties, for every set of callers *)

InHarness == {"launched", "running", "ended", "counted"}

\* However the callers interleave, two threads are never inside run_harness at
\* once: start() admits a caller only when the last thread has set IDLE.
SingleRunner ==
  \A t, u \in Threads :
    worker[t] \in InHarness /\ worker[u] \in InHarness => t = u

\* The two set_state calls of run_harness are unguarded and rely on being
\* transitions: `if self.set_state(RUNNING)` never skips run(), and
\* `assert self.set_state(IDLE)` never fails.
HarnessTransitions ==
  \A t \in Threads :
    /\ worker[t] = "launched" => state = "STARTING"
    /\ worker[t] = "counted" => state # "IDLE"

\* An IDLE daemon has no thread left that could still touch it, and the
\* "count" metric has recorded the end of its last run.
IdleMeansOver ==
  state = "IDLE" =>
    /\ \A t \in Threads : worker[t] \in {"none", "dead"}
    /\ metrics["count"] = IF metrics["starts"] = 0 THEN 0 ELSE 1

Stopping == {"inject", "assert", "join", "joining", "reap"}

\* Every start is stopped at most once: the stops that were counted, cleanly
\* or as errors, and the ones under way never outnumber the starts, although
\* begin_stop and the count are two separate critical sections.
StopAccounting ==
  metrics["stops"] + metrics["errors"]
    + Cardinality({c \in Controllers : pc[c] \in Stopping})
    <= metrics["starts"]

\* unpause() only ever undoes a pause: the metrics never show more of them.
UnpausesPaired ==
  metrics["unpauses"] + (IF state = "PAUSED" THEN 1 ELSE 0)
    <= metrics["pauses"]

\* The daemon, with all its callers and threads, is a DaemonLifecycle: its
\* state moves along that diagram, and a daemon asked to stop becomes IDLE.
Lifecycle == INSTANCE DaemonLifecycle
  WITH inRun <- \E t \in Threads : worker[t] = "running"

ImplementsLifecycle == Lifecycle!Spec

-----------------------------------------------------------------------------
(* Properties of the callers that go through the DaemonManager *)

\* Under the manager's lock no request ever ends in an exception: the handle
\* is there when it is launched, asserted on and joined.
NoFault == Managed => \A c \in Controllers : pc[c] # "raised"

\* Under the manager's lock a thread that was joined is counted in "stops",
\* never in "errors": nobody restarts the daemon before the count.
CleanStopCounted ==
  Managed => \A c \in Controllers :
    pc[c] = "reap" /\ worker[joined[c]] = "dead" => state = "IDLE"

\* Under the manager's lock a daemon that is STARTING comes to run.
StartsRun == Managed => ((state = "STARTING") ~> (state = "RUNNING"))

\* Under the manager's lock every request returns, and with it the lock.
RequestsReturn ==
  Managed => \A c \in Controllers : (pc[c] # "idle") ~> (pc[c] = "idle")

=============================================================================
