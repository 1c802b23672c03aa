------------------------------- MODULE EventLoop -------------------------------
(***************************************************************************)
(* vtelem/daemon/event_loop.py and the two daemons built on it, the        *)
(* websocket server (daemon/websocket.py) and the websocket client         *)
(* (client/websocket.py).  A daemon's thread runs an asyncio loop that     *)
(* outlives it: tasks that are unfinished when the loop stops go on when   *)
(* the daemon is started again.  Another thread stops the loop: it notes   *)
(* how many connections were counted, cancels all tasks, gives them a      *)
(* grace period, schedules the loop's stop and then expects one post of a  *)
(* semaphore for every connection it noted.                                *)
(*                                                                         *)
(* One controller starts and stops the daemon, as DaemonManager's lock     *)
(* sees to; module DaemonBase has the rest of the life cycle.  asyncio is  *)
(* modelled by what this code relies on: one task runs at a time, what is  *)
(* ready runs before a stop that was scheduled, a handler that blocks      *)
(* holds everybody else up.                                                *)
(***************************************************************************)
EXTENDS Integers, FiniteSets

CONSTANTS
  Roles,     \* which daemons: "server", "client"
  Tasks,     \* the connections' tasks
  MaxStarts  \* bound on the starts of the daemon

ASSUME EventLoopAssumption ==
  /\ Roles \subseteq {"server", "client"}
  /\ IsFiniteSet(Tasks) /\ MaxStarts \in Nat
  /\ Cardinality(Tasks) >= MaxStarts  \* a task for every start of a client

VARIABLES
  role,       \* which of the daemons this is; never changes
  starts,     \* the starts so far
  state,      \* the daemon's state
  loop,       \* what its thread does: "off", "init", "setup" or "forever"
  stopping,   \* is eloop.stop scheduled?
  serving,    \* self.serving of a server
  listening,  \* does a server's socket listen?
  routine,    \* the task that run_init waits for: "none", "pending", "cancelled"
  left,       \* such tasks of earlier starts that are still pending
  stage,      \* how far each connection's task is
  cancelled,  \* the tasks that will find themselves cancelled
  blocked,    \* the task whose handler blocks the loop, if any
  connected,  \* self.connected of a client
  wait_count, \* self.wait_count
  wait_poster,\* the value of the semaphore
  pc,         \* where the controller is in event_loop_stopper
  waits,      \* the connections that it noted
  tried,      \* the acquires it has made
  waited,     \* those that did not time out
  lost,       \* posts taken by stops that failed (history)
  cut         \* has a stop hit a server's set-up? (history)

loopVars == <<role, starts, state, loop, stopping>>
setupVars == <<serving, listening, routine, left, cut>>
taskVars == <<stage, cancelled, blocked, connected, wait_count, wait_poster>>
stopVars == <<pc, waits, tried, waited, lost>>
vars == <<loopVars, setupVars, taskVars, stopVars>>

Nobody == "nobody"

TypeOK ==
  /\ role \in Roles /\ starts \in 0 .. MaxStarts
  /\ state \in {"IDLE", "RUNNING", "STOPPING"}
  /\ loop \in {"off", "init", "setup", "forever"}
  /\ {stopping, serving, listening, connected, cut} \subseteq BOOLEAN
  /\ routine \in {"none", "pending", "cancelled"} /\ left \in Nat
  /\ stage \in [Tasks -> {"none", "scheduled", "open", "closing", "done"}]
  /\ cancelled \subseteq Tasks /\ blocked \in Tasks \cup {Nobody}
  /\ {wait_count, wait_poster, waits, tried, waited, lost} \subseteq Nat
  /\ pc \in {"idle", "note", "cancel", "grace", "acquire"}

Init ==
  /\ role \in Roles /\ starts = 0
  /\ state = "IDLE" /\ loop = "off" /\ stopping = FALSE
  /\ serving = FALSE /\ listening = FALSE
  /\ routine = "none" /\ left = 0 /\ cut = FALSE
  /\ stage = [t \in Tasks |-> "none"]
  /\ cancelled = {} /\ blocked = Nobody /\ connected = FALSE
  /\ wait_count = 0 /\ wait_poster = 0
  /\ pc = "idle" /\ waits = 0 /\ tried = 0 /\ waited = 0 /\ lost = 0

-----------------------------------------------------------------------------
(* The daemon's thread *)

Start ==
  /\ pc = "idle" /\ state = "IDLE" /\ starts < MaxStarts
  /\ starts' = starts + 1
  /\ state' = "RUNNING" /\ loop' = "init"
  /\ UNCHANGED <<role, stopping, setupVars, taskVars, stopVars>>

\* A server sets up once: while it does, the loop already runs.
InitServer ==
  /\ loop = "init" /\ role = "server"
  /\ IF serving THEN loop' = "forever" /\ UNCHANGED routine
     ELSE loop' = "setup" /\ routine' = "pending"
  /\ UNCHANGED <<role, starts, state, stopping, serving, listening, left, cut,
                 taskVars, stopVars>>

\* A client schedules connect() unless it has a connection.
NeedsTask_Mut == TRUE
NeedsTask == ~connected

InitClient ==
  /\ loop = "init" /\ role = "client"
  /\ loop' = "forever"
  /\ IF NeedsTask
       THEN \E t \in Tasks :
              stage[t] = "none" /\ stage' = [stage EXCEPT ![t] = "scheduled"]
       ELSE UNCHANGED stage
  /\ UNCHANGED <<role, starts, state, stopping, setupVars, cancelled, blocked,
                 connected, wait_count, wait_poster, stopVars>>

\* run() is over, by return or exception: run_harness makes the daemon idle.
ThreadEnds == loop' = "off" /\ state' = "IDLE" /\ UNCHANGED <<role, starts>>

Free == loop \in {"setup", "forever"} /\ blocked = Nobody

\* routine() has the server; run_until_complete stops the loop for itself, and
\* a stop that was scheduled meanwhile is gone with it.
SetupDone_Mut ==
  /\ loop = "setup" /\ Free /\ routine = "pending" /\ left = 0 /\ ~listening
  /\ listening' = TRUE /\ routine' = "none"
  /\ loop' = "forever"
  /\ stopping' = FALSE /\ cut' = (cut \/ stopping)
  /\ UNCHANGED <<role, starts, state, serving, left, taskVars, stopVars>>

SetupDone ==
  /\ loop = "setup" /\ Free /\ routine = "pending" /\ left = 0 /\ ~listening
  /\ listening' = TRUE /\ routine' = "none"
  /\ serving' = TRUE /\ loop' = "forever"
  /\ stopping' = FALSE /\ cut' = (cut \/ stopping)
  /\ UNCHANGED <<role, starts, state, left, taskVars, stopVars>>

\* The stop comes first: run_until_complete raises RuntimeError, and its task
\* stays in the loop.
SetupStopped ==
  /\ loop = "setup" /\ Free /\ routine = "pending" /\ stopping
  /\ stopping' = FALSE /\ ThreadEnds
  /\ routine' = "none" /\ left' = left + 1 /\ cut' = TRUE
  /\ UNCHANGED <<serving, listening, taskVars, stopVars>>

\* The task was cancelled, before or after its socket began to listen; a stop
\* may be scheduled before the loop ends, or too late for it.
SetupCancelled ==
  /\ loop = "setup" /\ Free /\ routine = "cancelled"
  /\ stopping' \in {stopping, FALSE} /\ ThreadEnds
  /\ listening' \in {listening, TRUE}
  /\ routine' = "none" /\ cut' = TRUE
  /\ UNCHANGED <<serving, left, taskVars, stopVars>>

\* The address is in use, by an earlier set-up of this very daemon: OSError.
SetupFails ==
  /\ loop = "setup" /\ Free /\ routine = "pending" /\ listening
  /\ ThreadEnds
  /\ routine' = "none"
  /\ UNCHANGED <<stopping, serving, listening, left, cut, taskVars, stopVars>>

\* A set-up task that an earlier start left behind goes on.
LeftBehind ==
  /\ Free /\ left > 0
  /\ left' = left - 1 /\ listening' = TRUE
  /\ UNCHANGED <<serving, routine, cut, loopVars, taskVars, stopVars>>

\* What the loop runs before a stop that was scheduled: the first step of a
\* client's task is ready from the beginning.
Ready ==
  cancelled \cup {t \in Tasks : role = "client" /\ stage[t] = "scheduled"}

LoopStops ==
  /\ loop = "forever" /\ Free /\ stopping /\ Ready = {}
  /\ stopping' = FALSE /\ ThreadEnds
  /\ UNCHANGED <<setupVars, taskVars, stopVars>>

-----------------------------------------------------------------------------
(* Tasks.  A server's task is made by the websockets library, which runs the *)
(* handler after the handshake; a client's task is connect().                *)

Move(t, to) ==
  /\ stage' = [stage EXCEPT ![t] = to]
  /\ cancelled' = cancelled \ {t}
  /\ UNCHANGED <<blocked, loopVars, setupVars, stopVars>>

Accept(t) ==
  /\ Free /\ role = "server" /\ listening /\ stage[t] = "none"
  /\ Move(t, "scheduled")
  /\ UNCHANGED <<connected, wait_count, wait_poster>>

\* The connection is counted.
Open(t) ==
  /\ Free /\ stage[t] = "scheduled" /\ t \notin cancelled
  /\ Move(t, "open")
  /\ wait_count' = wait_count + 1
  /\ connected' = (role = "client")
  /\ UNCHANGED wait_poster

\* It never comes to that: a task that is cancelled before its first step, a
\* handshake that fails.
Drop(t) ==
  /\ Free /\ stage[t] = "scheduled"
  /\ t \in cancelled \/ role = "server"
  /\ Move(t, "done")
  /\ UNCHANGED <<connected, wait_count, wait_poster>>

\* A server's handler posts first and then closes the connection.
LeaveServer(t) ==
  /\ Free /\ role = "server" /\ stage[t] = "open"
  /\ Move(t, "closing")
  /\ wait_poster' = wait_poster + 1
  /\ UNCHANGED <<connected, wait_count>>

\* A client's `async with` closes the connection first ...
LeaveClient(t) ==
  /\ Free /\ role = "client" /\ stage[t] = "open"
  /\ Move(t, "closing")
  /\ UNCHANGED <<connected, wait_count, wait_poster>>

\* ... and posts then; there is nothing to close if it never got through.
Finish(t) ==
  /\ Free
  /\ stage[t] = "closing" \/ (role = "client" /\ stage[t] = "open")
  /\ Move(t, "done")
  /\ wait_poster' = IF role = "client" THEN wait_poster + 1 ELSE wait_poster
  /\ connected' = FALSE
  /\ UNCHANGED wait_count

\* telem_handle waits for frames, command_handler for a command's result and
\* handle_frames for room in a queue, and none of them gives the loop up.
Block(t) ==
  /\ Free /\ stage[t] = "open" /\ t \notin cancelled
  /\ blocked' = t
  /\ UNCHANGED <<stage, cancelled, connected, wait_count, wait_poster,
                 loopVars, setupVars, stopVars>>

Unblock ==
  /\ blocked # Nobody
  /\ blocked' = Nobody
  /\ UNCHANGED <<stage, cancelled, connected, wait_count, wait_poster,
                 loopVars, setupVars, stopVars>>

-----------------------------------------------------------------------------
(* event_loop_stopper *)

BeginStop ==
  /\ pc = "idle" /\ state = "RUNNING"
  /\ state' = "STOPPING" /\ pc' = "note"
  /\ UNCHANGED <<role, starts, loop, stopping, setupVars, taskVars, waits,
                 tried, waited, lost>>

Note ==
  /\ pc = "note"
  /\ waits' = wait_count /\ pc' = "cancel"
  /\ UNCHANGED <<tried, waited, lost, loopVars, setupVars, taskVars>>

\* Every task of the loop is told to cancel, what earlier starts left included.
Alive == {t \in Tasks : stage[t] \in {"scheduled", "open", "closing"}}

ToCancel_Mut == cancelled
ToCancel == Alive

Cancel ==
  /\ pc = "cancel"
  /\ cancelled' = ToCancel
  /\ routine' = IF routine = "pending" THEN "cancelled" ELSE routine
  /\ left' = 0
  /\ pc' = "grace"
  /\ UNCHANGED <<waits, tried, waited, lost, serving, listening, cut, stage,
                 blocked, connected, wait_count, wait_poster, loopVars>>

\* All tasks are done, or time is up: task.cancel() alone does not wake a loop
\* that sleeps, so this may happen before anything was cancelled.
GraceOver_Mut ==
  /\ pc = "grace"
  /\ stopping' = (Alive = {}) /\ pc' = "acquire"
  /\ UNCHANGED <<waits, tried, waited, lost, role, starts, state, loop,
                 setupVars, taskVars>>

GraceOver ==
  /\ pc = "grace"
  /\ stopping' = TRUE /\ pc' = "acquire"
  /\ UNCHANGED <<waits, tried, waited, lost, role, starts, state, loop,
                 setupVars, taskVars>>

Acquire ==
  /\ pc = "acquire" /\ tried < waits /\ wait_poster > 0
  /\ wait_poster' = wait_poster - 1
  /\ waited' = waited + 1 /\ tried' = tried + 1
  /\ UNCHANGED <<pc, waits, lost, stage, cancelled, blocked, connected,
                 wait_count, loopVars, setupVars>>

\* A loop that nobody blocks runs what is ready within stop_grace.
WillRun == loop # "off" /\ blocked = Nobody /\ (Ready # {} \/ stopping)

AcquireTimesOut ==
  /\ pc = "acquire" /\ tried < waits /\ wait_poster = 0 /\ ~WillRun
  /\ tried' = tried + 1
  /\ UNCHANGED <<pc, waits, waited, lost, loopVars, setupVars, taskVars>>

\* assert waited == waits; what it has acquired is gone if that fails.
Settle_Mut ==
  /\ pc = "acquire" /\ tried = waits
  /\ wait_count' = wait_count - waited
  /\ lost' = IF waited = waits THEN lost ELSE lost + waited
  /\ pc' = "idle" /\ waits' = 0 /\ tried' = 0 /\ waited' = 0
  /\ UNCHANGED <<stage, cancelled, blocked, connected, wait_poster, loopVars,
                 setupVars>>

Settle ==
  /\ pc = "acquire" /\ tried = waits
  /\ IF waited = waits
       THEN wait_count' = wait_count - waits /\ UNCHANGED lost
       ELSE lost' = lost + waited /\ UNCHANGED wait_count
  /\ pc' = "idle" /\ waits' = 0 /\ tried' = 0 /\ waited' = 0
  /\ UNCHANGED <<stage, cancelled, blocked, connected, wait_poster, loopVars,
                 setupVars>>

-----------------------------------------------------------------------------

Stopper == Note \/ Cancel \/ GraceOver \/ Acquire \/ AcquireTimesOut \/ Settle

Setup ==
  \/ InitServer \/ InitClient
  \/ SetupDone \/ SetupStopped \/ SetupCancelled \/ SetupFails

\* What a running loop does by itself; the rest is up to the peers.
Resume(t) == t \in Ready /\ (Open(t) \/ Drop(t) \/ LeaveServer(t)
                               \/ LeaveClient(t) \/ Finish(t))

Next ==
  \/ Start \/ BeginStop \/ Stopper
  \/ Setup \/ LeftBehind \/ LoopStops \/ Unblock
  \/ \E t \in Tasks :
       \/ Accept(t) \/ Open(t) \/ Drop(t)
       \/ LeaveServer(t) \/ LeaveClient(t) \/ Finish(t)
       \/ Block(t)

\* Threads run.  A handler that blocks is not obliged to stop doing so: frames
\* may keep coming.
Fairness ==
  /\ WF_vars(Stopper) /\ WF_vars(Setup) /\ WF_vars(LoopStops)
  /\ WF_vars(LeftBehind)
  /\ \A t \in Tasks : WF_vars(Resume(t))

Spec == Init /\ [][Next]_vars /\ Fairness

-----------------------------------------------------------------------------
(* Properties *)

\* The connections that were counted and have not posted.
Unposted ==
  {t \in Tasks : stage[t] = "open" \/ (role = "client" /\ stage[t] = "closing")}

\* wait_count is exactly the posts that are there, those a stopper has taken
\* (the present one, and earlier ones whose assertion failed) and those still
\* to come from open connections, whatever was opened, ended or left behind
\* while stops were going on.
WaitsAccounted ==
  wait_count = wait_poster + waited + lost + Cardinality(Unposted)

\* A stop waits in vain, and fails its assertion, only if a handler blocks the
\* loop, a client's connection was still closing when the loop was stopped, an
\* earlier stop failed after taking posts, or one has hit the set-up.
MissesExplained ==
  [][tried' > tried /\ waited' = waited =>
       \/ blocked # Nobody \/ lost > 0 \/ cut
       \/ \E t \in Tasks : role = "client" /\ stage[t] = "closing"]_vars

\* A client never has two connections, however stops and starts fall: what a
\* stop left behind is found again through self.connected.
SingleConnection == role = "client" => Cardinality(Alive) <= 1

\* A stop that got as far as scheduling the loop's stop ends the daemon's
\* thread, unless a handler blocks the loop or the stop hit the set-up.
StopHeard ==
  (pc = "acquire") ~> (loop = "off" \/ blocked # Nobody \/ cut)

\* A daemon that is started again serves again, unless it is being stopped or
\* a stop has once hit its set-up: from then on its own socket or its own
\* left-over set-up can be in its way.
RestartServes ==
  (loop = "init" /\ ~cut) ~> (loop = "forever" \/ pc # "idle" \/ cut)
=============================================================================
