# A TLA+ model of vtelem

vtelem runs a telemetry server inside a Python program: channels are sampled at
their rates, packed into frames, and written to files, udp and tcp clients and
websockets, while http and websocket clients send it commands.  Every part with
a thread of its own is a *daemon*.  This directory models the parts of it whose
correctness depends on the order in which threads, clients and restarts come.

## The system

| Component | State | Operations | What makes it correct |
|---|---|---|---|
| daemon (`daemon/__init__.py`) | state, thread handle, metrics | start, stop, restart, pause, unpause, the blocks `booted` and `paused`, `run_harness` | one thread at a time; the harness's assertions hold; stops and pauses are accounted for; requests return |
| daemon manager (`daemon/manager.py`) | daemons, dependencies, a lock | perform, perform_all, states | dependencies first, everyone once, nobody interferes, the lock comes back |
| telemetry server (`telemetry/server.py`, `app.py`) | the manager, a semaphore, itself as http daemon | start_all, scale_speed, stop_all, await_shutdown | shutdown is heard; no deadlock of stop and commands |
| command queue (`daemon/command_queue.py`) | a queue, handlers, counts | execute, elem_handle | every command is answered or accounted for |
| stream writer (`stream/writer.py`, `classes/udp_client_manager.py`, tcp and websocket telemetry daemons) | streams, queues, closers, a count | add/remove stream, add/remove queue, the writer's thread | no gaps, closed once removed, handlers wake up, broken streams go |
| message cache (`message/cache.py`, `classes/data_cache.py`) | fragments in memory and on disk, counts, the complete messages | ingest, write, clean, load | complete means all there; told once; a restart forgets nothing |
| channels and telemetry environment (`channel/*.py`, `classes/event_queue.py`, `classes/metered_queue.py`, `daemon/telemetry.py`) | channels, event queue, time, frame queue, a lock | set, command, group write, emit, dispatch | what is sampled or changes is sent once, in order, whole; the lock comes back |
| frames and framing (`frame/*.py`, `message/framer.py`), frame processor | buffers, a size | build, serialize, parse, process | what is sent is what is parsed |
| clients (`client/*.py`) of tcp, udp, websockets and files | a connection, a frame processor, an output queue | start, connect, receive, decode, stop | nothing that arrives is lost or read twice; limits are kept |
| time keeper (`classes/time_keeper.py`) | time, scale, slaves | iteration, scale, sleep | time is the same for all of a dispatch |
| event-loop daemons (`daemon/event_loop.py`, `daemon/websocket.py`, `client/websocket.py`) | an asyncio loop, a wait count, a semaphore | run, set up, connect, serve, the stopper | a stop ends the thread and misses nobody; the daemon can be started again |
| http requests (`classes/http_request_mapper.py`, `factories/telemetry_server.py`) and channel commands (`factories/telemetry_environment.py`) | a table of handlers, the registries, the command queue, channels | look up, index, describe, run a command | answers are true; requests end; nobody's write is lost |
| state machines (`classes/state_machine.py`, `classes/state.py`) | the current state, data, a lock, metrics | run, data | a state is left only for another |
| schemas, mtu, udp client commands, command line | | | see "Not modelled" |

Components meet in four ways: the manager calls its daemons' operations under
one lock; daemons report metrics to the environment under another; frames and
commands travel through queues; and callbacks (closers of streams, result
callbacks of commands, a semaphore for shutdown) wake up whoever waits.  The hard
behaviours are the ones in PROJECT.json's `hazards`: requests that race with a
thread's own transitions, snapshots that are stale when used, locks held across
joins and blocking puts, exceptions that leave a lock held, repeated and lost
fragments, and processes that end between two writes.

## The modules

| Module | Models | Uses |
|---|---|---|
| `DaemonOps` | the states and operations of `enums/daemon.py` and the table `daemon_ops` | |
| `DaemonLifecycle` | what a daemon promises: its state diagram, and that a stop comes to its end | |
| `DaemonBase` | one daemon, its callers and its threads | `DaemonOps`, implements `DaemonLifecycle` |
| `TelemetryServer` | the manager, the server's main thread, the shutdown request and the command queue | `DaemonOps` |
| `StreamWriter` | the writer with its streams, clients and owners | |
| `MessageCache` | the cache in memory and on disk across restarts | |
| `TelemetryPipeline` | channels, their writers, the dispatcher, both queues, the writer's thread and stopping | |
| `MessageStream` | message framer, size headers, the clients and their frame processor | |
| `EventLoop` | an event-loop daemon, a server's or a client's, with its connections and its stopper | the life cycle of `DaemonBase`, reduced to one caller |
| `Requests` | http and websocket requests, the command queue's thread, an application with a channel group | |
| `StateMachine` | threads that share a state machine | |
| `MC...` | the instances TLC checks | |
| `..._proofs` | theorems and their proofs | |

**DaemonBase.** `state`, `thread` and `metrics` are the object's attributes (a
thread is a number, 0 is None); `worker` says how far each thread is in
`run_harness`; `pc` how far each caller is in its request.  A step is what happens
in one critical section, or between two: `Start` and `Launch` are start() with its
lock and the `thread.start()` after it; `BeginStop`, `InjectStop`, `AssertThread`,
`Join` and `Reap` are stop().  A refused request is an action of its own, since
`booted` and `paused` assert on it.  With `Managed` the callers go through
DaemonManager.perform and exclude each other.

**TelemetryServer.** A daemon is its state.  `stack`, `executed` and `failed` are the
arguments of `perform_stack`, one action per call of it (`InOrder` is its list to_execute);
`lock` is the manager's
lock, which is reentrant, so the walk takes it once.  `main` is app.py's `entry`,
`handler` the http request for a shutdown, `command` the thread of the command
queue: it takes the lock for each daemon of a "daemon" command in turn.  The model
includes what OptionalRLock does when its block raises (it stays locked), which
happens when the command queue's thread is told to join itself or is given the
operation "none"; both end the thread.  It excludes a later thread that happens to
get the identifier of the dead one, which would own the lock again.

**StreamWriter.** One action per critical section of the owner of a stream (a udp
client, a tcp handler, a user with a file), of a websocket client, and of the
writer's thread: `Take` copies streams and queues, then come the writes, the errors
and the puts, on a copy that goes stale.  A frame is a number, so that a gap can be
seen.  `deployment` says which streams and clients there are and whether a
UdpClientManager has installed its error handler (`Attached`).

**MessageCache.** Messages are sets of fragments; a fragment is stored on disk as it
arrives, counts and complete messages are saved by `write()` and `clean()` or at the
end of the `with` block; a process may end without it.  `Start` and `StartFails` are the
constructor on what is there.  Any fragment may arrive at any time, again too: every one
is counted, so a message of which one was repeated can be marked complete with another
missing (`Miscounted`, although the comments say "store this message fragment if we don't
have it" and "mark this message as complete if we now have all of the fragments"), and
with fragments of two messages of one type on disk the constructor raises and the cache
cannot be opened again.  `CompleteMeansAll` and `RestartOpens` say that nothing else goes
wrong.

**TelemetryPipeline.** `lock` is the environment's lock, which is the telemetry daemon's
as well.  `DispatchNow`, `Dispatch`, `NotDue` or `Emit` for each channel, ..., `Finish` are
one dispatch_now, in steps between which threads without the lock can run: a daemon that
publishes its state (`SetMetric`, `ChangedCallback`), the stream writer (`Get`, `Handle`), and stop_all.  A
frame has its kind, timestamp, used bytes and elements; `Pack` and `Follow` are the
cutting.  `AddChannel` registers a channel; a name that is taken fails an assertion with
the lock held, `OptionalRLock.__exit__` does not release it for an exception, and
`ChannelGroup.add_channel` catches the exception: from then on only the thread that
added the channel has the lock (`lock` is "application").  The "elements" metric of the
frame queue is updated by two threads without a lock; what that data race can do is
`MetricFails`.  The environment's own metrics (dispatch_count and the like) would be
further channels without a lock; they are left out, and so is handle_new_mtu, which
only the server's constructor calls.

**MessageStream.** A byte on the wire is the frame and the position it comes from, so
that an invariant can say what arrived.  A client is started, stopped and started
again (`Start`, `Stop`, `Stopped`), and its connection may end (`Disconnected`); a tcp or
websocket client then makes a new one (`Connect`), udp and file clients go on with what
they have (`Reuse`).  `RecvTcp` takes any number of the next bytes, `RecvUdp` any
datagram, again and in any order, `RecvWebsocket` the next frame, `ReadFile` a full piece.
`ReadSize` and `ReadFrame` are the loop of FrameProcessor.process, `ProcessRawFrames` what
becomes of the frames, up to a file client's max_frames.  Bytes that are taken for a
size header and are none may be any number; what is taken for a frame and is none is
dropped for its application identifier or checksum, or raises while its fields are
read (`DecodeRaises`).  The processor belongs to the client, not to the connection: `torn`
records that a connection followed one that had ended inside a frame.

**EventLoop.** `loop` is what the daemon's thread does, `stage` how far each connection's
task is, `pc` where the controller is in `event_loop_stopper`.  asyncio is modelled by what
the code relies on: one task runs at a time, what is ready runs before a later stop, a
handler that blocks (a command that waits for its result, telemetry that waits for
frames) holds all others up, and unfinished tasks go on when the loop runs again.  A stop
that hits a server's set-up (`cut`) can cancel `routine()` with its socket listening, make
`run_until_complete` raise, or be forgotten by it; afterwards the daemon may never serve
again, against the "make sure the loop can be started again" of
`tests/daemon/test_websocket_daemon.py`, which only stops a daemon that serves.  A stop
whose assertion fails has taken posts that later stops miss (`lost`).

**Requests.** A request is a record of what the code tells apart: the method, the path, the
form of its arguments and, for a command, the operation, the channel, how it is named and
the type of the value, since what comes by http is text.  `table` is the mapper's
dictionary, into which looking an unknown path up inserts it, and the index iterates over
it without a lock; `text_keys` says that the channel registry was asked for an identifier
in text, after which `/registries` cannot be described any more.  The command queue's
thread takes `Verdict`, which for a channel's command is `ChannelVerdict`, what
channel_commander and the channel decide; an unknown
enum string and text that is added to a number end the thread (`Die`) and nobody is
called back.  `BeginAdd` and `EndAdd` are add(), `EnterBlock` and `ExitBlock` the
application's `with group.data()`.

**StateMachine.** `curr` is what `run` read before it took the lock.  What the functions of a
state return is any choice; an assertion that fails leaves the machine's lock held.

## The runs

| Run | Instance | Shows |
|---|---|---|
| `daemon` | 2 callers, all requests and blocks, 2 starts, 1 pause | with any callers: a single runner, the assertions of `run_harness`, IDLE means over, stops accounted for; `DaemonBase` implements `DaemonLifecycle` |
| `daemon_managed` | 2 callers behind the manager, 3 starts, 2 pauses | no request raises, joined threads count as clean stops, started daemons run, requests return |
| `server` | 3 daemons with dependencies registered in an awkward order, one command of five kinds, a shutdown request and a timeout | dependencies first, everyone once, the walk is not disturbed, commands accounted for, the lock comes back, shutdown is heard |
| `server_scale` | no commands | **violated**: `scale_speed` right after `start_all` finds a daemon still starting |
| `stream_writer` | five deployments of a tcp, a udp and a file stream and a websocket client with room for one frame, with and without a UdpClientManager, 3 frames | no gaps, removed streams are closed, handlers wake up, the backlog is worked off |
| `stream_broken` | a tcp stream, a UdpClientManager attached | **violated**: the failed stream is not un-registered, the writer dies |
| `message_cache` | three messages of 3, 2 and 1 fragments, two types, repeats | complete means all unless a fragment was counted twice, told once, nothing forgotten, a restart opens unless two messages share a type |
| `pipeline` | two group channels, a metric, a commanded channel, one more to add; one write with the lock and one without, two times, queues of two | samples and events are conserved, groups are atomic, the lock comes back and stop_all ends, unless the writer is gone and the queue full or the lock was lost to a name that is taken |
| `message_stream` | all four transports, two messages of 0, 1 or 5 bytes, fragments of 1 to 3, 3 datagrams, 2 starts, a limit of 2 frames | exactly the frames that arrived are found until a connection is torn, a file client keeps to its limit, whole messages are what was sent |
| `event_loop` | a server and a client, 3 connections, 3 starts | the wait count is exact, one connection per client, a stop misses a post only for the reasons named, ends the thread, and a restart serves |
| `requests` | four loads of 4 to 19 different requests, up to 3 of them at once; a channel of 2 bits, one that may not be commanded, an enum; 2 blocks of the application | answers are true, 404 and requests without an answer are explained, writes are kept, requests end |
| `state_machine` | 2 threads, 2 states, 3 iterations | **violated**: the assertion of `State.leaving` fails after another thread's transition |

Bounds.  Two callers are what every race in `daemon` needs: each critical section
is one object's, and a third caller adds only another of the same two roles.  Two
starts let a late thread meet its successor; three let a restart meet both.  Three
daemons give the walk a daemon to postpone twice and a dependency on either side of
it.  Three frames show a gap: one before it and one after.  Three fragments leave one
missing while another is repeated.  In `pipeline` a write of the group, or a command, and
one of the metric give more events than the event queue holds and a sample more than a
frame holds; two times let a channel be due at every dispatch and another at every
second.  In `message_stream` a header and a frame can each be split over several reads, reads
hold the end of one frame and the start of the next, a sender's frame can be larger than
the client's mtu, and the second start finds whatever the first run left.  Three
connections and three starts let a stop fail and the next one meet what it left behind,
in the loop and in the wait count.  The loads of `requests` put together what can get into each
other's way (look-ups; commands that end the thread; writes and the application) and,
with two requests, everything else; three requests are a victim and two that meet
before it.

Every module of a component defines `TypeOK` (that of `MessageStream` is with its proofs).
It holds in all these instances, and is proved for `DaemonBase`, `StreamWriter`,
`MessageCache`, `EventLoop`, `TelemetryPipeline` and `MessageStream`; the cfgs spend their properties on what could be wrong.

Fairness.  Threads that can run do run (the operating system's scheduling);
`join()` ends, with its timeout if need be; the http server's loop polls for
shutdown().  Whoever waits for the environment's lock gets it in the end, since the
telemetry daemon sleeps between two dispatches with the lock free (strong fairness, for
stop_all only).  A daemon's `run` is assumed to notice a stop, which is what its loop
does; nothing is assumed of callers between requests, of the bodies of `booted`
and `paused`, of clients, or of the network.  In `EventLoop` a loop that nobody blocks
runs what is ready; a handler that blocks need never stop (frames may keep coming).  In
`Requests` nobody is obliged to start the command queue again, and the two seconds of
execute() pass.

All runs but those of managed daemons switch the deadlock check off: a server that was
shut down, a cache that has everything, a stream at its end and callers that ran into
an exception really stop.

## The proofs

Every component but `StateMachine` has a module of proofs.  The
inductive invariant of each (`IInv`) was checked with TLC on the instance of its run
before it was proved.

`DaemonBase_proofs`, for every finite set of callers and every bound.  The inductive
invariant is type correctness with three relations: only the newest thread can
be alive and the handle is that thread or None; the state and the thread's place in
`run_harness` determine each other up to the pauses and stops callers make; and
"count" is 1 exactly when the newest thread has ended.  `SingleRunner`,
`HarnessTransitions` and `IdleMeansOver` follow from it, and every step of the daemon is
shown to be a step of `DaemonLifecycle` or to leave it alone (`ImplementsSafely`).
`StopAccounting` is not inductive: after a start nobody has stopped yet, the count must
leave room for that stop, so `AccountInv` counts the unclaimed start as well.  For
callers behind the manager `ManagedInv` says that one request is under way at a time
and what the handle is at each point of it; `NoFault` and `CleanStopCounted` follow.

`TelemetryServer_proofs`, for any daemons, dependencies, order, requests and commands.
`IInv` adds to `WalkHolds` and `DepsFirst` who holds the lock (`HolderInv`): a walk holds
it from its first name to its last, the command queue's thread while it joins.  Then
nobody but a daemon's own thread changes its state during a walk (`QuietStep`), and
the daemon that comes next has all it depends on in `executed`.  `EachOnce` needs that
during a walk every daemon is executed or still on the stack (`WalkInv`), which the
lemmas about `InOrder` give: what is put back in front of a daemon is a list.
`CommandAccounting` is inductive once a thread that died with the lock is known never to
take another command: its daemon is IDLE, and nobody gets the lock to start it
(`CountInv`).

`StreamWriter_proofs`, for any streams, clients, deployments and sizes.  `NoGaps` speaks of
what was written; its invariant must say where the next frame comes from.  The input
queue holds the successors of the frame at hand, in order, with at most one None
(`InputOrdered`); a stream the writer has yet to write to ends in the frame before, a
registered stream that it has written to in the frame itself (`StreamAt`), and the same is
true of what a websocket client received with what its queue holds (`ClientAt`).  That the
snapshot is stale does no harm because a stream is in it, or is registered, or will never be
written to again.  `RemovedIsClosed` needs that a udp stream the error path has
un-registered was closed before (`ClosedAt`).

`MessageCache_proofs`, for any messages, repeats, writes and restarts.  What is counted is in
memory, what is in memory is on disk, and a count, the present one or the saved one,
is at least the number of different fragments it stands for, and equals the total exactly
if the message is marked complete (`StoresNested`, `CountsSound`).  Both counts need
the same relation, since a restart makes the saved one the present one.

`EventLoop_proofs`, for any number of connections and starts.  `WaitsAccounted` counts
connections and is inductive with types.  `SingleConnection` needs how a client finds the
task an earlier stop has left (`ClientTask`).  `MissesExplained` is an action property; its
invariant says that without a reason for a miss the stopper asks for no more posts
than there are, counted from the moment it read the wait count (`StopperCounts`,
`ThreadAndStop`).

`Requests_proofs`, for any requests, channels and blocks.  A command is in the queue once
and until its callback is made (`QueueOnce`), so what callbacks say is what was done and
what answers say is what callbacks said (`AnswerAt`); the table is what it was built as until
a path was not found (`TableAsBuilt`), so the index raises only after a 404; what add() has
read and what a block has copied is still there unless a flag says otherwise
(`ReadingFresh`, `SnapFresh`), which is `WritesKept`.

`TelemetryPipeline_proofs`, for any channels, groups, rates, sizes, mtu and queue sizes.
`GroupAtomic` is not inductive: it must be known why a sample that is yet to be taken
will agree with those on their way.  `SamplesAt` says that at the time of any sample of
the group every channel of it has been passed for that time (its rate has not gone by
since), or is yet to be looked at by the very dispatch that took the sample, with the
value the group still has; `GroupAt` that a group's channels are equal but while it holds
the lock.  So a second dispatch at the same time, which the dispatcher can make since it
reads the time before it takes the lock, samples none of the group again.  `EventsExplain`
needs that the change to every value is queued, consumed or framed (`Known`), and that
when the events' first frame is begun only events of the metric, which is written
without the lock, can still come (`EventsAt`).  `GroupAtomic` and `EventsExplain` are about sets of
elements (`OnTheWay`), so that the lemmas `WayAdds`, `WayHolds` and `WayPuts` about the
three things that happen to an element carry them.

`SamplesConserved` and `EventsReplay` are about their order: the elements of all frames
one behind the other, of one channel.  `Elements` describes that sequence by the frames
sent, the frame being filled and what is held back for the next, and the lemmas about it
say what each step of the dispatcher does to it: nothing, one element more at its end, or
the same elements in other frames.  A sample is then added only when the channel's rate
has gone by since last_emitted, which is the time of the last sample (`SampledAt`).  Events
pass from the queue to the dispatcher to frames without a change of order, so the trail of
a channel changes only where the channel does (`Told`).  The metric's change may be known
late; that it is the last of its trail is what makes `EventsReplay` true of it as well.

`MessageStream_proofs`, for any messages, mtus, header sizes, limits and ways to divide, lose,
repeat and reorder what is sent.  `ProcessExact` speaks of the moments between two recv; the
invariant must say where the loop stands in between.  For tcp and files (`StreamOK`) the
bytes in the buffer are the last ones taken, and they begin where frame g ends, or behind
the size header of g + 1 when the size is known (`StreamAt`); the frames found are those
that arrived but for g + 1 .. h, which wait in the buffer, and none waits outside the loop.
That a size is never found unreasonable there needs that senders have no larger mtu
(`SizesFit`).  For datagrams (`DatagramOK`) nothing is ever left in the buffer, since the
header of a whole datagram is its size, and one that was cut off is not reasonable and
is cleared.  What is staged decodes (`StagedWhole`), so handling all or only max_frames of it
loses nothing.  All this ends when a connection is torn, as `ProcessExact` says.
`MessagesWhole` follows from how the messages lie in the frames (`MessagesCut`), from the
theorem about finite sets that a subset of the same size is the set, and from
`FragmentsJoin`: the fragments of serialize_message, joined, count from 1 to the length.

Both modules rest on what `FlattenSeq` computes, which is defined by a recursive
function.  Induction over the natural numbers is used in a form without an operator
parameter: a set of numbers that has 0 and the successor of each of its members has all
(`Induct`, from the minimum of a well-founded relation).  `JoinExists` and `JoinUnique` then
say that the recursion has one solution, and `FlattenAppend`, `FlattenConcat` and the
lemmas about `FlatMap` follow.  They are stated in each of the two modules.

The assumptions are those of the constants, one per module (`DaemonAssumption`,
`ServerAssumption`, `WriterAssumption`, `CacheAssumption`, `EventLoopAssumption`, `RequestsAssumption`,
`PipelineAssumption`, `StreamAssumption`), which TLC evaluates on every run.  Some say what the code makes true:
a command of a websocket has no path and one by name or identifier names a channel;
an element with its header fits into an empty frame (build_data_frames asserts it).
`NobodyAssumption` says that the value for no stream is none.

Only model-checked: liveness under fairness, which is out of the prover's reach (that
includes what `ImplementsLifecycle` says beyond safety), and the three runs that show a
violation, which is all that `StateMachine` is for.  Every invariant and every action
property that a passing run checks is a theorem.

## Not modelled

Sleeping and the scaling of time, the registration of applications, the parsing of
multipart bodies, the layout of frames and stream frames, floating point.  Out of scope:
schemas and serialization (pure conversions and validation by a library), mtu (socket
probing), udp client commands (argument checks around the add and remove that
`StreamWriter` has), the command line.

## Plan

Done: the daemon with its lifecycle, the manager and the server, the stream writer, the
message cache, the telemetry pipeline, the message stream with its clients, event loops,
requests and commands, state machines.  Next, in this order:

1. One module for the lemmas about `FlattenSeq`, which two modules of proofs need.
2. As findings of their own: a tcp client that is restarted after a torn frame decodes no
   telemetry, though `tests/daemon/test_tcp_telemetry_daemon.py` is to "reboot the client a
   number of times and verify that it decodes telemetry on each boot"; the lock that is
   lost to a duplicate channel name.
3. Two threads that publish one daemon's state; `register_application`; the registration of
   enumerations, whose export asserts with the environment's lock held.
4. Data and event frames through the parser; `MessageStream` in front of `MessageCache`;
   the lost updates of queue metrics; `handle_new_mtu`.
