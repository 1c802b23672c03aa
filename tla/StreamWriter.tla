----------------------------- MODULE StreamWriter -----------------------------
(***************************************************************************)
(* vtelem/stream/writer.py: one thread hands every frame of its queue to   *)
(* all registered streams and client queues, while the owners of those     *)
(* (tcp handler threads, the UdpClientManager, file blocks, websocket      *)
(* handlers) register and remove them.  The writer's lock covers the       *)
(* registries only: it writes to a snapshot.                               *)
(*                                                                         *)
(* Every stream and client queue has one owner, which uses it once: the    *)
(* identifiers that add_stream and add_queue hand out are never reused.    *)
(* The writer belongs to an environment, so metrics are UINT32 channels.   *)
(***************************************************************************)
EXTENDS Integers, Sequences, FiniteSets

CONSTANTS
  Streams,      \* the streams there are
  Kind,         \* Kind[s]: "tcp", "udp" or "file"
  Clients,      \* the client queues there are
  Deployments,  \* how writers are set up, see below
  QueueSize,    \* maxsize of a client queue (MAX_SIZE in the code)
  MaxFrames     \* bound on the frames produced

\* A deployment says whether a UdpClientManager has set writer.error_handle,
\* and which streams and client queues are ever added.
ASSUME WriterAssumption ==
  /\ Kind \in [Streams -> {"tcp", "udp", "file"}]
  /\ Deployments \subseteq [attached : BOOLEAN, streams : SUBSET Streams,
                            clients : SUBSET Clients]
  /\ \A d \in Deployments :
       ~d.attached => \A s \in d.streams : Kind[s] # "udp"
  /\ QueueSize \in Nat \ {0} /\ MaxFrames \in Nat

VARIABLES
  deployment,\* how this writer is set up; never changes
  fq,        \* the writer's input queue
  produced,  \* the number of frames put into it so far
  streams,   \* the registered streams (self.streams, self.stream_closers)
  open,      \* the streams whose file is open
  clients,   \* UdpClientManager.clients
  woken,     \* tcp streams whose semaphore was released
  count,     \* the stream_count metric
  owner,     \* what the owner of each stream is doing
  mlock,     \* who holds the UdpClientManager's lock
  queues,    \* the registered client queues (self.queues)
  active,    \* QueueClientManager.active_client_queues
  content,   \* what each client queue holds
  client,    \* what the reader of each client queue is doing
  closing,   \* the queue that close_clients is about to put None into
  wpc,       \* where the writer is in frame_handle
  frame,     \* the frame it handles
  todo,      \* its snapshot of the streams, not yet written to
  failed,    \* to_remove: the streams whose write raised OSError
  victim,    \* the one of them that is being removed
  puts,      \* its snapshot of the client queues, not yet put to
  written,   \* the frames written to each stream (history)
  received   \* the frames sent to each client (history)

streamVars == <<streams, open, clients, woken, count, owner, mlock, written>>
queueVars == <<queues, active, content, client, closing, received>>
writerVars == <<wpc, frame, todo, failed, victim, puts>>
inputVars == <<fq, produced, deployment>>
vars == <<streamVars, queueVars, writerVars, inputVars>>

None == 0       \* ends the writer, or a client's reader
Nobody == "nobody"
ASSUME NobodyAssumption == Nobody \notin Streams \cup Clients
Frames == 1 .. MaxFrames
Items == Frames \cup {None}

TypeOK ==
  /\ deployment \in Deployments
  /\ fq \in Seq(Items) /\ produced \in 0 .. MaxFrames
  /\ streams \subseteq Streams /\ open \subseteq Streams
  /\ clients \subseteq Streams /\ woken \subseteq Streams
  /\ count \in Int
  /\ owner \in [Streams ->
       {"new", "adding", "added", "uncounting", "closing", "gone", "raised"}]
  /\ mlock \in Streams \cup {Nobody, "writer"}
  /\ queues \subseteq Clients /\ active \subseteq Clients
  /\ content \in [Clients -> Seq(Items)]
  /\ client \in [Clients -> {"new", "adding", "reading", "leaving", "gone"}]
  /\ closing \in Clients \cup {Nobody}
  /\ wpc \in {"get", "write", "errors", "unregister", "uncount", "put",
              "stopped", "dead"}
  /\ victim \in Streams \cup {Nobody}
  /\ frame \in Items
  /\ todo \subseteq Streams /\ failed \subseteq Streams
  /\ puts \subseteq Clients
  /\ written \in [Streams -> Seq(Frames)]
  /\ received \in [Clients -> Seq(Frames)]

Attached == deployment.attached

Init ==
  /\ deployment \in Deployments
  /\ fq = <<>> /\ produced = 0
  /\ streams = {} /\ open = {} /\ clients = {} /\ woken = {}
  /\ count = 0 /\ mlock = Nobody
  /\ owner = [s \in Streams |-> "new"]
  /\ queues = {} /\ active = {} /\ closing = Nobody
  /\ content = [q \in Clients |-> <<>>]
  /\ client = [q \in Clients |-> "new"]
  /\ wpc = "get" /\ frame = None
  /\ todo = {} /\ failed = {} /\ victim = Nobody /\ puts = {}
  /\ written = [s \in Streams |-> <<>>]
  /\ received = [q \in Clients |-> <<>>]

-----------------------------------------------------------------------------
(* The owners of streams *)

\* add_client and remove_client run under the UdpClientManager's lock.
Locked(s) == Kind[s] = "udp" => mlock \in {Nobody, s}
HoldIf(s, held) == mlock' = IF Kind[s] # "udp" THEN mlock
                            ELSE IF held THEN s ELSE Nobody

\* add_stream registers under the writer's lock ...
AddStream(s) ==
  /\ owner[s] = "new" /\ s \in deployment.streams /\ Locked(s)
  /\ streams' = streams \cup {s} /\ open' = open \cup {s}
  /\ owner' = [owner EXCEPT ![s] = "adding"]
  /\ HoldIf(s, TRUE)
  /\ UNCHANGED <<clients, woken, count, written, queueVars, writerVars,
                 inputVars>>

\* ... and counts after it; add_client then remembers the socket.
CountStream(s) ==
  /\ owner[s] = "adding"
  /\ count' = count + 1
  /\ clients' = IF Kind[s] = "udp" THEN clients \cup {s} ELSE clients
  /\ owner' = [owner EXCEPT ![s] = "added"]
  /\ HoldIf(s, FALSE)
  /\ UNCHANGED <<streams, open, woken, written, queueVars, writerVars,
                 inputVars>>

\* TcpTelemetryDaemon's stopper releases the semaphores of its clients.
StopServer(s) ==
  /\ Kind[s] = "tcp" /\ owner[s] = "added"
  /\ woken' = woken \cup {s}
  /\ UNCHANGED <<streams, open, clients, count, owner, mlock, written,
                 queueVars, writerVars, inputVars>>

\* Only if remove_stream found the stream does it change the metric, and does
\* remove_client go on to close the socket.
AfterRemove(s) ==
  CASE s \in streams -> "uncounting"
    [] s \notin streams /\ Kind[s] = "udp" -> "gone"
    [] OTHER -> "closing"

\* The owner removes its stream: the tcp handler once its semaphore is
\* released, the others when they please.
Unregister(s) ==
  /\ owner[s] = "added" /\ Locked(s)
  /\ Kind[s] = "tcp" => s \in woken
  /\ streams' = streams \ {s}
  /\ owner' = [owner EXCEPT ![s] = AfterRemove(s)]
  /\ HoldIf(s, s \in streams)
  /\ UNCHANGED <<open, clients, woken, count, written, queueVars, writerVars,
                 inputVars>>

Uncount(s) ==
  /\ owner[s] = "uncounting"
  /\ count' = count - 1
  /\ owner' = [owner EXCEPT ![s] = "closing"]
  /\ UNCHANGED <<streams, open, clients, woken, mlock, written, queueVars,
                 writerVars, inputVars>>

\* The handler or block returns and its file is closed; for udp, closer() looks
\* the socket up and raises KeyError if the writer's error path was faster,
\* with the manager's lock held.
Close(s) ==
  /\ owner[s] = "closing"
  /\ open' = open \ {s} /\ clients' = clients \ {s}
  /\ LET raises == Kind[s] = "udp" /\ s \notin clients IN
       /\ owner' = [owner EXCEPT ![s] = IF raises THEN "raised" ELSE "gone"]
       /\ HoldIf(s, raises)
  /\ UNCHANGED <<streams, woken, count, written, queueVars, writerVars,
                 inputVars>>

-----------------------------------------------------------------------------
(* The readers of client queues, WebsocketTelemetryDaemon's telem_handle *)

HasRoom_Mut(q) == Len(content[q]) < QueueSize - 1
HasRoom(q) == Len(content[q]) < QueueSize

AddQueue(q) ==
  /\ client[q] = "new" /\ q \in deployment.clients
  /\ queues' = queues \cup {q}
  /\ client' = [client EXCEPT ![q] = "adding"]
  /\ UNCHANGED <<active, content, closing, received, streamVars, writerVars,
                 inputVars>>

\* close_clients holds the QueueClientManager's lock while it puts.
Activate(q) ==
  /\ client[q] = "adding" /\ closing = Nobody
  /\ active' = active \cup {q}
  /\ client' = [client EXCEPT ![q] = "reading"]
  /\ UNCHANGED <<queues, content, closing, received, streamVars, writerVars,
                 inputVars>>

\* The client gets the next frame; None, and a send that raises
\* WebSocketException, end the connection.
ClientGet(q, sent) ==
  /\ client[q] = "reading" /\ content[q] # <<>>
  /\ content' = [content EXCEPT ![q] = Tail(@)]
  /\ LET item == Head(content[q]) IN
       IF item # None /\ sent
         THEN /\ received' = [received EXCEPT ![q] = Append(@, item)]
              /\ UNCHANGED client
         ELSE /\ client' = [client EXCEPT ![q] = "leaving"]
              /\ UNCHANGED received
  /\ UNCHANGED <<queues, active, closing, streamVars, writerVars, inputVars>>

\* queue_get returns None when no frame came for DEFAULT_TIMEOUT.
ClientTimeout(q) ==
  /\ client[q] = "reading" /\ content[q] = <<>>
  /\ client' = [client EXCEPT ![q] = "leaving"]
  /\ UNCHANGED <<queues, active, content, closing, received, streamVars,
                 writerVars, inputVars>>

\* finally: remove_queue(queue_id, False)
Leave(q) ==
  /\ client[q] = "leaving"
  /\ queues' = queues \ {q}
  /\ client' = [client EXCEPT ![q] = "gone"]
  /\ UNCHANGED <<active, content, closing, received, streamVars, writerVars,
                 inputVars>>

\* close_clients: remove_queue(queue_id) for a queue that is still registered,
\* and then, outside the writer's lock, None at its end.
CloseClient(q) ==
  /\ closing = Nobody /\ q \in active \cap queues
  /\ queues' = queues \ {q}
  /\ closing' = q
  /\ UNCHANGED <<active, content, client, received, streamVars, writerVars,
                 inputVars>>

PutNone(q) ==
  /\ closing = q /\ HasRoom(q)
  /\ content' = [content EXCEPT ![q] = Append(@, None)]
  /\ closing' = Nobody
  /\ UNCHANGED <<queues, active, client, received, streamVars, writerVars,
                 inputVars>>

-----------------------------------------------------------------------------
(* The writer *)

Produce ==
  /\ produced < MaxFrames
  /\ produced' = produced + 1
  /\ fq' = Append(fq, produced + 1)
  /\ UNCHANGED <<deployment, streamVars, queueVars, writerVars>>

\* stop_injector
InjectStop ==
  /\ wpc # "stopped"
  /\ \A i \in DOMAIN fq : fq[i] # None
  /\ fq' = Append(fq, None)
  /\ UNCHANGED <<deployment, produced, streamVars, queueVars, writerVars>>

\* run() de-queues; frame_handle takes its snapshot under the lock.
Take ==
  /\ wpc = "get" /\ fq # <<>>
  /\ fq' = Tail(fq)
  /\ frame' = Head(fq)
  /\ IF frame' = None
       THEN wpc' = "stopped" /\ UNCHANGED <<todo, puts>>
       ELSE wpc' = "write" /\ todo' = streams /\ puts' = queues
  /\ UNCHANGED <<failed, victim, deployment, produced, streamVars, queueVars>>

\* A healthy write; stream_writes and bytes_written are left out.
Write(s) ==
  /\ wpc = "write" /\ s \in todo /\ s \in open
  /\ written' = [written EXCEPT ![s] = Append(@, frame)]
  /\ todo' = todo \ {s}
  /\ UNCHANGED <<wpc, frame, failed, victim, puts, streams, open, clients,
                 woken, count, owner, mlock, queueVars, inputVars>>

\* OSError: any stream's peer may be gone; a closed tcp socket raises it too.
WriteFails(s) ==
  /\ wpc = "write" /\ s \in todo
  /\ s \in open \/ Kind[s] = "tcp"
  /\ failed' = failed \cup {s}
  /\ todo' = todo \ {s}
  /\ UNCHANGED <<wpc, frame, victim, puts, streamVars, queueVars, inputVars>>

\* A buffered file that was closed raises ValueError, which nobody catches.
WriteRaises(s) ==
  /\ wpc = "write" /\ s \in todo
  /\ s \notin open /\ Kind[s] # "tcp"
  /\ wpc' = "dead"
  /\ UNCHANGED <<frame, todo, failed, victim, puts, streamVars, queueVars,
                 inputVars>>

WritesDone_Mut ==
  /\ wpc = "write" /\ todo = {}
  /\ wpc' = "put" /\ failed' = {}
  /\ UNCHANGED <<frame, todo, victim, puts, streamVars, queueVars, inputVars>>

WritesDone ==
  /\ wpc = "write" /\ todo = {}
  /\ wpc' = "errors"
  /\ UNCHANGED <<frame, todo, failed, victim, puts, streamVars, queueVars,
                 inputVars>>

\* error_handle, the UdpClientManager's closer: it closes the socket of a
\* client.  Any other stream is a KeyError inside its `with self.lock`, which
\* ends the writer and leaves that lock held.
ErrorHandle_Mut(s) ==
  /\ wpc = "errors" /\ s \in failed
  /\ victim' = s /\ wpc' = "unregister"
  /\ UNCHANGED <<frame, todo, failed, puts, streamVars, queueVars, inputVars>>

ErrorHandle(s) ==
  /\ wpc = "errors" /\ s \in failed
  /\ Attached => mlock = Nobody
  /\ victim' = s
  /\ IF Attached /\ s \notin clients
       THEN wpc' = "dead" /\ mlock' = "writer" /\ UNCHANGED <<open, clients>>
       ELSE /\ wpc' = "unregister" /\ UNCHANGED mlock
            /\ open' = IF Attached THEN open \ {s} ELSE open
            /\ clients' = clients \ {s}
  /\ UNCHANGED <<frame, todo, failed, puts, streams, woken, count, owner,
                 written, queueVars, inputVars>>

\* remove_stream calls the closer it was given: a tcp stream's semaphore.
CloserCalled_Mut == woken
CloserCalled ==
  IF victim \in streams /\ Kind[victim] = "tcp" THEN woken \cup {victim}
  ELSE woken

\* assert self.remove_stream(stream_id)
RemoveFailed ==
  /\ wpc = "unregister"
  /\ streams' = streams \ {victim}
  /\ wpc' = IF victim \in streams THEN "uncount" ELSE "dead"
  /\ woken' = CloserCalled
  /\ UNCHANGED <<frame, todo, failed, victim, puts, open, clients, count,
                 owner, mlock, written, queueVars, inputVars>>

\* A negative count is no UINT32: publishing it fails an assertion.
UncountFailed ==
  /\ wpc = "uncount"
  /\ count' = count - 1
  /\ wpc' = IF count' < 0 THEN "dead" ELSE "errors"
  /\ failed' = failed \ {victim}
  /\ UNCHANGED <<frame, todo, victim, puts, streams, open, clients, woken,
                 owner, mlock, written, queueVars, inputVars>>

ErrorsDone ==
  /\ wpc = "errors" /\ failed = {}
  /\ wpc' = "put"
  /\ UNCHANGED <<frame, todo, failed, victim, puts, streamVars, queueVars,
                 inputVars>>

\* queue.put(frame) waits for room in the client's queue.
Put(q) ==
  /\ wpc = "put" /\ q \in puts /\ HasRoom(q)
  /\ content' = [content EXCEPT ![q] = Append(@, frame)]
  /\ puts' = puts \ {q}
  /\ UNCHANGED <<wpc, frame, todo, failed, victim, queues, active, client,
                 closing, received, streamVars, inputVars>>

PutsDone ==
  /\ wpc = "put" /\ puts = {}
  /\ wpc' = "get"
  /\ UNCHANGED <<frame, todo, failed, victim, puts, streamVars, queueVars,
                 inputVars>>

-----------------------------------------------------------------------------

\* What an owner does once it has begun, and a tcp handler once it is woken.
Obliged(s) ==
  \/ CountStream(s) \/ Uncount(s) \/ Close(s)
  \/ Kind[s] = "tcp" /\ Unregister(s)

Owner(s) == AddStream(s) \/ StopServer(s) \/ Unregister(s) \/ Obliged(s)

\* What a reader does by itself.
Reader(q) ==
  \/ Activate(q) \/ Leave(q) \/ PutNone(q)
  \/ \E sent \in BOOLEAN : ClientGet(q, sent)

Writer ==
  \/ Take \/ WritesDone \/ ErrorsDone \/ PutsDone
  \/ RemoveFailed \/ UncountFailed
  \/ \E s \in Streams :
       Write(s) \/ WriteFails(s) \/ WriteRaises(s) \/ ErrorHandle(s)
  \/ \E q \in Clients : Put(q)

Next ==
  \/ Produce \/ InjectStop \/ Writer
  \/ \E s \in Streams : Owner(s)
  \/ \E q \in Clients :
       AddQueue(q) \/ ClientTimeout(q) \/ CloseClient(q) \/ Reader(q)

\* Threads that can run do run; when streams and queues are added or removed,
\* and frames produced, is up to the environment.
Fairness ==
  /\ WF_vars(Writer)
  /\ \A s \in Streams : WF_vars(Obliged(s))
  /\ \A q \in Clients : WF_vars(Reader(q))

Spec == Init /\ [][Next]_vars /\ Fairness

-----------------------------------------------------------------------------
(* Properties *)

Contiguous(seq) == \A i \in 1 .. Len(seq) - 1 : seq[i + 1] = seq[i] + 1

\* No stream and no websocket client sees a gap or a repetition between the
\* frames it gets, although it is added and removed while frames are being
\* written: a write that fails is the last one, and close_clients, a client's
\* own departure and the writer's stale snapshot lose nothing in between.
NoGaps ==
  /\ \A s \in Streams : Contiguous(written[s])
  /\ \A q \in Clients : Contiguous(received[q])

\* Once remove_client is through, or a handler or block has returned, the file
\* is closed, whether the owner or the writer's error path did it.
RemovedIsClosed == \A s \in Streams : owner[s] = "gone" => s \notin open

\* A tcp handler whose stream the writer has dropped is woken and returns.
HandlerReleased ==
  \A s \in Streams : Kind[s] = "tcp" =>
    ((owner[s] = "added" /\ s \notin streams) ~> (owner[s] = "gone"))

\* A queue without a reader that is full, and somebody waiting to put into it.
Stuck ==
  \/ \E q \in Clients :
       /\ client[q] = "gone" /\ ~HasRoom(q)
       /\ closing = q \/ (wpc = "put" /\ q \in puts)
  \/ \E s \in Streams : owner[s] = "raised"

\* The backlog of frames is always worked off, slow readers or not, unless the
\* writer was stopped, its thread has died or somebody waits for what never
\* comes: room in the full queue of a client that left, or a lock an exception
\* left held.
WriterProgress ==
  (fq # <<>>) ~> (fq = <<>> \/ wpc \in {"stopped", "dead"} \/ Stuck)

\* tests/daemon/test_tcp_telemetry_daemon.py writes to a broken pipe "to force
\* the stream writer to un-register it": a stream whose write has failed is
\* un-registered.
FailedUnregistered ==
  \A s \in Streams : (s \in failed) ~> (s \notin streams)
=============================================================================
