--------------------------- MODULE TelemetryPipeline ---------------------------
(***************************************************************************)
(* How a value that is written into a channel gets onto the wire.  The     *)
(* telemetry daemon's thread ("dispatcher") runs dispatch_now again and    *)
(* again: under the environment's lock it samples the channels that are    *)
(* due, then drains the event queue, and packs both into frames for the    *)
(* bounded frame queue, from which the stream writer's thread takes them.  *)
(* Channel groups and commands write under the same lock, the state        *)
(* metrics of other daemons write without it; the time keeper needs the    *)
(* lock to set the time, and so does whoever stops the telemetry daemon,   *)
(* whose own lock it is.                                                   *)
(*                                                                         *)
(* The environment's own metrics are left out as channels.  That the frame *)
(* queue's "elements" metric is updated by two threads without a lock is   *)
(* in: when an update was lost the next may fall below zero, and then      *)
(* metric_add's assertion ends the writer's thread.                        *)
(***************************************************************************)
EXTENDS Integers, Sequences, SequencesExt

CONSTANTS
  Order,     \* the channels there are at first, in the order they were added
  Names,     \* those that an application adds, whether they are there or not
  Group,     \* those of a ChannelGroup
  Command,   \* the one that clients command
  Metric,    \* the one another daemon sets without the lock
  Rate,      \* Rate[c]: the time between two samples
  Size,      \* Size[c]: bytes of a value
  IdSize,    \* bytes of a channel identifier
  TimeSize,  \* bytes of a timestamp
  Room,      \* bytes for elements: the mtu less a frame's overhead
  EventMax,  \* maxsize of the event queue (MAX_SIZE in the code)
  FrameMax,  \* maxsize of the frame queue (MAX_SIZE in the code)
  MaxTime,   \* bound on the time
  MaxWrites  \* bound on the writes with the lock, and on those without

Channels == Range(Order) \cup Names

ASSUME PipelineAssumption ==
  /\ Order \in Seq(Channels)
  /\ \A i, j \in 1 .. Len(Order) : Order[i] = Order[j] => i = j
  /\ Group \subseteq Range(Order) \ {Command, Metric}
  /\ {Command, Metric} \subseteq Range(Order) /\ Command # Metric
  /\ Rate \in [Channels -> Nat \ {0}] /\ Size \in [Channels -> Nat \ {0}]
  /\ \A c \in Channels : IdSize + 2 * (Size[c] + TimeSize) <= Room
  /\ IdSize \in Nat /\ TimeSize \in Nat /\ Room \in Nat
  /\ EventMax \in Nat \ {0} /\ FrameMax \in Nat \ {0}
  /\ MaxTime \in Nat \ {0} /\ MaxWrites \in Nat

VARIABLES
  lock,      \* who holds the environment's lock
  order,     \* the channels that are registered, in their order
  time,      \* the environment's time
  data,      \* the value of each channel
  emitted,   \* its last_emitted
  events,    \* the event queue
  dropped,   \* channels of which an event found it full (history)
  queue,     \* the frame queue
  dpc,       \* where the dispatcher is
  now,       \* the time it dispatches for
  stamps,    \* Framer.timestamps of both kinds of frame
  todo,      \* the channels it has yet to look at
  pending,   \* the events it has consumed and not yet framed
  frame,     \* the frame it fills
  held,      \* the element that did not fit (a sequence of at most one)
  gtodo,     \* the group's channels yet to be written
  late,      \* the event of a value set without the lock, not yet queued
  writes,    \* how many writes there were with and without the lock
  telem,     \* is the telemetry daemon "running", "stopping" or "idle"?
  wpc,       \* where the stream writer is
  hand,      \* what it got from the queue (a sequence of at most one)
  delivered, \* the frames it has handled (history)
  spc        \* where stop_all is

channelVars == <<order, time, data, emitted, events, dropped>>
dispatchVars == <<dpc, now, stamps, todo, pending, frame, held>>
setterVars == <<gtodo, late, writes>>
writerVars == <<wpc, hand, delivered>>
stopVars == <<telem, spc>>
vars == <<lock, channelVars, queue, dispatchVars, setterVars, writerVars,
          stopVars>>

Nobody == "nobody"
None == [kind |-> "none"]  \* tells the stream writer to end

Times == 0 .. MaxTime
Setters == {"locked", "unlocked"}
Values == 0 .. MaxWrites
Sample == [channel : Channels, value : Values]
Event == [channel : Channels, prev : Values, curr : Values]
Frame == [kind : {"data"}, stamp : Times, used : 0 .. Room, elems : Seq(Sample)]
  \cup [kind : {"event"}, stamp : Times, used : 0 .. Room, elems : Seq(Event)]

TypeOK ==
  /\ lock \in {Nobody, "dispatcher", "group", "application"}
  /\ order \in Seq(Channels)
  /\ time \in Times /\ now \in Times
  /\ data \in [Channels -> Values] /\ emitted \in [Channels -> Times]
  /\ events \in Seq(Event) /\ Len(events) <= EventMax
  /\ dropped \subseteq Channels
  /\ queue \in Seq(Frame \cup {None}) /\ Len(queue) <= FrameMax
  /\ dpc \in {"idle", "lock", "emit", "put", "event"}
  /\ stamps \in [{"data", "event"} -> Times]
  /\ todo \in Seq(Channels) /\ pending \in Seq(Event)
  /\ frame \in Frame /\ held \in Seq(Sample \cup Event) /\ Len(held) <= 1
  /\ gtodo \subseteq Group /\ late \in Seq(Event) /\ Len(late) <= 1
  /\ writes \in [Setters -> 0 .. MaxWrites]
  /\ telem \in {"running", "stopping", "idle"}
  /\ wpc \in {"get", "handle", "stopped", "dead"}
  /\ hand \in Seq(Frame \cup {None}) /\ Len(hand) <= 1
  /\ delivered \in Seq(Frame)
  /\ spc \in {"running", "put", "join", "telemetry", "done"}

NewFrame(kind, stamp) ==
  [kind |-> kind, stamp |-> stamp, used |-> 0, elems |-> <<>>]

Init ==
  /\ lock = Nobody /\ time = 1 /\ order = Order
  /\ data = [c \in Channels |-> 0] /\ emitted = [c \in Channels |-> 0]
  /\ events = <<>> /\ dropped = {}
  /\ queue = <<>>
  /\ dpc = "idle" /\ now = 0 /\ stamps = [data |-> 0, event |-> 0]
  /\ todo = <<>> /\ pending = <<>> /\ frame = NewFrame("data", 0)
  /\ held = <<>> /\ gtodo = {} /\ late = <<>>
  /\ writes = [s \in Setters |-> 0]
  /\ telem = "running" /\ wpc = "get" /\ hand = <<>> /\ delivered = <<>>
  /\ spc = "running"

-----------------------------------------------------------------------------
(* Those who write channels *)

\* EventQueue.enqueue drops what finds the queue full.
Enqueue(e) ==
  IF Len(events) < EventMax
    THEN events' = Append(events, e) /\ UNCHANGED dropped
    ELSE dropped' = dropped \cup {e.channel} /\ UNCHANGED events

Change_Mut(c, v) == [channel |-> c, prev |-> v, curr |-> v]
Change(c, v) == [channel |-> c, prev |-> data[c], curr |-> v]

\* Channel.set by one who holds the lock: a change is an event.
Set(c, v) ==
  /\ data' = [data EXCEPT ![c] = v]
  /\ IF data[c] # v THEN Enqueue(Change(c, v)) ELSE UNCHANGED <<events, dropped>>
  /\ UNCHANGED <<order, time, emitted>>

Written(s) == writes' = [writes EXCEPT ![s] = @ + 1]

\* ChannelGroup.write: all of a group's channels, under one lock.
GroupLock_Mut == lock # "group"
GroupLock == lock = Nobody
GroupEnter ==
  /\ GroupLock
  /\ gtodo = {} /\ writes["locked"] < MaxWrites
  /\ lock' = "group" /\ gtodo' = Group
  /\ Written("locked")
  /\ UNCHANGED <<channelVars, queue, dispatchVars, late, writerVars, stopVars>>

GroupSet(c) ==
  /\ lock = "group" /\ c \in gtodo
  /\ Set(c, writes["locked"])
  /\ gtodo' = gtodo \ {c}
  /\ UNCHANGED <<lock, queue, dispatchVars, late, writes, writerVars, stopVars>>

GroupLeave ==
  /\ lock = "group" /\ gtodo = {}
  /\ lock' = Nobody
  /\ UNCHANGED <<channelVars, queue, dispatchVars, setterVars, writerVars,
                 stopVars>>

\* command_channel_id, which may well command the value that is there.
CommandChannel(v) ==
  /\ lock = Nobody
  /\ writes["locked"] < MaxWrites
  /\ Set(Command, v)
  /\ Written("locked")
  /\ UNCHANGED <<lock, queue, dispatchVars, gtodo, late, writerVars, stopVars>>

\* add_channel, of a channel that has its default value.  If the name is taken
\* its assertion fails, which ChannelGroup.add_channel catches: but then the
\* lock is not released, and stays with the application's thread.
Registered(c) == c \in Range(order)
AddChannel(c) ==
  /\ lock = Nobody
  /\ writes["locked"] < MaxWrites
  /\ IF Registered(c)
       THEN lock' = "application" /\ UNCHANGED order
       ELSE order' = Append(order, c) /\ UNCHANGED lock
  /\ Written("locked")
  /\ UNCHANGED <<time, data, emitted, events, dropped, queue, dispatchVars, gtodo,
                 late, writerVars, stopVars>>

\* set_metric of a tracked metric holds no lock of the environment: the value
\* is there before its event is.
SetMetric(v) ==
  /\ late = <<>> /\ data[Metric] # v
  /\ writes["unlocked"] < MaxWrites
  /\ data' = [data EXCEPT ![Metric] = v]
  /\ late' = <<Change(Metric, v)>>
  /\ Written("unlocked")
  /\ UNCHANGED <<lock, order, time, emitted, events, dropped, queue, dispatchVars,
                 gtodo, writerVars, stopVars>>

ChangedCallback ==
  /\ late # <<>>
  /\ Enqueue(late[1])
  /\ late' = <<>>
  /\ UNCHANGED <<lock, order, time, data, emitted, queue, dispatchVars, gtodo,
                 writes, writerVars, stopVars>>

\* The time keeper's iteration: set_time of the environment takes its lock.
SetTime ==
  /\ lock = Nobody /\ time < MaxTime
  /\ time' = time + 1
  /\ UNCHANGED <<lock, order, data, emitted, events, dropped, queue, dispatchVars,
                 setterVars, writerVars, stopVars>>

-----------------------------------------------------------------------------
(* The dispatcher *)

\* dispatch_now reads the time before dispatch takes the lock.
DispatchNow ==
  /\ dpc = "idle" /\ telem = "running" /\ lock = Nobody
  /\ now' = time /\ dpc' = "lock"
  /\ UNCHANGED <<lock, channelVars, queue, stamps, todo, pending, frame,
                 held, setterVars, writerVars, stopVars>>

\* new_frame with a time sets the timestamp that the later ones use too.
Dispatch ==
  /\ dpc = "lock" /\ lock = Nobody
  /\ lock' = "dispatcher" /\ dpc' = "emit"
  /\ stamps' = [stamps EXCEPT !["data"] = now]
  /\ frame' = NewFrame("data", now)
  /\ todo' = order
  /\ UNCHANGED <<channelVars, queue, now, pending, held, setterVars,
                 writerVars, stopVars>>

DataSize(e) == IdSize + Size[e.channel]
EventSize(e) == IdSize + 2 * (Size[e.channel] + TimeSize)
ElemSize(kind, e) == IF kind = "data" THEN DataSize(e) ELSE EventSize(e)

Added(f, e) == [f EXCEPT !.used = @ + ElemSize(f.kind, e),
                         !.elems = Append(@, e)]
Fits(f, e) == f.used + ElemSize(f.kind, e) <= Room

\* An element goes into the current frame, or waits until that one is queued.
Pack(e) ==
  IF Fits(frame, e)
    THEN frame' = Added(frame, e) /\ UNCHANGED <<dpc, held>>
    ELSE held' = <<e>> /\ dpc' = "put" /\ UNCHANGED frame

\* build_data_frames, one channel: emit() is None unless its rate has passed.
Due(c) == now >= emitted[c] + Rate[c]

NotDue ==
  /\ dpc = "emit" /\ todo # <<>> /\ ~Due(Head(todo))
  /\ todo' = Tail(todo)
  /\ UNCHANGED <<lock, channelVars, queue, dpc, now, stamps, pending, frame,
                 held, setterVars, writerVars, stopVars>>

Emit ==
  /\ dpc = "emit" /\ todo # <<>> /\ Due(Head(todo))
  /\ todo' = Tail(todo)
  /\ LET c == Head(todo) IN
       /\ emitted' = [emitted EXCEPT ![c] = now]
       /\ Pack([channel |-> c, value |-> data[c]])
  /\ UNCHANGED <<lock, order, time, data, events, dropped, queue, now,
                 stamps, pending, setterVars, writerVars, stopVars>>

\* The last frame is queued if there was anything to put into it.
EmitsDone ==
  /\ dpc = "emit" /\ todo = <<>> /\ frame.elems # <<>>
  /\ dpc' = "put"
  /\ UNCHANGED <<lock, channelVars, queue, now, stamps, todo, pending, frame,
                 held, setterVars, writerVars, stopVars>>

DataDispatched == dpc = "emit" /\ todo = <<>> /\ frame.elems = <<>>

\* EventQueue.consume: whatever is there, one after the other.
ConsumeEvent ==
  /\ DataDispatched /\ events # <<>>
  /\ pending' = Append(pending, Head(events))
  /\ events' = Tail(events)
  /\ UNCHANGED <<lock, order, time, data, emitted, dropped, queue, dpc, now, stamps,
                 todo, frame, held, setterVars, writerVars, stopVars>>

Drained_Mut == pending # <<>> \/ events = <<>>
Drained == events = <<>>
NewEventFrame ==
  /\ DataDispatched /\ Drained
  /\ dpc' = "event"
  /\ stamps' = [stamps EXCEPT !["event"] = now]
  /\ frame' = NewFrame("event", now)
  /\ UNCHANGED <<lock, channelVars, queue, now, todo, pending, held,
                 setterVars, writerVars, stopVars>>

\* build_event_frames, one event.
AddEvent ==
  /\ dpc = "event" /\ pending # <<>>
  /\ pending' = Tail(pending)
  /\ Pack(Head(pending))
  /\ UNCHANGED <<lock, channelVars, queue, now, stamps, todo,
                 setterVars, writerVars, stopVars>>

EventsDone ==
  /\ dpc = "event" /\ pending = <<>> /\ frame.elems # <<>>
  /\ dpc' = "put"
  /\ UNCHANGED <<lock, channelVars, queue, now, stamps, todo, pending, frame,
                 held, setterVars, writerVars, stopVars>>

\* After the put, the element that did not fit is the first of a new frame,
\* with the timestamp that the kind has.
Follow_Mut == NewFrame(frame.kind, stamps[frame.kind])
Follow ==
  LET fresh == NewFrame(frame.kind, stamps[frame.kind])
  IN  IF held = <<>> THEN fresh ELSE Added(fresh, held[1])

\* MeteredQueue.put blocks while the queue is full.
Put ==
  /\ dpc = "put" /\ Len(queue) < FrameMax
  /\ queue' = Append(queue, frame)
  /\ frame' = Follow /\ held' = <<>>
  /\ dpc' = IF frame.kind = "data" THEN "emit" ELSE "event"
  /\ UNCHANGED <<lock, channelVars, now, stamps, todo,
                 pending, setterVars, writerVars, stopVars>>

\* The events, too, are queued: dispatch gives the lock back.
Release_Mut == UNCHANGED lock
Release == lock' = Nobody
Finish ==
  /\ dpc = "event" /\ pending = <<>> /\ frame.elems = <<>>
  /\ Release /\ dpc' = "idle"
  /\ now' = 0 /\ frame' = NewFrame("data", 0)
  /\ UNCHANGED <<channelVars, queue, stamps, todo, pending, held,
                 setterVars, writerVars, stopVars>>

\* The loop of the daemon ends once it is to stop.
Ends ==
  /\ dpc = "idle" /\ telem = "stopping" /\ lock = Nobody
  /\ telem' = "idle"
  /\ UNCHANGED <<lock, channelVars, queue, dispatchVars, setterVars,
                 writerVars, spc>>

-----------------------------------------------------------------------------
(* The stream writer's thread: MeteredQueue.get and frame_handle *)

Get ==
  /\ wpc = "get" /\ queue # <<>>
  /\ hand' = <<Head(queue)>> /\ queue' = Tail(queue)
  /\ wpc' = "handle"
  /\ UNCHANGED <<lock, channelVars, dispatchVars, setterVars, delivered, stopVars>>

Handle ==
  /\ wpc = "handle"
  /\ hand' = <<>>
  /\ IF hand[1] = None
       THEN wpc' = "stopped" /\ UNCHANGED delivered
       ELSE wpc' = "get" /\ delivered' = Append(delivered, hand[1])
  /\ UNCHANGED <<lock, channelVars, queue, dispatchVars, setterVars, stopVars>>

\* metric_add(elements, -1) finds a metric that has lost an update, of which
\* there was none before the first frame's.
MetricFails ==
  /\ wpc = "handle" /\ delivered # <<>>
  /\ wpc' = "dead"
  /\ UNCHANGED <<lock, channelVars, queue, dispatchVars, setterVars, hand,
                 delivered, stopVars>>

-----------------------------------------------------------------------------
(* stop_all: the stream writer first, then the telemetry daemon *)

StopStream ==
  /\ spc = "running"
  /\ spc' = "put"
  /\ UNCHANGED <<lock, channelVars, queue, dispatchVars, setterVars, writerVars,
                 telem>>

\* The writer waits for a frame, so that it is given None.
Inject_Mut == UNCHANGED queue
Inject == queue' = Append(queue, None)
PutNone ==
  /\ spc = "put" /\ Len(queue) < FrameMax
  /\ Inject
  /\ spc' = "join"
  /\ UNCHANGED <<lock, channelVars, dispatchVars,
                 setterVars, writerVars, telem>>

\* The thread is joined; then the telemetry daemon's stop takes its lock.
Joined ==
  /\ spc = "join" /\ wpc \in {"stopped", "dead"}
  /\ spc' = "telemetry"
  /\ UNCHANGED <<lock, channelVars, queue, dispatchVars, setterVars,
                 writerVars, telem>>

BeginStop ==
  /\ spc = "telemetry" /\ telem = "running" /\ lock = Nobody
  /\ telem' = "stopping"
  /\ UNCHANGED <<lock, channelVars, queue, dispatchVars, setterVars,
                 writerVars, spc>>

JoinTelemetry ==
  /\ spc = "telemetry" /\ telem = "idle"
  /\ spc' = "done"
  /\ UNCHANGED <<lock, channelVars, queue, dispatchVars, setterVars,
                 writerVars, telem>>

-----------------------------------------------------------------------------
Dispatcher ==
  \/ DispatchNow \/ Dispatch \/ NotDue \/ Emit \/ EmitsDone
  \/ ConsumeEvent \/ NewEventFrame \/ AddEvent \/ EventsDone
  \/ Put \/ Finish \/ Ends
Writer == Get \/ Handle \/ MetricFails
Stopper == PutNone \/ Joined \/ JoinTelemetry
GroupWriter == (\E c \in Group : GroupSet(c)) \/ GroupLeave

Next ==
  \/ Dispatcher \/ Writer
  \/ GroupEnter \/ GroupWriter
  \/ \E v \in Values : CommandChannel(v) \/ SetMetric(v)
  \/ \E c \in Names : AddChannel(c)
  \/ ChangedCallback \/ SetTime
  \/ StopStream \/ Stopper \/ BeginStop

\* Threads run when they can.  The dispatcher sleeps between two dispatches,
\* with the lock free: whoever waits for it then gets it.
Spec ==
  /\ Init /\ [][Next]_vars
  /\ WF_vars(Dispatcher) /\ WF_vars(Writer) /\ WF_vars(GroupWriter)
  /\ WF_vars(ChangedCallback) /\ WF_vars(Stopper) /\ SF_vars(BeginStop)

-----------------------------------------------------------------------------
(* Properties *)

\* All frames in the order they are sent: handled, in the writer's hand,
\* queued, and the one that is being filled.  None, among them, has no elements.
Wire == delivered \o hand \o queue \o <<frame>>

\* What frames of a kind show of their elements: of a sample the timestamp of
\* its frame, of an event all of it.
Shown(f, elems) ==
  IF f.kind = "event" THEN elems
    ELSE [i \in DOMAIN elems |-> [channel |-> elems[i].channel, at |-> f.stamp]]

\* Which is sent in this order, the element that did not fit last.
Contents(kind, frames) ==
  FlattenSeq([i \in DOMAIN frames |->
    IF frames[i].kind = kind THEN Shown(frames[i], frames[i].elems) ELSE <<>>])
ElementsOf(kind) ==
  Contents(kind, Wire) \o (IF frame.kind = kind THEN Shown(frame, held) ELSE <<>>)

OfChannel(c, s) ==
  FlattenSeq([i \in DOMAIN s |-> IF s[i].channel = c THEN <<s[i]>> ELSE <<>>])
SamplesOf(c) == OfChannel(c, ElementsOf("data"))
EventsOf(c) == OfChannel(c, ElementsOf("event") \o pending \o events \o late)

\* Channel.emit, build_data_frames, new_frame, MeteredQueue: the samples of a
\* channel that are on their way are stamped at least its rate apart, and end
\* with the one that last_emitted tells of, although only the first frame of a
\* dispatch is given the time: no sample is lost, sent twice or overtaken, and
\* no frame is made larger than the mtu allows.
SamplesConserved ==
  frame.used <= Room /\ \A c \in Channels :
    LET s == SamplesOf(c) IN
    /\ \A i \in 2 .. Len(s) : s[i].at >= s[i - 1].at + Rate[c]
    /\ emitted[c] = IF s = <<>> THEN 0 ELSE s[Len(s)].at

\* changed_cb, EventQueue, build_event_frames: as long as no event of a
\* channel was dropped, whoever replays its events sees every value follow the
\* one before it and ends with the value the channel has.
EventsReplay ==
  \A c \in Channels \ dropped :
    LET s == EventsOf(c)
        v == <<0>> \o [i \in DOMAIN s |-> s[i].curr]
    IN  /\ \A i \in DOMAIN s : s[i].prev = v[i] /\ s[i].curr # v[i]
        /\ v[Len(v)] = data[c]

\* The elements of a kind that were sent, in whatever order.
Frames ==
  ToSet(delivered) \cup ((ToSet(hand) \cup ToSet(queue)) \ {None}) \cup {frame}
Stamped(f, elems) == {[elem |-> e, at |-> f.stamp] : e \in ToSet(elems)}
OnTheWay(kind) ==
  (UNION {Stamped(f, f.elems) : f \in {g \in Frames : g.kind = kind}})
    \cup (IF frame.kind = kind THEN Stamped(frame, held) ELSE {})

\* ChannelGroup "atomic syncs": the samples with one timestamp show one write
\* of the group.
GroupAtomic ==
  \A x, y \in OnTheWay("data") :
    {x.elem.channel, y.elem.channel} \subseteq Group /\ x.at = y.at =>
      x.elem.value = y.elem.value

\* The event that tells of a sampled value was sent, if there was to be one.
Explained(x) ==
  \/ x.elem.channel \in {Metric} \cup dropped
  \/ x.elem.value = 0
  \/ \E y \in OnTheWay("event") : /\ y.elem.channel = x.elem.channel
                                  /\ y.elem.curr = x.elem.value

\* dispatch samples first and drains the event queue second, under one lock:
\* once it is given back, the change to any value that was sampled has been
\* framed too, of channels that are written under the lock.
EventsExplain == lock = Nobody => \A x \in OnTheWay("data") : Explained(x)

\* Nothing goes on when nobody empties a full frame queue, and when the lock
\* was lost to a name that was taken.
Stuck ==
  \/ Len(queue) = FrameMax /\ wpc \in {"stopped", "dead"}
  \/ lock = "application"

\* dispatch holds the lock that everybody else needs over a blocking put: it
\* gives it back, and so do the others, or else all is stuck.
EnvLockReturned == (lock # Nobody) ~> (lock = Nobody \/ Stuck)

\* stop_all comes to its end, although the daemon it stops last needs a lock
\* that the dispatcher holds.
StopReturns == (spc # "running") ~> (spc = "done" \/ Stuck)
================================================================================
