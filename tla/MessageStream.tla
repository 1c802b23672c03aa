----------------------------- MODULE MessageStream -----------------------------
(***************************************************************************)
(* A message on its way to a client: MessageFramer cuts it into the frames *)
(* that a mtu allows and each goes out behind a size header.  A tcp socket *)
(* delivers the bytes in pieces of its own choosing, a udp socket whole    *)
(* datagrams, lost, repeated and out of order, a websocket the frames in   *)
(* their order, and a file has the bytes of all.  The FrameProcessor of    *)
(* the client finds the frames in what arrives, and decode_frame what is   *)
(* in them.  Clients are started and stopped; the processor stays.         *)
(*                                                                         *)
(* A byte on the wire is where it comes from: <<f, k>> is byte k of frame  *)
(* f, and those of its size header have k <= 0.  A byte of a message is    *)
(* its position in it.                                                     *)
(***************************************************************************)
EXTENDS Integers, Sequences, SequencesExt, FiniteSetsExt

CONSTANTS
  Transports,   \* of "tcp", "udp", "websocket" and "file"
  Lengths,      \* the lengths a message may have
  SenderMtus,   \* the mtus a sender may have
  Mtu,          \* the mtu of the client
  Overhead,     \* bytes of a message frame besides the fragment
  SizeBytes,    \* bytes of the size header
  Limits,       \* values for a file client's max_frames
  MaxMessages,  \* bound on the messages sent
  MaxDatagrams, \* bound on the datagrams received
  MaxStarts     \* bound on the starts of the client

ASSUME StreamAssumption ==
  /\ Transports \subseteq {"tcp", "udp", "websocket", "file"}
  /\ Lengths \subseteq Nat /\ SenderMtus \subseteq Nat /\ Mtu \in Nat
  /\ Overhead \in Nat \ {0} /\ SizeBytes \in Nat \ {0}
  /\ \A n \in SenderMtus : Overhead < n
  /\ Limits \subseteq Nat \ {0}
  /\ MaxMessages \in Nat /\ MaxDatagrams \in Nat /\ MaxStarts \in Nat

VARIABLES
  transport,  \* how the client gets its frames
  limit,      \* a file client's max_frames
  lengths,    \* the lengths of the messages that were sent
  frames,     \* the frames they were cut into
  conn,       \* is the connection "open", "dead" or "closed" by the client?
  taken,      \* how many of all bytes were received, or passed over
  datagrams,  \* udp: how many were received
  arrived,    \* the frames that arrived completely, in that order (history)
  buffer,     \* FrameProcessor.buffer
  size,       \* FrameProcessor.size
  stale,      \* FrameProcessor.size_stale
  torn,       \* did a connection follow one that ended in a frame? (history)
  staged,     \* what process() has found, FileClient.to_process
  output,     \* what the client has put into its queue
  pc,         \* where the client's thread is
  starts,     \* how often it was started
  stopping    \* is it to stop?

sender == <<lengths, frames>>
network == <<conn, taken, datagrams, arrived>>
processor == <<buffer, size, stale, torn>>
daemon == <<starts, stopping>>
vars == <<transport, limit, sender, network, processor, staged, output, pc,
          daemon>>

None == 0     \* in a client's queue: there is no more
NoLimit == 0  \* max_frames is None

\* Sockets are there once the client is; it connects a websocket later.
Init ==
  /\ transport \in Transports
  /\ limit \in IF transport = "file" THEN Limits \cup {NoLimit} ELSE {NoLimit}
  /\ lengths = <<>> /\ frames = <<>>
  /\ conn = IF transport = "websocket" THEN "closed" ELSE "open"
  /\ taken = 0 /\ datagrams = 0 /\ arrived = <<>>
  /\ buffer = <<>> /\ size = 0 /\ stale = TRUE /\ torn = FALSE
  /\ staged = <<>> /\ output = <<>>
  /\ pc = "idle" /\ starts = 0 /\ stopping = FALSE

-----------------------------------------------------------------------------
(* The sender *)

\* frames_required: a message of no bytes needs no frame.
FramesRequired_Mut(length, room) == length \div room
FramesRequired(length, room) == (length + room - 1) \div room

\* The fragment of index i: the bytes that the ones before it have left.
Fragment(length, room, i) ==
  [k \in 1 .. Min({room, length - i * room}) |-> i * room + k]

\* MessageFrame.initialize: the fields, and the fragment.
MessageFrame(m, i, total, fragment) ==
  [message |-> m, index |-> i, total |-> total, bytes |-> fragment]

\* serialize_message of the message with number m.
Serialize(m, length, mtu) ==
  LET room == mtu - Overhead
      total == FramesRequired(length, room)
  IN  [f \in 1 .. total |->
         MessageFrame(m, f - 1, total, Fragment(length, room, f - 1))]

\* Tcp and file clients are made with the mtu of the environment.
SendMessage(length, mtu) ==
  /\ Len(lengths) < MaxMessages
  /\ transport \in {"tcp", "file"} => mtu <= Mtu
  /\ lengths' = Append(lengths, length)
  /\ frames' = frames \o Serialize(Len(lengths) + 1, length, mtu)
  /\ UNCHANGED <<transport, limit, network, processor, staged, output, pc,
                 daemon>>

FrameSize(f) == Overhead + Len(frames[f].bytes)

\* with_size_header
WithSizeHeader(f) ==
  [k \in 1 .. SizeBytes + FrameSize(f) |-> <<f, k - SizeBytes>>]

\* All that is sent, and how much of it are the first f frames.
Bytes == FlattenSeq([f \in DOMAIN frames |-> WithSizeHeader(f)])
BytesUpTo(f) == Len(FlattenSeq([g \in 1 .. f |-> WithSizeHeader(g)]))

-----------------------------------------------------------------------------
(* A client is started and stopped *)

\* A connection begins with the first frame that is written after it.
Connect ==
  /\ \E f \in 0 .. Len(frames) : BytesUpTo(f) >= taken /\ taken' = BytesUpTo(f)
  /\ conn' = "open"
  /\ torn' = (torn \/ buffer # <<>> \/ ~stale)

\* The socket is made anew if it was closed; the websocket's connection when
\* there is none; a file is opened where the last run has left it.
Reconnects ==
  \/ transport = "tcp" /\ conn = "closed"
  \/ transport = "websocket" /\ conn # "open"

Reuse ==
  /\ conn' = IF conn = "closed" THEN "open" ELSE conn
  /\ UNCHANGED <<taken, torn>>

Start ==
  /\ pc = "idle" /\ starts < MaxStarts
  /\ IF Reconnects THEN Connect ELSE Reuse
  /\ pc' = "recv" /\ starts' = starts + 1
  /\ UNCHANGED <<transport, limit, sender, datagrams, arrived, buffer, size, stale,
                 staged, output, stopping>>

\* inject_stop of a socket tells the queue that frames are over, wherever the
\* thread is.
Stop ==
  /\ pc # "idle" /\ ~stopping
  /\ stopping' = TRUE
  /\ output' = IF transport \in {"tcp", "udp"} THEN Append(output, None) ELSE output
  /\ UNCHANGED <<transport, limit, sender, network, processor, staged, pc, starts>>

\* The loop ends when it finds the daemon stopping.  What the stopper has closed
\* matters from then on.
Loop(goes_on) ==
  /\ pc' = IF goes_on /\ ~stopping THEN "recv" ELSE "idle"
  /\ stopping' = (stopping /\ pc' # "idle")
  /\ conn' = IF stopping /\ transport # "file" THEN "closed" ELSE conn

Stopped ==
  /\ pc = "recv" /\ stopping
  /\ Loop(FALSE)
  /\ UNCHANGED <<transport, limit, sender, taken, datagrams, arrived, processor,
                 staged, output, starts>>

\* The peer goes, recv fails, or a datagram is empty.  An event loop runs on
\* without a connection.
Disconnected ==
  /\ pc = "recv" /\ ~stopping
  /\ transport \in {"tcp", "udp"} \/ (transport = "websocket" /\ conn = "open")
  /\ conn' = IF transport = "udp" THEN conn ELSE "dead"
  /\ pc' = IF transport = "websocket" THEN pc ELSE "idle"
  /\ UNCHANGED <<transport, limit, sender, taken, datagrams, arrived, processor,
                 staged, output, daemon>>

-----------------------------------------------------------------------------
(* What it receives: at most a frame of its mtu with its header at a time *)

RecvMax == Mtu + SizeBytes

\* FrameProcessor.process begins with the new data at the end of the buffer.
Process(new) ==
  /\ pc = "recv" /\ conn = "open"
  /\ buffer' = buffer \o new
  /\ pc' = "size"
  /\ UNCHANGED <<transport, limit, sender, conn, size, stale, torn, staged, output,
                 daemon>>

\* The frames whose last byte is one of the bytes a .. b.
EndingIn(a, b) ==
  FlattenSeq([f \in DOMAIN frames |->
                IF BytesUpTo(f) \in a .. b THEN <<f>> ELSE <<>>])

\* The next n bytes, of a tcp connection or a file.
Read(n) ==
  /\ taken + n <= Len(Bytes)
  /\ Process(SubSeq(Bytes, taken + 1, taken + n))
  /\ taken' = taken + n
  /\ arrived' = arrived \o EndingIn(taken + 1, taken + n)
  /\ UNCHANGED datagrams

RecvTcp(n) == transport = "tcp" /\ n <= RecvMax /\ Read(n)

\* A file is read in full pieces, until its end.
ReadFile ==
  /\ transport = "file" /\ taken < Len(Bytes)
  /\ Read(Min({RecvMax, Len(Bytes) - taken}))

EndOfFile ==
  /\ pc = "recv" /\ transport = "file" /\ taken = Len(Bytes)
  /\ output' = Append(output, None)
  /\ pc' = "idle" /\ stopping' = FALSE
  /\ UNCHANGED <<transport, limit, sender, network, processor, staged, starts>>

Arrives(f) == arrived' = IF FrameSize(f) <= Mtu THEN Append(arrived, f) ELSE arrived

\* What does not fit into recv's buffer is cut off.
RecvUdp(f) ==
  /\ transport = "udp" /\ datagrams < MaxDatagrams
  /\ LET datagram == WithSizeHeader(f)
     IN  Process(SubSeq(datagram, 1, Min({Len(datagram), RecvMax})))
  /\ Arrives(f)
  /\ datagrams' = datagrams + 1
  /\ UNCHANGED taken

RecvWebsocket(f) ==
  /\ transport = "websocket" /\ BytesUpTo(f - 1) = taken
  /\ Process(WithSizeHeader(f))
  /\ Arrives(f)
  /\ taken' = BytesUpTo(f)
  /\ UNCHANGED datagrams

-----------------------------------------------------------------------------
(* The frame processor *)

\* The number in a header.  Bytes that are no header may be any number.
Sizes == 0 .. Max(SenderMtus)
HeaderValue(bytes) ==
  LET f == bytes[1][1]
  IN  IF bytes = SubSeq(WithSizeHeader(f), 1, SizeBytes)
        THEN {FrameSize(f)} ELSE Sizes

\* read_size: a size that is not reasonable clears the buffer.
Reasonable_Mut(n) == TRUE
Reasonable(n) == n <= Mtu

Continue(n, unread, known) ==
  /\ size' = n
  /\ \/ /\ Reasonable(n)
        /\ buffer' = unread /\ stale' = ~known
        /\ pc' = IF known /\ n <= Len(unread) THEN "frame" ELSE "handle"
     \/ /\ ~Reasonable(n)
        /\ buffer' = <<>> /\ stale' = TRUE
        /\ pc' = "handle"

ReadSize ==
  /\ pc = "size"
  /\ IF stale /\ Len(buffer) >= SizeBytes
       THEN \E n \in HeaderValue(SubSeq(buffer, 1, SizeBytes)) :
              Continue(n, SubSeq(buffer, SizeBytes + 1, Len(buffer)), TRUE)
       ELSE Continue(size, buffer, ~stale)
  /\ UNCHANGED <<transport, limit, sender, network, torn, staged, output, daemon>>

\* A complete frame leaves the buffer.
ReadBytes(n) == buffer' = SubSeq(buffer, n + 1, Len(buffer))
ReadFrame ==
  /\ pc = "frame"
  /\ staged' = Append(staged, SubSeq(buffer, 1, size)) /\ ReadBytes(size)
  /\ stale' = TRUE
  /\ pc' = "size"
  /\ UNCHANGED <<transport, limit, sender, network, size, torn, output, daemon>>

-----------------------------------------------------------------------------
(* The frames it has found *)

\* decode_frame
Decodes(raw) ==
  /\ raw # <<>>
  /\ LET f == raw[1][1]
     IN  raw = SubSeq(WithSizeHeader(f), SizeBytes + 1, SizeBytes + FrameSize(f))

\* handle_frames: what can be decoded is passed on.
HandleFrames(raws) ==
  FlattenSeq([i \in DOMAIN raws |->
                IF Decodes(raws[i]) THEN <<raws[i][1][1]>> ELSE <<>>])

FramesIn(queue) ==
  FlattenSeq([i \in DOMAIN queue |-> IF queue[i] = None THEN <<>> ELSE <<queue[i]>>])

\* process_raw_frames: no more than max_frames less frame_count.
Count == IF limit = NoLimit THEN Len(staged)
         ELSE Min({Len(staged), limit - Len(FramesIn(output))})

ProcessRawFrames ==
  /\ pc = "handle"
  /\ output' = output \o HandleFrames(SubSeq(staged, 1, Count))
  /\ staged' = SubSeq(staged, Count + 1, Len(staged))
  /\ Loop(limit = NoLimit \/ Len(FramesIn(output')) < limit)
  /\ UNCHANGED <<transport, limit, sender, taken, datagrams, arrived, processor,
                 starts>>

\* What is no frame need not have another application's identifier or a wrong
\* checksum: reading its fields may raise, which ends the thread.
DecodeRaises ==
  /\ pc = "handle"
  /\ \E i \in DOMAIN staged :
       /\ ~Decodes(staged[i])
       /\ output' = output \o HandleFrames(SubSeq(staged, 1, i - 1))
  /\ staged' = <<>>
  /\ Loop(FALSE)
  /\ UNCHANGED <<transport, limit, sender, taken, datagrams, arrived, processor,
                 starts>>

Next ==
  \/ \E n \in Lengths, mtu \in SenderMtus : SendMessage(n, mtu)
  \/ Start \/ Stop \/ Stopped \/ Disconnected
  \/ \E n \in 1 .. RecvMax : RecvTcp(n)
  \/ ReadFile \/ EndOfFile
  \/ \E f \in DOMAIN frames : RecvUdp(f) \/ RecvWebsocket(f)
  \/ ReadSize \/ ReadFrame \/ ProcessRawFrames \/ DecodeRaises

Spec == Init /\ [][Next]_vars

-----------------------------------------------------------------------------
(* Properties *)

Decoded == FramesIn(output)

\* FrameProcessor: between two recv, exactly the frames that have arrived
\* completely have been decoded (or wait for a file client with a limit), in
\* that order, however tcp and file reads divided them and over restarts of the
\* client; and a frame that is too large costs none but itself.  This is so as
\* long as no new connection has followed one that ended inside a frame.  A file
\* client with a limit exports no more frames than it was asked for, over all
\* its reads, which find several frames at once, and its restarts.
ProcessExact ==
  /\ pc \in {"recv", "idle"} /\ ~torn =>
       Decoded \o HandleFrames(staged) = arrived
  /\ limit # NoLimit => Len(Decoded) <= limit

\* The fragments a client has of a message, by index.
Arrived(m) == {f \in Range(Decoded) : frames[f].message = m}
Content(m) ==
  LET total == Cardinality(Arrived(m))
  IN  FlattenSeq([i \in 1 .. total |->
        frames[CHOOSE f \in Arrived(m) : frames[f].index = i - 1].bytes])

\* serialize_message, and content() of a client's message cache: when as many
\* fragments of a message have arrived as it says there are, put together they
\* are the message, whichever mtu it was cut for.
MessagesWhole ==
  \A m \in DOMAIN lengths :
    (\E f \in Arrived(m) : frames[f].total = Cardinality(Arrived(m)))
      => Content(m) = [k \in 1 .. lengths[m] |-> k]
================================================================================
