------------------------- MODULE StreamWriter_proofs -------------------------
(***************************************************************************)
(* Proofs about StreamWriter: for any streams, client queues, deployments, *)
(* queue sizes and numbers of frames.                                      *)
(***************************************************************************)
EXTENDS StreamWriter, SequenceTheorems, TLAPS

(***************************************************************************)
(* The inductive invariant.  Frames are numbered, so the input queue holds *)
(* the successors of the frame being handled, in order.  A stream that is  *)
(* still to be written to has the frame before it for its last one, and a  *)
(* registered stream that is not has the frame itself; the same holds of   *)
(* what a client has received and what its queue holds, taken together.    *)
(***************************************************************************)
InputOrdered ==
  wpc # "stopped" =>
    \/ /\ Len(fq) = produced - frame
       /\ \A i \in 1 .. Len(fq) : fq[i] = frame + i
    \/ \E k \in 1 .. Len(fq) :
         /\ Len(fq) = produced - frame + 1
         /\ fq[k] = None
         /\ \A i \in 1 .. Len(fq) : i < k => fq[i] = frame + i
         /\ \A i \in 1 .. Len(fq) : i > k => fq[i] = frame + i - 1

\* Where the writer is decides what is left of its snapshots.
WriterPhase ==
  /\ wpc \notin {"get", "stopped"} => frame # None
  /\ wpc \in {"get", "errors", "unregister", "uncount", "put"} => todo = {}
  /\ wpc \in {"get", "put"} => failed = {}
  /\ wpc = "get" => puts = {}
  /\ wpc \in {"unregister", "uncount"} => victim \in failed
  /\ wpc = "uncount" => victim \notin streams

\* The last frame of a sequence that is not empty.
EndsIn(seq, f) == Len(seq) > 0 => seq[Len(seq)] \in {f, None}

OwnerAt(s) ==
  /\ owner[s] = "new" => /\ s \notin streams \cup open \cup todo \cup failed
                         /\ written[s] = <<>>
  /\ owner[s] # "new" => s \in deployment.streams

\* A udp stream that the writer's error path has removed was closed first.
ClosedAt(s) ==
  /\ owner[s] = "gone" => s \notin open
  /\ Kind[s] = "udp" /\ owner[s] \in {"adding", "added"} /\ s \notin streams =>
       s \notin open
  /\ Kind[s] = "udp" /\ wpc = "unregister" /\ victim = s => s \notin open

StreamAt(s) ==
  /\ Contiguous(written[s])
  /\ wpc # "stopped" =>
       /\ s \in todo => EndsIn(written[s], frame - 1)
       /\ s \in streams /\ s \notin todo \cup failed =>
            EndsIn(written[s], frame)

\* Adjacent frames are successive ones.
Orderly(seq) ==
  \A i \in 1 .. Len(seq) - 1 :
    seq[i] # None /\ seq[i + 1] # None => seq[i + 1] = seq[i] + 1

Feed(q) == received[q] \o content[q]

ClientAt(q) ==
  /\ client[q] = "new" => /\ q \notin queues \cup puts /\ closing # q
                          /\ Feed(q) = <<>>
  /\ closing = q => q \notin queues
  /\ Contiguous(received[q])
  /\ client[q] \in {"new", "adding", "reading"} =>
       /\ Orderly(Feed(q))
       /\ wpc # "stopped" =>
            /\ q \in puts => EndsIn(Feed(q), frame - 1)
            /\ q \in queues /\ q \notin puts => EndsIn(Feed(q), frame)

IInv ==
  /\ TypeOK
  /\ InputOrdered
  /\ WriterPhase
  /\ \A s \in Streams : OwnerAt(s) /\ ClosedAt(s) /\ StreamAt(s)
  /\ \A q \in Clients : ClientAt(q)

-----------------------------------------------------------------------------
(* Sequences of frames *)

\* What is put into a client's queue is at the end of the client's feed.
LEMMA FeedGrows ==
  ASSUME NEW r \in Seq(Nat), NEW c \in Seq(Nat), NEW x \in Nat
  PROVE  r \o Append(c, x) = Append(r \o c, x)
  OBVIOUS

\* What is sent to a client stays where it is in the client's feed.
LEMMA FeedMoves ==
  ASSUME NEW r \in Seq(Nat), NEW c \in Seq(Nat), c # <<>>
  PROVE  Append(r, Head(c)) \o Tail(c) = r \o c
  OBVIOUS

\* What has been received is the beginning of the feed.
LEMMA FeedBegins ==
  ASSUME NEW r \in Seq(Nat), NEW c \in Seq(Nat)
  PROVE  /\ r \o c \in Seq(Nat) /\ Len(r \o c) = Len(r) + Len(c)
         /\ \A i \in 1 .. Len(r) : (r \o c)[i] = r[i]
  OBVIOUS

\* A run of frames is continued by the frame after its last one.
LEMMA OrderlyGrows ==
  ASSUME NEW seq \in Seq(Nat), NEW x \in Nat, Orderly(seq),
         x = None \/ EndsIn(seq, x - 1)
  PROVE  Orderly(Append(seq, x)) /\ EndsIn(Append(seq, x), x)
<1>1. /\ Len(Append(seq, x)) = Len(seq) + 1 /\ Len(seq) \in Nat
      /\ \A i \in 1 .. Len(seq) : Append(seq, x)[i] = seq[i] /\ seq[i] \in Nat
      /\ Append(seq, x)[Len(seq) + 1] = x
  OBVIOUS
<1>2. EndsIn(Append(seq, x), x)
  BY <1>1 DEF EndsIn
<1>3. Orderly(Append(seq, x))
  <2> SUFFICES ASSUME NEW i \in 1 .. Len(seq),
                      Append(seq, x)[i] # None, Append(seq, x)[i + 1] # None
               PROVE  Append(seq, x)[i + 1] = Append(seq, x)[i] + 1
    BY <1>1 DEF Orderly
  <2>1. CASE i < Len(seq)
    BY <1>1, <2>1 DEF Orderly
  <2>2. CASE i = Len(seq)
    BY <1>1, <2>2 DEF EndsIn, None
  <2> QED
    BY <1>1, <2>1, <2>2
<1> QED
  BY <1>2, <1>3

\* The same of a sequence of frames only.
LEMMA ContiguousGrows ==
  ASSUME NEW seq \in Seq(Nat \ {0}), NEW x \in Nat, Contiguous(seq),
         EndsIn(seq, x - 1)
  PROVE  Contiguous(Append(seq, x)) /\ EndsIn(Append(seq, x), x)
<1>1. /\ Len(Append(seq, x)) = Len(seq) + 1 /\ Len(seq) \in Nat
      /\ \A i \in 1 .. Len(seq) :
           Append(seq, x)[i] = seq[i] /\ seq[i] \in Nat \ {0}
      /\ Append(seq, x)[Len(seq) + 1] = x
  OBVIOUS
<1>2. EndsIn(Append(seq, x), x)
  BY <1>1 DEF EndsIn
<1>3. Contiguous(Append(seq, x))
  <2> SUFFICES ASSUME NEW i \in 1 .. Len(seq)
               PROVE  Append(seq, x)[i + 1] = Append(seq, x)[i] + 1
    BY <1>1 DEF Contiguous
  <2>1. CASE i < Len(seq)
    BY <1>1, <2>1 DEF Contiguous
  <2>2. CASE i = Len(seq)
    BY <1>1, <2>2 DEF EndsIn, None
  <2> QED
    BY <1>1, <2>1, <2>2
<1> QED
  BY <1>2, <1>3

\* What is sent to a client continues what it has received.
LEMMA SentContinues ==
  ASSUME NEW r \in Seq(Nat \ {0}), NEW c \in Seq(Nat), c # <<>>,
         Head(c) # None, Contiguous(r), Orderly(r \o c)
  PROVE  Contiguous(Append(r, Head(c)))
<1>1. /\ Len(r) \in Nat /\ Len(c) \in Nat /\ Len(c) >= 1 /\ Head(c) = c[1]
      /\ Head(c) \in Nat /\ \A i \in 1 .. Len(r) : r[i] \in Nat \ {0}
  OBVIOUS
<1>2. /\ Len(r \o c) = Len(r) + Len(c) /\ (r \o c)[Len(r) + 1] = Head(c)
      /\ \A i \in 1 .. Len(r) : (r \o c)[i] = r[i]
  BY <1>1
<1>3. ASSUME Len(r) > 0 PROVE r[Len(r)] = Head(c) - 1
  <2>1. Len(r) \in 1 .. Len(r \o c) - 1
    BY <1>1, <1>2, <1>3
  <2>2. (r \o c)[Len(r)] # None /\ (r \o c)[Len(r) + 1] # None
    BY <1>1, <1>2, <1>3 DEF None
  <2>3. (r \o c)[Len(r) + 1] = (r \o c)[Len(r)] + 1
    BY <2>1, <2>2 DEF Orderly
  <2> QED
    BY <1>1, <1>2, <1>3, <2>3
<1>4. EndsIn(r, Head(c) - 1)
  BY <1>3 DEF EndsIn
<1> QED
  BY <1>1, <1>4, ContiguousGrows
-----------------------------------------------------------------------------
(* What the invariant says of single values *)

\* Frames and items are natural numbers, None being no frame.
LEMMA ItemFacts ==
  /\ Frames \subseteq Nat \ {0} /\ Items \subseteq Nat
  /\ Frames \subseteq Items /\ None \in Items /\ None \notin Frames
  BY WriterAssumption DEF Frames, Items, None

\* What a run of frames is made of.
LEMMA HistoryFacts ==
  ASSUME TypeOK
  PROVE  /\ frame \in Nat
         /\ \A s \in Streams : written[s] \in Seq(Nat \ {0})
         /\ \A q \in Clients : /\ received[q] \in Seq(Nat \ {0})
                               /\ received[q] \in Seq(Nat)
                               /\ content[q] \in Seq(Nat)
                               /\ Feed(q) \in Seq(Nat)
<1>1. \A t : t \in Seq(Frames) => t \in Seq(Nat \ {0}) /\ t \in Seq(Nat)
  BY ItemFacts, SeqMonotonic
<1>2. \A t : t \in Seq(Items) => t \in Seq(Nat)
  BY ItemFacts, SeqMonotonic
<1>3. /\ \A s \in Streams : written[s] \in Seq(Frames)
      /\ \A q \in Clients : received[q] \in Seq(Frames)
      /\ \A q \in Clients : content[q] \in Seq(Items)
      /\ frame \in Items
  BY DEF TypeOK
<1>4. \A q \in Clients : received[q] \in Seq(Nat) /\ content[q] \in Seq(Nat)
  BY <1>1, <1>2, <1>3
<1>5. \A q \in Clients : Feed(q) \in Seq(Nat)
  BY <1>4, FeedBegins DEF Feed
<1> QED
  BY <1>1, <1>3, <1>4, <1>5, ItemFacts

\* Before anything happens nothing was written, sent or queued.
LEMMA InitIInv == Init => IInv
<1> SUFFICES ASSUME Init PROVE IInv
  OBVIOUS
<1> USE DEF Init
<1>1. TypeOK
  <2>1. None \in Items /\ <<>> \in Seq(Items) /\ <<>> \in Seq(Frames)
    BY ItemFacts
  <2> QED
    BY <2>1, WriterAssumption DEF TypeOK, Nobody
<1>2. InputOrdered
  BY DEF InputOrdered, None
<1>3. WriterPhase
  BY DEF WriterPhase
<1>4. \A s \in Streams : OwnerAt(s) /\ ClosedAt(s) /\ StreamAt(s)
  BY DEF OwnerAt, ClosedAt, StreamAt, Contiguous, EndsIn
<1>5. \A q \in Clients : ClientAt(q)
  <2> SUFFICES ASSUME NEW q \in Clients PROVE ClientAt(q)
    OBVIOUS
  <2>1. received[q] = <<>> /\ Feed(q) = <<>> /\ client[q] = "new"
    BY DEF Feed
  <2>2. closing # q
    BY NobodyAssumption
  <2> QED
    BY <2>1, <2>2 DEF ClientAt, Contiguous, Orderly, EndsIn
<1> QED
  BY <1>1, <1>2, <1>3, <1>4, <1>5 DEF IInv
-----------------------------------------------------------------------------
(* The owners of streams *)

\* The owners leave the input, the clients and the writer's place alone.
LEMMA OwnerFrame ==
  ASSUME IInv, NEW t \in Streams, Owner(t)
  PROVE  /\ UNCHANGED <<queueVars, writerVars, inputVars>>
         /\ InputOrdered' /\ \A q \in Clients : ClientAt(q)'
<1>1. UNCHANGED <<queueVars, writerVars, inputVars>>
  BY DEF Owner, Obliged, AddStream, CountStream, StopServer, Unregister,
         Uncount, Close
<1>2. InputOrdered'
  BY <1>1 DEF IInv, InputOrdered, inputVars, writerVars
<1>3. \A q \in Clients : ClientAt(q)'
  BY <1>1 DEF IInv, ClientAt, Feed, queueVars, writerVars
<1> QED
  BY <1>1, <1>2, <1>3

\* Owners keep the types.
LEMMA OwnerTypes ==
  ASSUME IInv, NEW t \in Streams, Owner(t)
  PROVE  TypeOK'
<1>1. UNCHANGED <<queueVars, writerVars, inputVars>>
  BY OwnerFrame
<1>2. /\ streams' \subseteq Streams /\ open' \subseteq Streams
      /\ clients' \subseteq Streams /\ woken' \subseteq Streams
      /\ count' \in Int /\ mlock' \in Streams \cup {Nobody, "writer"}
  BY DEF IInv, TypeOK, Owner, Obliged, AddStream, CountStream, StopServer,
         Unregister, Uncount, Close, HoldIf
<1>3. owner' \in [Streams ->
        {"new", "adding", "added", "uncounting", "closing", "gone", "raised"}]
  BY DEF IInv, TypeOK, Owner, Obliged, AddStream, CountStream, StopServer,
         Unregister, Uncount, Close, AfterRemove
<1>4. UNCHANGED written
  BY DEF Owner, Obliged, AddStream, CountStream, StopServer, Unregister,
         Uncount, Close
<1> QED
  BY <1>1, <1>2, <1>3, <1>4 DEF IInv, TypeOK, queueVars, writerVars, inputVars

\* A stream is registered once, before anything is written to it, and closed
\* by whoever drops it.
LEMMA OwnerIInv ==
  ASSUME IInv, NEW t \in Streams, Owner(t)
  PROVE  IInv'
<1>1. UNCHANGED <<queueVars, writerVars, inputVars, written>>
  BY OwnerFrame DEF Owner, Obliged, AddStream, CountStream, StopServer,
                    Unregister, Uncount, Close
<1> USE <1>1 DEF IInv, TypeOK, writerVars, inputVars
<1>2. WriterPhase'
  <2>1. CASE AddStream(t)
    BY <2>1 DEF AddStream, WriterPhase, OwnerAt
  <2>2. CASE ~AddStream(t)
    <3>1. streams' \subseteq streams
      BY <2>2 DEF Owner, Obliged, CountStream, StopServer, Unregister,
                  Uncount, Close
    <3> QED
      BY <3>1 DEF WriterPhase
  <2> QED
    BY <2>1, <2>2
<1>3. ASSUME NEW s \in Streams
      PROVE  OwnerAt(s)' /\ ClosedAt(s)' /\ StreamAt(s)'
  <2> USE <1>3
  <2>1. CASE AddStream(t)
    <3>1. OwnerAt(s)'
      BY <2>1 DEF AddStream, OwnerAt
    <3>2. ClosedAt(s)'
      BY <2>1 DEF AddStream, ClosedAt, OwnerAt, WriterPhase
    <3>3. StreamAt(s)'
      BY <2>1 DEF AddStream, StreamAt, OwnerAt, EndsIn
    <3> QED
      BY <3>1, <3>2, <3>3
  <2>2. CASE CountStream(t)
    BY <2>2 DEF CountStream, OwnerAt, ClosedAt, StreamAt
  <2>3. CASE StopServer(t)
    BY <2>3 DEF StopServer, OwnerAt, ClosedAt, StreamAt
  <2>4. CASE Unregister(t)
    <3>1. OwnerAt(s)'
      BY <2>4 DEF Unregister, AfterRemove, OwnerAt
    <3>2. ClosedAt(s)'
      BY <2>4 DEF Unregister, AfterRemove, ClosedAt
    <3>3. StreamAt(s)'
      BY <2>4 DEF Unregister, StreamAt
    <3> QED
      BY <3>1, <3>2, <3>3
  <2>5. CASE Uncount(t)
    BY <2>5 DEF Uncount, OwnerAt, ClosedAt, StreamAt
  <2>6. CASE Close(t)
    BY <2>6 DEF Close, OwnerAt, ClosedAt, StreamAt
  <2> QED
    BY <2>1, <2>2, <2>3, <2>4, <2>5, <2>6 DEF Owner, Obliged
<1> QED
  BY <1>2, <1>3, OwnerFrame, OwnerTypes
-----------------------------------------------------------------------------
(* The readers of client queues *)

\* Everything that happens to the client queue p outside the writer.
ClientStep(p) ==
  AddQueue(p) \/ ClientTimeout(p) \/ CloseClient(p) \/ Reader(p)

\* Readers leave the input, the streams and the writer alone.
LEMMA ReaderFrame ==
  ASSUME IInv, NEW p \in Clients, ClientStep(p)
  PROVE  /\ UNCHANGED <<streamVars, writerVars, inputVars>>
         /\ InputOrdered' /\ WriterPhase'
         /\ \A s \in Streams : OwnerAt(s)' /\ ClosedAt(s)' /\ StreamAt(s)'
<1>1. UNCHANGED <<streamVars, writerVars, inputVars>>
  BY DEF ClientStep, Reader, AddQueue, Activate, ClientGet, ClientTimeout,
         Leave, CloseClient, PutNone
<1>2. InputOrdered' /\ WriterPhase'
  BY <1>1 DEF IInv, InputOrdered, WriterPhase, inputVars, writerVars,
              streamVars
<1>3. \A s \in Streams : OwnerAt(s)' /\ ClosedAt(s)' /\ StreamAt(s)'
  BY <1>1 DEF IInv, OwnerAt, ClosedAt, StreamAt, inputVars, writerVars,
              streamVars
<1> QED
  BY <1>1, <1>2, <1>3

\* What a reader takes from its queue, and what close_clients puts into it,
\* are items.
LEMMA ReaderTypes ==
  ASSUME IInv, NEW p \in Clients, ClientStep(p)
  PROVE  TypeOK'
<1>1. UNCHANGED <<streamVars, writerVars, inputVars>>
  BY ReaderFrame
<1>2. /\ queues' \subseteq Clients /\ active' \subseteq Clients
      /\ closing' \in Clients \cup {Nobody}
  BY DEF IInv, TypeOK, ClientStep, Reader, AddQueue, Activate, ClientGet,
         ClientTimeout, Leave, CloseClient, PutNone
<1>3. client' \in [Clients -> {"new", "adding", "reading", "leaving", "gone"}]
  BY DEF IInv, TypeOK, ClientStep, Reader, AddQueue, Activate, ClientGet,
         ClientTimeout, Leave, CloseClient, PutNone
<1>4. content' \in [Clients -> Seq(Items)]
  <2>1. CASE UNCHANGED content
    BY <2>1 DEF IInv, TypeOK
  <2>2. ASSUME NEW sent \in BOOLEAN, ClientGet(p, sent)
        PROVE  content' \in [Clients -> Seq(Items)]
    <3>1. content[p] \in Seq(Items) /\ content[p] # <<>>
      BY <2>2 DEF IInv, TypeOK, ClientGet
    <3>2. Tail(content[p]) \in Seq(Items)
      BY <3>1
    <3> QED
      BY <2>2, <3>2 DEF IInv, TypeOK, ClientGet
  <2>3. CASE PutNone(p)
    <3>1. content[p] \in Seq(Items) /\ None \in Items
      BY ItemFacts DEF IInv, TypeOK
    <3>2. Append(content[p], None) \in Seq(Items)
      BY <3>1
    <3> QED
      BY <2>3, <3>2 DEF IInv, TypeOK, PutNone
  <2> QED
    BY <2>1, <2>2, <2>3 DEF ClientStep, Reader, AddQueue, Activate,
                            ClientTimeout, Leave, CloseClient
<1>5. received' \in [Clients -> Seq(Frames)]
  <2>1. CASE UNCHANGED received
    BY <2>1 DEF IInv, TypeOK
  <2>2. ASSUME NEW sent \in BOOLEAN, ClientGet(p, sent), received' # received
        PROVE  received' \in [Clients -> Seq(Frames)]
    <3>1. content[p] \in Seq(Items) /\ content[p] # <<>>
      BY <2>2 DEF IInv, TypeOK, ClientGet
    <3>2. /\ Head(content[p]) # None
          /\ received' = [received EXCEPT ![p] =
                            Append(received[p], Head(content[p]))]
      BY <2>2 DEF ClientGet
    <3>3. Head(content[p]) \in Frames
      BY <3>1, <3>2 DEF Items
    <3>4. Append(received[p], Head(content[p])) \in Seq(Frames)
      BY <3>3 DEF IInv, TypeOK
    <3> QED
      BY <3>2, <3>4 DEF IInv, TypeOK
  <2> QED
    BY <2>1, <2>2 DEF ClientStep, Reader, AddQueue, Activate, ClientTimeout,
                      Leave, CloseClient, PutNone
<1> QED
  BY <1>1, <1>2, <1>3, <1>4, <1>5
  DEF IInv, TypeOK, streamVars, writerVars, inputVars

\* A client's feed is only shortened at its front, and only ended by None.
LEMMA ReaderClient ==
  ASSUME IInv, NEW p \in Clients, ClientStep(p), NEW q \in Clients
  PROVE  ClientAt(q)'
<1> USE DEF IInv
<1>1. UNCHANGED <<wpc, frame, puts>>
  BY ReaderFrame DEF writerVars
<1>2. /\ frame \in Nat
      /\ received[q] \in Seq(Nat \ {0}) /\ received[q] \in Seq(Nat)
      /\ content[q] \in Seq(Nat) /\ Feed(q) \in Seq(Nat)
      /\ content \in [Clients -> Seq(Items)]
      /\ received \in [Clients -> Seq(Frames)]
      /\ client \in [Clients ->
                       {"new", "adding", "reading", "leaving", "gone"}]
  BY HistoryFacts DEF TypeOK
<1>3. closing # Nobody => closing \in Clients
  BY DEF TypeOK
<1>4. CASE AddQueue(p)
  <2>1. Feed(q)' = Feed(q) /\ UNCHANGED <<received, closing>>
    BY <1>4 DEF AddQueue, Feed
  <2>2. CASE q = p
    <3>1. /\ client[q] = "new" /\ client'[q] = "adding"
          /\ q \notin queues \cup puts /\ closing # q
      BY <1>2, <1>4, <2>2 DEF AddQueue, ClientAt
    <3>2. Orderly(Feed(q)) /\ Contiguous(received[q])
      BY <3>1 DEF ClientAt
    <3>3. Feed(q) = <<>>
      BY <3>1 DEF ClientAt
    <3> QED
      BY <1>1, <2>1, <3>1, <3>2, <3>3 DEF ClientAt, EndsIn
  <2>3. CASE q # p
    BY <1>1, <1>2, <1>4, <2>1, <2>3 DEF AddQueue, ClientAt
  <2> QED
    BY <2>2, <2>3
<1>5. CASE Activate(p) \/ ClientTimeout(p) \/ Leave(p)
  <2>1. Feed(q)' = Feed(q) /\ UNCHANGED <<received, closing>>
    BY <1>5 DEF Activate, ClientTimeout, Leave, Feed
  <2> QED
    BY <1>1, <1>2, <1>5, <2>1 DEF Activate, ClientTimeout, Leave, ClientAt
<1>6. CASE CloseClient(p)
  <2>1. Feed(q)' = Feed(q) /\ UNCHANGED <<received, client>>
    BY <1>6 DEF CloseClient, Feed
  <2> QED
    BY <1>1, <1>2, <1>6, <2>1 DEF CloseClient, ClientAt
<1>7. CASE PutNone(p)
  <2>1. /\ UNCHANGED <<received, client, queues>> /\ closing = p
        /\ closing' = Nobody /\ Nobody # q
    BY <1>7, NobodyAssumption DEF PutNone
  <2>2. CASE q = p
    <3>1. Feed(q)' = Append(Feed(q), None)
      BY <1>2, <1>7, <2>1, <2>2, FeedGrows DEF PutNone, Feed, None
    <3>2. Orderly(Feed(q)) => Orderly(Feed(q)') /\ EndsIn(Feed(q)', None)
      BY <1>2, <3>1, OrderlyGrows DEF None
    <3>3. EndsIn(Feed(q)', None) => EndsIn(Feed(q)', frame - 1)
      BY DEF EndsIn
    <3>4. q \notin queues'
      BY <2>1, <2>2 DEF ClientAt
    <3> QED
      BY <1>1, <2>1, <2>2, <3>2, <3>3, <3>4 DEF ClientAt
  <2>3. CASE q # p
    <3>1. Feed(q)' = Feed(q)
      BY <1>2, <1>7, <2>1, <2>3 DEF PutNone, Feed
    <3> QED
      BY <1>1, <2>1, <2>3, <3>1 DEF ClientAt
  <2> QED
    BY <2>2, <2>3
<1>8. ASSUME NEW sent \in BOOLEAN, ClientGet(p, sent) PROVE ClientAt(q)'
  <2>1. UNCHANGED <<queues, closing>>
    BY <1>8 DEF ClientGet
  <2>2. CASE q # p
    <3>1. /\ Feed(q)' = Feed(q) /\ received'[q] = received[q]
          /\ client'[q] = client[q]
      BY <1>2, <1>8, <2>2 DEF ClientGet, Feed
    <3> QED
      BY <1>1, <2>1, <3>1 DEF ClientAt
  <2>3. CASE q = p /\ client'[p] = "leaving"
    <3>1. received'[q] = received[q]
      BY <1>2, <1>8, <2>3 DEF ClientGet
    <3> QED
      BY <1>1, <2>1, <2>3, <3>1 DEF ClientAt
  <2>4. CASE q = p /\ client'[p] # "leaving"
    <3>1. /\ content[q] # <<>> /\ Head(content[q]) # None
          /\ content'[q] = Tail(content[q])
          /\ received'[q] = Append(received[q], Head(content[q]))
          /\ client[q] = "reading" /\ client'[q] = "reading"
      BY <1>2, <1>8, <2>4 DEF ClientGet
    <3>2. Feed(q)' = Feed(q)
      BY <1>2, <3>1, FeedMoves DEF Feed
    <3>3. Contiguous(received[q]) /\ Orderly(received[q] \o content[q])
      BY <3>1 DEF ClientAt, Feed
    <3>4. Contiguous(received'[q])
      BY <1>2, <3>1, <3>3, SentContinues
    <3> QED
      BY <1>1, <2>1, <3>1, <3>2, <3>4 DEF ClientAt
  <2> QED
    BY <2>2, <2>3, <2>4
<1> QED
  BY <1>4, <1>5, <1>6, <1>7, <1>8 DEF ClientStep, Reader

\* Together: readers keep the invariant.
LEMMA ReaderIInv ==
  ASSUME IInv, NEW p \in Clients, ClientStep(p)
  PROVE  IInv'
  BY ReaderFrame, ReaderTypes, ReaderClient DEF IInv
-----------------------------------------------------------------------------
(* The input queue *)

\* A step that leaves the streams and the writer alone keeps what is known of
\* the streams, and one that leaves the clients alone what is known of those.
LEMMA InputFrame ==
  ASSUME IInv, UNCHANGED <<deployment, streamVars, queueVars, writerVars>>
  PROVE  /\ WriterPhase'
         /\ \A s \in Streams : OwnerAt(s)' /\ ClosedAt(s)' /\ StreamAt(s)'
         /\ \A q \in Clients : ClientAt(q)'
<1>1. WriterPhase'
  BY DEF IInv, WriterPhase, writerVars, streamVars
<1>2. \A s \in Streams : OwnerAt(s)' /\ ClosedAt(s)' /\ StreamAt(s)'
  BY DEF IInv, OwnerAt, ClosedAt, StreamAt, writerVars, streamVars
<1>3. \A q \in Clients : ClientAt(q)'
  BY DEF IInv, ClientAt, Feed, queueVars, writerVars
<1> QED
  BY <1>1, <1>2, <1>3

\* The next frame goes behind the others, None anywhere, but once.
LEMMA InputIInv ==
  ASSUME IInv, Produce \/ InjectStop
  PROVE  IInv'
<1>1. UNCHANGED <<deployment, streamVars, queueVars, writerVars>>
  BY DEF Produce, InjectStop
<1>2. /\ fq \in Seq(Items) /\ produced \in 0 .. MaxFrames /\ frame \in Nat
      /\ MaxFrames \in Nat
  BY HistoryFacts, WriterAssumption DEF IInv, TypeOK
<1>3. PICK x \in Items : fq' = Append(fq, x)
  BY <1>2, ItemFacts DEF Produce, InjectStop, Items, Frames
<1>4. /\ Len(fq) \in Nat /\ Len(fq') = Len(fq) + 1
      /\ \A i \in 1 .. Len(fq) : fq'[i] = fq[i]
      /\ fq'[Len(fq) + 1] = x
      /\ fq' \in Seq(Items)
  BY <1>2, <1>3
<1>5. TypeOK'
  <2>1. produced' \in 0 .. MaxFrames
    BY <1>2 DEF Produce, InjectStop
  <2> QED
    BY <1>1, <1>4, <2>1 DEF IInv, TypeOK, streamVars, queueVars, writerVars
<1>6. InputOrdered'
  <2> SUFFICES ASSUME wpc # "stopped" PROVE InputOrdered'
    BY <1>1 DEF InputOrdered, writerVars
  <2>1. frame' = frame /\ wpc' = wpc
    BY <1>1 DEF writerVars
  <2>2. CASE Produce
    <3>1. x = produced + 1 /\ produced' = produced + 1
      BY <1>2, <1>3, <1>4, <2>2 DEF Produce
    <3>2. CASE /\ Len(fq) = produced - frame
               /\ \A i \in 1 .. Len(fq) : fq[i] = frame + i
      <4>1. Len(fq') = produced' - frame'
        BY <1>2, <1>4, <2>1, <3>1, <3>2
      <4>2. \A i \in 1 .. Len(fq') : fq'[i] = frame' + i
        BY <1>2, <1>4, <2>1, <3>1, <3>2
      <4> QED
        BY <4>1, <4>2 DEF InputOrdered
    <3>3. ASSUME NEW k \in 1 .. Len(fq),
                 Len(fq) = produced - frame + 1,
                 fq[k] = None,
                 \A i \in 1 .. Len(fq) : i < k => fq[i] = frame + i,
                 \A i \in 1 .. Len(fq) : i > k => fq[i] = frame + i - 1
          PROVE  InputOrdered'
      <4>1. k \in 1 .. Len(fq') /\ fq'[k] = None
        BY <1>4, <3>3
      <4>2. Len(fq') = produced' - frame' + 1
        BY <1>2, <1>4, <2>1, <3>1, <3>3
      <4>3. \A i \in 1 .. Len(fq') : i < k => fq'[i] = frame' + i
        BY <1>2, <1>4, <2>1, <3>3
      <4>4. \A i \in 1 .. Len(fq') : i > k => fq'[i] = frame' + i - 1
        BY <1>2, <1>4, <2>1, <3>1, <3>3
      <4> QED
        BY <4>1, <4>2, <4>3, <4>4 DEF InputOrdered
    <3> QED
      BY <3>2, <3>3 DEF IInv, InputOrdered
  <2>3. CASE InjectStop
    <3>1. x = None /\ produced' = produced
      BY <1>2, <1>3, <1>4, <2>3 DEF InjectStop
    <3>2. \A i \in 1 .. Len(fq) : fq[i] # None
      BY <1>2, <2>3 DEF InjectStop
    <3>3. /\ Len(fq) = produced - frame
          /\ \A i \in 1 .. Len(fq) : fq[i] = frame + i
      BY <3>2 DEF IInv, InputOrdered
    <3>4. /\ Len(fq) + 1 \in 1 .. Len(fq') /\ fq'[Len(fq) + 1] = None
          /\ Len(fq') = produced' - frame' + 1
      BY <1>2, <1>4, <2>1, <3>1, <3>3
    <3>5. \A i \in 1 .. Len(fq') : i < Len(fq) + 1 => fq'[i] = frame' + i
      BY <1>2, <1>4, <2>1, <3>3
    <3>6. \A i \in 1 .. Len(fq') :
            i > Len(fq) + 1 => fq'[i] = frame' + i - 1
      BY <1>4
    <3> QED
      BY <3>4, <3>5, <3>6 DEF InputOrdered
  <2> QED
    BY <2>2, <2>3
<1> QED
  BY <1>1, <1>5, <1>6, InputFrame DEF IInv

-----------------------------------------------------------------------------
(* The writer *)

\* What is left of the input after the writer took its head is in order after
\* the frame it took, which is the one after the last.
LEMMA TakeInput ==
  ASSUME IInv, Take, frame' # None
  PROVE  frame' = frame + 1 /\ frame' \in Nat /\ InputOrdered'
<1>1. /\ fq \in Seq(Items) /\ fq # <<>> /\ frame' = Head(fq) /\ fq' = Tail(fq)
      /\ frame \in Nat /\ produced' = produced /\ produced \in Nat
      /\ wpc # "stopped"
  BY HistoryFacts, WriterAssumption DEF IInv, TypeOK, Take
<1>2. /\ Len(fq) \in Nat \ {0} /\ frame' = fq[1] /\ Len(fq') = Len(fq) - 1
      /\ \A i \in 1 .. Len(fq') : fq'[i] = fq[i + 1]
  BY <1>1
<1>3. CASE /\ Len(fq) = produced - frame
           /\ \A i \in 1 .. Len(fq) : fq[i] = frame + i
  <2>1. frame' = frame + 1
    BY <1>1, <1>2, <1>3
  <2>2. Len(fq') = produced' - frame'
    BY <1>1, <1>2, <1>3, <2>1
  <2>3. ASSUME NEW i \in 1 .. Len(fq') PROVE fq'[i] = frame' + i
    <3>1. i + 1 \in 1 .. Len(fq) /\ fq'[i] = fq[i + 1]
      BY <1>2
    <3>2. fq[i + 1] = frame + (i + 1)
      BY <1>3, <3>1
    <3> QED
      BY <1>1, <2>1, <3>1, <3>2
  <2> QED
    BY <1>1, <2>1, <2>2, <2>3 DEF InputOrdered
<1>4. ASSUME NEW k \in 1 .. Len(fq),
             Len(fq) = produced - frame + 1,
             fq[k] = None,
             \A i \in 1 .. Len(fq) : i < k => fq[i] = frame + i,
             \A i \in 1 .. Len(fq) : i > k => fq[i] = frame + i - 1
      PROVE  frame' = frame + 1 /\ InputOrdered'
  <2>1. k > 1
    BY <1>2, <1>4
  <2>2. frame' = frame + 1
    BY <1>1, <1>2, <1>4, <2>1
  <2>3. Len(fq') = produced' - frame' + 1
    BY <1>1, <1>2, <1>4, <2>2
  <2>4. k - 1 \in 1 .. Len(fq') /\ fq'[k - 1] = None
    BY <1>2, <1>4, <2>1
  <2>5. \A i \in 1 .. Len(fq') : i < k - 1 => fq'[i] = frame' + i
    BY <1>1, <1>2, <1>4, <2>2
  <2>6. \A i \in 1 .. Len(fq') : i > k - 1 => fq'[i] = frame' + i - 1
    BY <1>1, <1>2, <1>4, <2>2
  <2> QED
    BY <2>2, <2>3, <2>4, <2>5, <2>6 DEF InputOrdered
<1>5. frame' = frame + 1 /\ InputOrdered'
  BY <1>1, <1>3, <1>4 DEF IInv, InputOrdered
<1> QED
  BY <1>1, <1>5
\* While the writer handles a frame it takes nothing from its input.
LEMMA InputKept ==
  ASSUME IInv, UNCHANGED <<inputVars, frame>>, wpc # "stopped"
  PROVE  InputOrdered'
  BY DEF IInv, InputOrdered, inputVars

\* Until it puts to them, the writer leaves the clients alone.
LEMMA ClientsKept ==
  ASSUME IInv, UNCHANGED <<queueVars, puts, frame>>, wpc # "stopped"
  PROVE  \A q \in Clients : ClientAt(q)'
  BY DEF IInv, ClientAt, Feed, queueVars

\* Going on to the next part of frame_handle changes nothing for a stream.
LEMMA StreamsKept ==
  ASSUME IInv, UNCHANGED <<streamVars, todo, failed, frame, deployment>>,
         wpc # "stopped", wpc' # "unregister"
  PROVE  \A s \in Streams : OwnerAt(s)' /\ ClosedAt(s)' /\ StreamAt(s)'
  BY DEF IInv, OwnerAt, ClosedAt, StreamAt, streamVars

\* Taking the next frame, the writer has served everybody with the last one.
LEMMA TakeIInv ==
  ASSUME IInv, Take
  PROVE  IInv'
<1>1. /\ wpc = "get" /\ todo = {} /\ failed = {} /\ puts = {}
      /\ UNCHANGED <<failed, victim, deployment, produced, streamVars,
                     queueVars>>
  BY DEF IInv, WriterPhase, Take
<1>2. TypeOK'
  <2>1. fq \in Seq(Items) /\ fq # <<>> /\ fq' = Tail(fq) /\ frame' = Head(fq)
    BY DEF IInv, TypeOK, Take
  <2>2. fq' \in Seq(Items) /\ frame' \in Items
    BY <2>1
  <2>3. /\ todo' \subseteq Streams /\ puts' \subseteq Clients
        /\ wpc' \in {"stopped", "write"}
    BY <1>1 DEF IInv, TypeOK, Take
  <2> QED
    BY <1>1, <2>2, <2>3 DEF IInv, TypeOK, streamVars, queueVars
<1>3. CASE frame' = None
  <2>1. wpc' = "stopped" /\ UNCHANGED <<todo, puts>>
    BY <1>3 DEF Take
  <2>2. InputOrdered' /\ WriterPhase'
    BY <1>1, <2>1 DEF InputOrdered, WriterPhase
  <2>3. \A s \in Streams : OwnerAt(s)' /\ ClosedAt(s)' /\ StreamAt(s)'
    BY <1>1, <2>1 DEF IInv, OwnerAt, ClosedAt, StreamAt, streamVars
  <2>4. \A q \in Clients : ClientAt(q)'
    BY <1>1, <2>1 DEF IInv, ClientAt, Feed, queueVars
  <2> QED
    BY <1>2, <2>2, <2>3, <2>4 DEF IInv
<1>4. CASE frame' # None
  <2>1. /\ wpc' = "write" /\ todo' = streams /\ puts' = queues
        /\ frame' = frame + 1 /\ InputOrdered'
        /\ frame \in Nat /\ frame' - 1 = frame
    BY <1>4, TakeInput, HistoryFacts DEF Take, IInv
  <2>2. WriterPhase'
    BY <1>4, <2>1 DEF WriterPhase
  <2>3. ASSUME NEW s \in Streams
        PROVE  OwnerAt(s)' /\ ClosedAt(s)' /\ StreamAt(s)'
    <3>1. OwnerAt(s)' /\ ClosedAt(s)'
      BY <1>1, <2>1, <2>3 DEF IInv, OwnerAt, ClosedAt, streamVars
    <3>2. UNCHANGED <<written, streams>>
      BY <1>1 DEF streamVars
    <3>3. Contiguous(written[s]) /\ (s \in streams => EndsIn(written[s], frame))
      BY <1>1, <2>3 DEF IInv, StreamAt
    <3> QED
      BY <2>1, <3>1, <3>2, <3>3 DEF StreamAt
  <2>4. ASSUME NEW q \in Clients
        PROVE  ClientAt(q)'
    <3>1. UNCHANGED <<queues, client, closing, received, content>>
      BY <1>1 DEF queueVars
    <3>2. Feed(q)' = Feed(q)
      BY <3>1 DEF Feed
    <3>3. /\ ClientAt(q)
          /\ client[q] \in {"new", "adding", "reading"} /\ q \in queues =>
               EndsIn(Feed(q), frame)
      BY <1>1, <2>4 DEF IInv, ClientAt
    <3> QED
      BY <2>1, <3>1, <3>2, <3>3 DEF ClientAt
  <2> QED
    BY <1>2, <2>1, <2>2, <2>3, <2>4 DEF IInv
<1> QED
  BY <1>3, <1>4

\* A frame is written to a stream that has the frame before it.
LEMMA WriteIInv ==
  ASSUME IInv, NEW t \in Streams, Write(t)
  PROVE  IInv'
<1>1. /\ wpc = "write" /\ wpc' = "write" /\ t \in todo /\ todo' = todo \ {t}
      /\ UNCHANGED <<frame, failed, victim, puts, streams, open, clients,
                     woken, count, owner, mlock, queueVars, inputVars>>
  BY DEF Write
<1>2. /\ frame \in Frames /\ frame \in Nat /\ written[t] \in Seq(Nat \ {0})
      /\ written \in [Streams -> Seq(Frames)]
  BY <1>1, HistoryFacts DEF IInv, TypeOK, WriterPhase, Items
<1>3. /\ written' \in [Streams -> Seq(Frames)]
      /\ written'[t] = Append(written[t], frame)
      /\ \A s \in Streams : s # t => written'[s] = written[s]
  <2>1. Append(written[t], frame) \in Seq(Frames)
    BY <1>2
  <2> QED
    BY <1>2, <2>1 DEF Write
<1>4. TypeOK'
  BY <1>1, <1>3 DEF IInv, TypeOK, queueVars, inputVars
<1>5. WriterPhase'
  BY <1>1 DEF IInv, WriterPhase
<1>6. ASSUME NEW s \in Streams
      PROVE  OwnerAt(s)' /\ ClosedAt(s)' /\ StreamAt(s)'
  <2>1. OwnerAt(s)' /\ ClosedAt(s)'
    BY <1>1, <1>3, <1>6 DEF IInv, OwnerAt, ClosedAt, inputVars
  <2>2. CASE s = t
    <3>1. Contiguous(written[s]) /\ EndsIn(written[s], frame - 1)
      BY <1>1, <2>2 DEF IInv, StreamAt
    <3>2. Contiguous(written'[s]) /\ EndsIn(written'[s], frame)
      BY <1>2, <1>3, <2>2, <3>1, ContiguousGrows
    <3> QED
      BY <1>1, <2>1, <2>2, <3>2 DEF StreamAt
  <2>3. CASE s # t
    BY <1>1, <1>3, <1>6, <2>1, <2>3 DEF IInv, StreamAt
  <2> QED
    BY <2>2, <2>3
<1> QED
  BY <1>1, <1>4, <1>5, <1>6, InputKept, ClientsKept DEF IInv

\* A stream whose write failed gets no further frame: it is in to_remove until
\* it is no longer registered.
LEMMA FailIInv ==
  ASSUME IInv, NEW t \in Streams, WriteFails(t) \/ WriteRaises(t)
  PROVE  IInv'
<1>1. /\ wpc = "write" /\ wpc' \in {"write", "dead"} /\ t \in todo
      /\ todo' \subseteq todo /\ failed \subseteq failed'
      /\ todo' \cup failed' = todo \cup failed
      /\ UNCHANGED <<frame, victim, puts, streamVars, queueVars, inputVars>>
  BY DEF WriteFails, WriteRaises
<1>2. TypeOK'
  BY <1>1 DEF IInv, TypeOK, streamVars, queueVars, inputVars
<1>3. WriterPhase'
  BY <1>1 DEF IInv, WriterPhase
<1>4. \A s \in Streams : OwnerAt(s)' /\ ClosedAt(s)' /\ StreamAt(s)'
  BY <1>1 DEF IInv, OwnerAt, ClosedAt, StreamAt, streamVars, inputVars
<1> QED
  BY <1>1, <1>2, <1>3, <1>4, InputKept, ClientsKept DEF IInv

\* The parts of frame_handle follow each other.
LEMMA PhaseIInv ==
  ASSUME IInv, WritesDone \/ ErrorsDone \/ PutsDone
  PROVE  IInv'
<1>1. /\ wpc \in {"write", "errors", "put"} /\ wpc' \in {"errors", "put", "get"}
      /\ UNCHANGED <<frame, todo, failed, victim, puts, streamVars, queueVars,
                     inputVars>>
  BY DEF WritesDone, ErrorsDone, PutsDone
<1>2. TypeOK'
  BY <1>1 DEF IInv, TypeOK, streamVars, queueVars, inputVars
<1>3. WriterPhase'
  BY <1>1 DEF IInv, WriterPhase, WritesDone, ErrorsDone, PutsDone
<1> QED
  BY <1>1, <1>2, <1>3, InputKept, ClientsKept, StreamsKept
  DEF IInv, inputVars
\* The error handler closes a udp stream before it is un-registered.
LEMMA ErrorHandleIInv ==
  ASSUME IInv, NEW t \in Streams, ErrorHandle(t)
  PROVE  IInv'
<1>1. /\ wpc = "errors" /\ wpc' \in {"unregister", "dead"} /\ t \in failed
      /\ victim' = t /\ todo = {} /\ open' \subseteq open
      /\ UNCHANGED <<frame, todo, failed, puts, streams, woken, count, owner,
                     written, queueVars, inputVars>>
  BY DEF ErrorHandle, IInv, WriterPhase
<1>2. TypeOK'
  <2>1. /\ clients' \subseteq Streams /\ open' \subseteq Streams
        /\ mlock' \in Streams \cup {Nobody, "writer"}
    BY DEF ErrorHandle, IInv, TypeOK
  <2> QED
    BY <1>1, <2>1 DEF IInv, TypeOK, queueVars, inputVars
<1>3. WriterPhase'
  BY <1>1 DEF IInv, WriterPhase
<1>4. Kind[t] = "udp" /\ wpc' = "unregister" => t \notin open'
  <2>1. owner[t] # "new" /\ t \in deployment.streams
    BY <1>1 DEF IInv, OwnerAt
  <2>2. /\ deployment \in Deployments
        /\ deployment.attached \in BOOLEAN
    BY WriterAssumption DEF IInv, TypeOK
  <2>3. Kind[t] = "udp" => Attached
    BY <2>1, <2>2, WriterAssumption DEF Attached
  <2> QED
    BY <2>3 DEF ErrorHandle
<1>5. \A s \in Streams : OwnerAt(s)' /\ ClosedAt(s)' /\ StreamAt(s)'
  BY <1>1, <1>4 DEF IInv, OwnerAt, ClosedAt, StreamAt, inputVars
<1> QED
  BY <1>1, <1>2, <1>3, <1>5, InputKept, ClientsKept DEF IInv

\* remove_stream and the metric.
LEMMA RemoveIInv ==
  ASSUME IInv, RemoveFailed \/ UncountFailed
  PROVE  IInv'
<1>1. /\ wpc \in {"unregister", "uncount"} /\ todo = {} /\ victim \in failed
      /\ wpc' \in {"uncount", "errors", "dead"}
      /\ UNCHANGED <<frame, todo, victim, puts, open, clients, owner, mlock,
                     written, queueVars, inputVars>>
  BY DEF RemoveFailed, UncountFailed, IInv, WriterPhase
<1>2. victim \in Streams
  BY <1>1 DEF IInv, TypeOK
<1>3. TypeOK'
  <2>1. /\ streams' \subseteq Streams /\ woken' \subseteq Streams
        /\ count' \in Int /\ failed' \subseteq Streams
    BY <1>2 DEF RemoveFailed, UncountFailed, CloserCalled, IInv, TypeOK
  <2> QED
    BY <1>1, <2>1 DEF IInv, TypeOK, queueVars, inputVars
<1>4. CASE RemoveFailed
  <2>1. /\ wpc = "unregister" /\ streams' = streams \ {victim}
        /\ UNCHANGED failed /\ wpc' \in {"uncount", "dead"}
    BY <1>4 DEF RemoveFailed
  <2>2. WriterPhase'
    BY <1>1, <2>1 DEF IInv, WriterPhase
  <2>3. \A s \in Streams : OwnerAt(s)' /\ ClosedAt(s)' /\ StreamAt(s)'
    BY <1>1, <2>1 DEF IInv, OwnerAt, ClosedAt, StreamAt, inputVars
  <2> QED
    BY <1>1, <1>3, <2>2, <2>3, InputKept, ClientsKept DEF IInv
<1>5. CASE UncountFailed
  <2>1. /\ wpc = "uncount" /\ failed' = failed \ {victim}
        /\ UNCHANGED streams /\ wpc' \in {"errors", "dead"}
        /\ victim \notin streams
    BY <1>5 DEF UncountFailed, IInv, WriterPhase
  <2>2. WriterPhase'
    BY <1>1, <2>1 DEF IInv, WriterPhase
  <2>3. \A s \in Streams : OwnerAt(s)' /\ ClosedAt(s)' /\ StreamAt(s)'
    BY <1>1, <2>1 DEF IInv, OwnerAt, ClosedAt, StreamAt, inputVars
  <2> QED
    BY <1>1, <1>3, <2>2, <2>3, InputKept, ClientsKept DEF IInv
<1> QED
  BY <1>4, <1>5

\* A frame is put to a client whose feed ends in the frame before it, or in
\* the None after which its reader sends nothing more.
LEMMA PutIInv ==
  ASSUME IInv, NEW p \in Clients, Put(p)
  PROVE  IInv'
<1>1. /\ wpc = "put" /\ wpc' = "put" /\ p \in puts /\ puts' = puts \ {p}
      /\ UNCHANGED <<frame, todo, failed, victim, queues, active, client,
                     closing, received, streamVars, inputVars>>
  BY DEF Put
<1>2. /\ frame \in Items /\ frame \in Nat /\ content[p] \in Seq(Nat)
      /\ received[p] \in Seq(Nat) /\ Feed(p) \in Seq(Nat)
      /\ content \in [Clients -> Seq(Items)]
  BY HistoryFacts DEF IInv, TypeOK
<1>3. /\ content' \in [Clients -> Seq(Items)]
      /\ content'[p] = Append(content[p], frame)
      /\ \A q \in Clients : q # p => content'[q] = content[q]
  <2>1. Append(content[p], frame) \in Seq(Items)
    BY <1>2
  <2> QED
    BY <1>2, <2>1 DEF Put
<1>4. TypeOK'
  BY <1>1, <1>3 DEF IInv, TypeOK, streamVars, inputVars
<1>5. WriterPhase'
  BY <1>1 DEF IInv, WriterPhase, streamVars
<1>6. ASSUME NEW q \in Clients
      PROVE  ClientAt(q)'
  <2>1. CASE q = p
    <3>1. Feed(q)' = Append(Feed(q), frame)
      BY <1>1, <1>2, <1>3, <2>1, FeedGrows DEF Feed
    <3>2. client[q] # "new"
      BY <1>1, <2>1 DEF IInv, ClientAt
    <3>3. client[q] \in {"new", "adding", "reading"} =>
            Orderly(Feed(q)) /\ EndsIn(Feed(q), frame - 1)
      BY <1>1, <2>1 DEF IInv, ClientAt
    <3>4. client[q] \in {"new", "adding", "reading"} =>
            Orderly(Feed(q)') /\ EndsIn(Feed(q)', frame)
      BY <1>2, <2>1, <3>1, <3>3, OrderlyGrows
    <3> QED
      BY <1>1, <1>6, <2>1, <3>2, <3>4 DEF IInv, ClientAt
  <2>2. CASE q # p
    <3>1. Feed(q)' = Feed(q)
      BY <1>1, <1>3, <2>2 DEF Feed
    <3> QED
      BY <1>1, <1>6, <2>2, <3>1 DEF IInv, ClientAt
  <2> QED
    BY <2>1, <2>2
<1> QED
  BY <1>1, <1>4, <1>5, <1>6, InputKept, StreamsKept DEF IInv, inputVars

-----------------------------------------------------------------------------
(* The theorems *)

\* Every step keeps the invariant.
LEMMA NextIInv == IInv /\ [Next]_vars => IInv'
<1> SUFFICES ASSUME IInv, [Next]_vars PROVE IInv'
  OBVIOUS
<1>1. CASE Produce \/ InjectStop
  BY <1>1, InputIInv
<1>2. CASE Writer
  BY <1>2, TakeIInv, WriteIInv, FailIInv, PhaseIInv, ErrorHandleIInv,
     RemoveIInv, PutIInv DEF Writer
<1>3. ASSUME NEW s \in Streams, Owner(s) PROVE IInv'
  BY <1>3, OwnerIInv
<1>4. ASSUME NEW q \in Clients, ClientStep(q) PROVE IInv'
  BY <1>4, ReaderIInv
<1>5. CASE UNCHANGED vars
  <2>1. UNCHANGED <<streamVars, queueVars, writerVars, inputVars>>
    BY <1>5 DEF vars
  <2>2. TypeOK' /\ InputOrdered'
    BY <2>1 DEF IInv, TypeOK, InputOrdered, streamVars, queueVars, writerVars,
                inputVars
  <2> QED
    BY <2>1, <2>2, InputFrame DEF IInv, inputVars
<1> QED
  BY <1>1, <1>2, <1>3, <1>4, <1>5 DEF Next, ClientStep

\* The invariant holds always.
LEMMA Invariant == Spec => []IInv
  BY InitIInv, NextIInv, PTL DEF Spec

\* Every variable keeps its type, with any number of streams and clients.
THEOREM TypeCorrect == Spec => []TypeOK
<1>1. IInv => TypeOK
  BY DEF IInv
<1> QED
  BY <1>1, Invariant, PTL

\* Whatever StreamWriter.frame_handle interleaves with, no stream and no
\* websocket client sees a gap or a repetition between the frames it gets.
THEOREM FramesAreContiguous == Spec => []NoGaps
<1>1. IInv => NoGaps
  BY DEF IInv, StreamAt, ClientAt, NoGaps
<1> QED
  BY <1>1, Invariant, PTL

\* When an owner is through with its stream, it or the writer's error path has
\* closed the file, in every deployment.
THEOREM GoneIsClosed == Spec => []RemovedIsClosed
<1>1. IInv => RemovedIsClosed
  BY DEF IInv, ClosedAt, RemovedIsClosed
<1> QED
  BY <1>1, Invariant, PTL
=============================================================================
