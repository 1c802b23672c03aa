---------------------------- MODULE Requests_proofs ----------------------------
(***************************************************************************)
(* Proofs about Requests: for any requests in any number, any channels and *)
(* any blocks of the application.                                          *)
(***************************************************************************)
EXTENDS Requests, TLAPS

(***************************************************************************)
(* The inductive invariant.  Answers are truthful because callbacks are,   *)
(* and a command has one callback because it is in the queue once and      *)
(* leaves it with the callback.  The index raises only after a 404 because *)
(* without one the table is what it was built as, and so is what an        *)
(* iteration has seen.                                                     *)
(***************************************************************************)
PCs == {"new", "lookup", "index", "index2", "handle", "waiting", "done"}
Early == {"new", "lookup", "index", "index2", "handle"}

Typed ==
  /\ load \in Loads
  /\ ask \in [Numbers -> Asks \cup {Nothing}]
  /\ pc \in [Numbers -> PCs]
  /\ status \in [Numbers -> {"none", "200", "400", "404", "raised"}]
  /\ result \in [Numbers -> {"none", "success", "failure"}]
  /\ applied \in SUBSET Numbers /\ late \in SUBSET Numbers
  /\ queue \in Seq(Numbers)
  /\ DOMAIN value = Channels /\ DOMAIN seen = Numbers

\* Where a request can be, by what it asks for.
RequestAt(n) ==
  /\ pc[n] = "new" => ask[n] = Nothing
  /\ pc[n] # "done" => status[n] = "none"
  /\ pc[n] \in {"index", "index2"} => Path(n) = "/"
  /\ pc[n] = "handle" => Path(n) # "/"
  /\ pc[n] = "waiting" => Commands(n)
  /\ pc[n] \in {"lookup", "index", "index2"} => ask[n].via # "ws"
  /\ ask[n].via # "ws" =>
       /\ pc[n] \in {"index", "index2", "handle", "waiting"} =>
            Path(n) \in Registered[Method(n)]
       /\ pc[n] = "done" =>
            (status[n] = "404" <=> Path(n) \notin Registered[Method(n)])

\* A command is in the queue once, until its callback is made.
QueueOnce ==
  /\ \A i, j \in 1 .. Len(queue) : queue[i] = queue[j] => i = j
  /\ \A n \in Numbers : \A i \in 1 .. Len(queue) :
       queue[i] = n =>
         pc[n] \notin Early /\ Commands(n) /\ result[n] = "none"
  /\ \A n \in Numbers : pc[n] \in Early => result[n] = "none"
  /\ cpc = "add" => queue # <<>> /\ Verdict(ask[Front]) = "add"

\* What callbacks say is what the thread did, and what answers say is what
\* callbacks said.
AnswerAt(n) ==
  /\ n \in applied => result[n] = "success"
  /\ result[n] = "success" /\ Verdict(ask[n]) \in {"set", "add"} =>
       n \in applied
  /\ pc[n] = "done" /\ Commands(n) /\ status[n] = "200" =>
       result[n] = "success"
  /\ pc[n] = "done" /\ Commands(n) /\ status[n] = "400" =>
       n \in late \/ result[n] = "failure"

\* The table has grown only if a path was not found.
No404 == \A n \in Numbers : status[n] # "404"

TableAsBuilt ==
  No404 =>
    /\ table = Registered
    /\ \A n \in Numbers :
         /\ pc[n] = "index" => seen[n] = Registered["GET"]
         /\ pc[n] = "index2" => seen[n] = Registered["POST"]

TextAsked ==
  text_keys => \E n \in Numbers : Commands(n) /\ ask[n].by = "text_id"

RaisedAt(n) ==
  status[n] = "raised" =>
    \/ Path(n) = "/" /\ \E m \in Numbers : status[m] = "404"
    \/ Path(n) = "/registries"
         /\ \E m \in Numbers : Commands(m) /\ ask[m].by = "text_id"
    \/ Path(n) = "/shutdown" /\ ask[n].kind = "text"

\* What was read is still there.
ReadingFresh == cpc = "add" /\ ~moved => reading = value[ask[Front].chan]
SnapFresh == block => \A c \in Channels : c \in inside \/ snap[c] = value[c]

IInv ==
  /\ Typed
  /\ \A n \in Numbers : RequestAt(n)
  /\ QueueOnce
  /\ \A n \in Numbers : AnswerAt(n)
  /\ TableAsBuilt
  /\ TextAsked
  /\ \A n \in Numbers : RaisedAt(n)
  /\ ReadingFresh
  /\ SnapFresh

-----------------------------------------------------------------------------
(* What requests ask for *)

\* A request asks for the same as long as its ask is not changed.
LEMMA AskStays ==
  ASSUME NEW n \in Numbers, ask'[n] = ask[n]
  PROVE  /\ Path(n)' = Path(n) /\ Method(n)' = Method(n)
         /\ (Commands(n)' <=> Commands(n))
  BY DEF Path, Method, Commands, HasCommand

\* Only a command for a channel of the environment is ever an addition.
LEMMA AddIsOfChannel ==
  ASSUME NEW a \in Asks \cup {Nothing}, Verdict(a) = "add"
  PROVE  a.chan \in Channels
<1>1. a.cmd = "channel" /\ Verdict(a) = ChannelVerdict(a)
  BY DEF Verdict
<1>2. Found(a)
  BY <1>1 DEF ChannelVerdict
<1>3. a.by \in {"name", "id", "both"}
  BY <1>2 DEF Found
<1>4. Nothing.by = "none"
  BY DEF Nothing
<1> QED
  BY <1>3, <1>4, RequestsAssumption

-----------------------------------------------------------------------------

\* Nothing was asked for yet.
LEMMA InitIInv == Init => IInv
<1> SUFFICES ASSUME Init
             PROVE  IInv
  OBVIOUS
<1>1. Typed
  <2>1. DOMAIN value = Channels /\ queue \in Seq(Numbers)
    BY DEF Init
  <2> QED
    BY <2>1 DEF Init, Typed, PCs
<1>2. \A n \in Numbers : RequestAt(n)
  BY DEF Init, RequestAt, Path
<1>3. QueueOnce
  BY DEF Init, QueueOnce, Early
<1>4. \A n \in Numbers : AnswerAt(n)
  BY DEF Init, AnswerAt
<1>5. TableAsBuilt /\ TextAsked /\ \A n \in Numbers : RaisedAt(n)
  BY DEF Init, TableAsBuilt, TextAsked, RaisedAt
<1>6. ReadingFresh /\ SnapFresh
  BY DEF Init, ReadingFresh, SnapFresh
<1> QED
  BY <1>1, <1>2, <1>3, <1>4, <1>5, <1>6 DEF IInv

-----------------------------------------------------------------------------
(* The command queue's thread *)

\* The command at the front of the queue.
LEMMA FrontFacts ==
  ASSUME IInv, queue # <<>>
  PROVE  /\ Front \in Numbers /\ Commands(Front) /\ pc[Front] \notin Early
         /\ result[Front] = "none" /\ Front \notin applied
         /\ ask[Front] \in Asks \cup {Nothing}
         /\ Len(queue) >= 1 /\ Front = queue[1]
<1>1. Len(queue) >= 1 /\ Front = queue[1] /\ Front \in Numbers
  BY DEF IInv, Typed, Front
<1> QED
  BY <1>1 DEF IInv, Typed, QueueOnce, AnswerAt

\* What the thread does leaves all that the requests' own threads know.
LEMMA RequestsUntouched ==
  ASSUME IInv, UNCHANGED mapVars
  PROVE  /\ \A n \in Numbers : RequestAt(n)' /\ RaisedAt(n)'
         /\ TableAsBuilt'
<1>1. \A n \in Numbers : RequestAt(n)'
  BY AskStays DEF IInv, RequestAt, mapVars
<1>2. \A n \in Numbers : RaisedAt(n)'
  BY AskStays DEF IInv, RaisedAt, mapVars
<1>3. TableAsBuilt'
  BY DEF IInv, TableAsBuilt, No404, mapVars
<1> QED
  BY <1>1, <1>2, <1>3

\* The front of the queue is taken off it.
LEMMA PopKeepsQueue ==
  ASSUME IInv, UNCHANGED mapVars, queue # <<>>, queue' = Tail(queue),
         cpc' # "add",
         \A n \in Numbers : n # Front => result'[n] = result[n]
  PROVE  QueueOnce' /\ queue' \in Seq(Numbers)
<1>1. /\ Len(queue') = Len(queue) - 1 /\ queue' \in Seq(Numbers)
      /\ Len(queue) \in Nat /\ Len(queue) >= 1 /\ Front = queue[1]
      /\ \A i \in 1 .. Len(queue') : queue'[i] = queue[i + 1]
  BY DEF IInv, Typed, Front
<1>2. \A i \in 1 .. Len(queue') :
        i + 1 \in 1 .. Len(queue) /\ queue'[i] # Front /\ queue'[i] \in Numbers
  BY <1>1 DEF IInv, QueueOnce, Typed
<1>3. \A i, j \in 1 .. Len(queue') : queue'[i] = queue'[j] => i = j
  BY <1>1, <1>2 DEF IInv, QueueOnce
<1>4. ASSUME NEW n \in Numbers, NEW i \in 1 .. Len(queue'), queue'[i] = n
      PROVE  pc'[n] \notin Early /\ Commands(n)' /\ result'[n] = "none"
  <2>1. i + 1 \in 1 .. Len(queue) /\ queue[i + 1] = n /\ n # Front
    BY <1>1, <1>2, <1>4
  <2>2. pc[n] \notin Early /\ Commands(n) /\ result[n] = "none"
    BY <2>1 DEF IInv, QueueOnce
  <2> QED
    BY <2>1, <2>2, AskStays DEF mapVars
<1>5. \A n \in Numbers : pc'[n] \in Early => result'[n] = "none"
  BY FrontFacts DEF IInv, QueueOnce, mapVars
<1> QED
  BY <1>1, <1>3, <1>4, <1>5 DEF QueueOnce

\* The callback of the command at the front.
LEMMA ReplyAnswers ==
  ASSUME IInv, UNCHANGED mapVars, queue # <<>>, NEW ok \in BOOLEAN, Reply(ok),
         \/ UNCHANGED applied /\ (Verdict(ask[Front]) \in {"set", "add"} => ~ok)
         \/ applied' = applied \cup {Front} /\ ok
  PROVE  /\ \A n \in Numbers : AnswerAt(n)'
         /\ result' \in [Numbers -> {"none", "success", "failure"}]
         /\ applied' \in SUBSET Numbers
         /\ \A n \in Numbers : n # Front => result'[n] = result[n]
<1>1. /\ Front \in Numbers /\ pc[Front] \notin Early
      /\ result[Front] = "none" /\ Front \notin applied
  BY FrontFacts
<1>2. /\ result' \in [Numbers -> {"none", "success", "failure"}]
      /\ result'[Front] = (IF ok THEN "success" ELSE "failure")
      /\ \A n \in Numbers : n # Front => result'[n] = result[n]
  BY <1>1 DEF Reply, IInv, Typed
<1>3. applied' \in SUBSET Numbers
  BY <1>1 DEF IInv, Typed
<1>4. ASSUME NEW n \in Numbers, n # Front
      PROVE  AnswerAt(n)'
  <2>1. n \in applied' <=> n \in applied
    BY <1>4
  <2> QED
    BY <1>2, <1>4, <2>1, AskStays DEF IInv, AnswerAt, mapVars
<1>5. ASSUME NEW n \in Numbers, n = Front
      PROVE  AnswerAt(n)'
  <2>1. n \in applied' => ok
    BY <1>1, <1>5
  <2>2. ok /\ Verdict(ask[n]) \in {"set", "add"} => n \in applied'
    BY <1>5
  <2>3. pc[n] = "done" /\ Commands(n) => status[n] # "200"
    BY <1>1, <1>5 DEF IInv, AnswerAt
  <2>4. pc[n] = "done" /\ Commands(n) /\ status[n] = "400" =>
          n \in late
    BY <1>1, <1>5 DEF IInv, AnswerAt
  <2>5. /\ result'[n] = "success" <=> ok
        /\ result'[n] = "failure" <=> ~ok
    BY <1>2, <1>5
  <2>6. Commands(n)' <=> Commands(n)
    BY AskStays DEF mapVars
  <2> QED
    BY <1>1, <1>5, <2>1, <2>2, <2>3, <2>4, <2>5, <2>6 DEF AnswerAt, mapVars
<1> QED
  BY <1>2, <1>3, <1>4, <1>5

\* The value of a channel that a command writes, and what it was read for.
LEMMA WriteKeepsReads ==
  ASSUME IInv, NEW v, WriteChannel(v), cpc' # "add", UNCHANGED <<block, snap>>
  PROVE  ReadingFresh' /\ SnapFresh' /\ DOMAIN value' = Channels
  BY DEF IInv, Typed, ReadingFresh, SnapFresh, WriteChannel

\* Steps that write no channel.
LEMMA QuietKeepsReads ==
  ASSUME IInv, cpc' # "add", UNCHANGED <<value, inside, block, snap>>
  PROVE  ReadingFresh' /\ SnapFresh' /\ DOMAIN value' = Channels
  BY DEF IInv, Typed, ReadingFresh, SnapFresh

\* A callback's step keeps the invariant.
LEMMA ReplyIInv ==
  ASSUME IInv, UNCHANGED mapVars, queue # <<>>, NEW ok \in BOOLEAN, Reply(ok),
         \/ UNCHANGED applied /\ (Verdict(ask[Front]) \in {"set", "add"} => ~ok)
         \/ applied' = applied \cup {Front} /\ ok,
         cpc' # "add", TextAsked', ReadingFresh', SnapFresh',
         DOMAIN value' = Channels
  PROVE  IInv'
<1>1. /\ \A n \in Numbers : AnswerAt(n)'
      /\ result' \in [Numbers -> {"none", "success", "failure"}]
      /\ applied' \in SUBSET Numbers
      /\ \A n \in Numbers : n # Front => result'[n] = result[n]
  BY ReplyAnswers
<1>2. QueueOnce' /\ queue' \in Seq(Numbers)
  BY <1>1, PopKeepsQueue DEF Reply
<1>3. Typed'
  BY <1>1, <1>2 DEF IInv, Typed, mapVars
<1> QED
  BY <1>1, <1>2, <1>3, RequestsUntouched DEF IInv

\* Nobody has become a command for a text identifier, or ceased to be one.
LEMMA TextStays ==
  ASSUME IInv, UNCHANGED <<ask, text_keys>>
  PROVE  TextAsked'
  BY AskStays DEF IInv, TextAsked

\* What the command queue's thread does with a command.
LEMMA CommandIInv ==
  ASSUME IInv, CommandThread \/ Revive
  PROVE  IInv'
<1>1. CASE Reject \/ Help \/ GetChannel
  <2>1. /\ queue # <<>> /\ UNCHANGED <<mapVars, appVars>> /\ cpc' # "add"
        /\ UNCHANGED <<text_keys, applied, value, inside>>
        /\ Verdict(ask[Front]) \notin {"set", "add"}
    BY <1>1 DEF Reject, Help, GetChannel, Takes
  <2>2. Reply(TRUE) \/ Reply(FALSE)
    <3>1. CASE Help
      <4> DEFINE known == ask[Front].text \in handlers \cup {""}
      <4>1. Reply(known)
        BY <3>1 DEF Help
      <4> QED
        BY <4>1 DEF Reply
    <3> QED
      BY <1>1, <3>1 DEF Reject, GetChannel
  <2>3. TextAsked' /\ ReadingFresh' /\ SnapFresh' /\ DOMAIN value' = Channels
    BY <2>1, TextStays, QuietKeepsReads DEF mapVars, appVars
  <2> QED
    BY <2>1, <2>2, <2>3, ReplyIInv
<1>2. CASE Refuse
  <2>1. /\ queue # <<>> /\ UNCHANGED <<mapVars, appVars>> /\ cpc' # "add"
        /\ UNCHANGED <<applied, value, inside>>
        /\ Verdict(ask[Front]) \notin {"set", "add"} /\ Reply(FALSE)
    BY <1>2 DEF Refuse, Takes
  <2>2. TextAsked'
    <3>1. CASE text_keys' = text_keys
      BY <2>1, <3>1, TextStays DEF mapVars
    <3>2. CASE Inserts(ask[Front])
      <4>1. PICK n \in Numbers : n = Front /\ Commands(n)
        BY <2>1, FrontFacts
      <4>2. ask[n].by = "text_id" /\ Commands(n)' /\ ask' = ask
        BY <2>1, <3>2, <4>1, AskStays DEF Inserts, mapVars
      <4> QED
        BY <4>2 DEF TextAsked
    <3> QED
      BY <1>2, <3>1, <3>2 DEF Refuse, TextAsked
  <2>3. ReadingFresh' /\ SnapFresh' /\ DOMAIN value' = Channels
    BY <2>1, QuietKeepsReads DEF appVars
  <2> QED
    BY <2>1, <2>2, <2>3, ReplyIInv
<1>3. CASE SetChannel
  <2>1. /\ queue # <<>> /\ UNCHANGED <<mapVars, appVars>> /\ cpc' # "add"
        /\ UNCHANGED text_keys /\ applied' = applied \cup {Front}
        /\ Reply(TRUE)
    BY <1>3 DEF SetChannel, Takes, WriteChannel
  <2>2. \E v : WriteChannel(v)
    BY <1>3 DEF SetChannel
  <2>3. TextAsked' /\ ReadingFresh' /\ SnapFresh' /\ DOMAIN value' = Channels
    BY <2>1, <2>2, TextStays, WriteKeepsReads DEF mapVars, appVars
  <2> QED
    BY <2>1, <2>3, ReplyIInv
<1>4. CASE EndAdd
  <2> DEFINE sum == reading + Amount(ask[Front])
  <2>1. /\ queue # <<>> /\ UNCHANGED <<mapVars, appVars>> /\ cpc' # "add"
        /\ UNCHANGED text_keys /\ Reply(CanHold(sum))
    BY <1>4 DEF EndAdd, IInv, QueueOnce
  <2>2. CanHold(sum) \in BOOLEAN
    BY DEF CanHold
  <2>3. /\ CanHold(sum) => WriteChannel(sum)
        /\ ~CanHold(sum) => UNCHANGED <<value, applied, inside>>
    BY <1>4 DEF EndAdd
  <2> HIDE DEF sum
  <2>4. ReadingFresh' /\ SnapFresh' /\ DOMAIN value' = Channels
    BY <2>1, <2>2, <2>3, WriteKeepsReads, QuietKeepsReads DEF appVars
  <2>5. TextAsked'
    BY <2>1, TextStays DEF mapVars
  <2>6. CanHold(sum) => applied' = applied \cup {Front}
    BY <2>3 DEF WriteChannel
  <2> QED
    BY <2>1, <2>2, <2>3, <2>4, <2>5, <2>6, ReplyIInv
<1>5. CASE BeginAdd
  <2>1. /\ UNCHANGED <<mapVars, appVars, queue, result, applied, value,
                       text_keys, inside>>
        /\ queue # <<>> /\ Verdict(ask[Front]) = "add" /\ cpc' = "add"
        /\ reading' = value[ask[Front].chan]
    BY <1>5 DEF BeginAdd, Takes
  <2>2. Typed'
    BY <2>1 DEF IInv, Typed, mapVars
  <2>3. QueueOnce'
    BY <2>1, AskStays DEF IInv, QueueOnce, mapVars, Front
  <2>4. \A n \in Numbers : AnswerAt(n)'
    BY <2>1, AskStays DEF IInv, AnswerAt, mapVars
  <2>5. ReadingFresh' /\ SnapFresh'
    BY <2>1 DEF IInv, ReadingFresh, SnapFresh, Front, mapVars, appVars
  <2>6. TextAsked'
    BY <2>1, TextStays DEF mapVars
  <2> QED
    BY <2>1, <2>2, <2>3, <2>4, <2>5, <2>6, RequestsUntouched DEF IInv
<1>6. CASE Die
  <2>1. /\ UNCHANGED <<mapVars, appVars, result, applied, value, text_keys,
                       inside>>
        /\ queue # <<>> /\ queue' = Tail(queue) /\ cpc' # "add"
    BY <1>6 DEF Die, Takes
  <2>2. QueueOnce' /\ queue' \in Seq(Numbers)
    BY <2>1, PopKeepsQueue
  <2>3. Typed'
    BY <2>1, <2>2 DEF IInv, Typed, mapVars
  <2>4. \A n \in Numbers : AnswerAt(n)'
    BY <2>1, AskStays DEF IInv, AnswerAt, mapVars
  <2>5. TextAsked' /\ ReadingFresh' /\ SnapFresh'
    BY <2>1, TextStays, QuietKeepsReads DEF mapVars, appVars
  <2> QED
    BY <2>1, <2>2, <2>3, <2>4, <2>5, RequestsUntouched DEF IInv
<1>7. CASE Revive
  <2>1. /\ UNCHANGED <<mapVars, appVars, queue, result, applied, value,
                       text_keys, inside>>
        /\ cpc' # "add"
    BY <1>7 DEF Revive
  <2>2. Typed'
    BY <2>1 DEF IInv, Typed, mapVars
  <2>3. QueueOnce'
    BY <2>1, AskStays DEF IInv, QueueOnce, mapVars
  <2>4. \A n \in Numbers : AnswerAt(n)'
    BY <2>1, AskStays DEF IInv, AnswerAt, mapVars
  <2>5. TextAsked' /\ ReadingFresh' /\ SnapFresh'
    BY <2>1, TextStays, QuietKeepsReads DEF mapVars, appVars
  <2> QED
    BY <2>1, <2>2, <2>3, <2>4, <2>5, RequestsUntouched DEF IInv
<1> QED
  BY <1>1, <1>2, <1>3, <1>4, <1>5, <1>6, <1>7 DEF CommandThread

-----------------------------------------------------------------------------
(* Requests *)

\* A step of request n leaves the other requests as they are: no path that was
\* not found is forgotten.
LEMMA OtherRequests ==
  ASSUME IInv, NEW n \in Numbers, pc[n] # "done",
         UNCHANGED <<ask, result, applied>>, late \subseteq late',
         \A m \in Numbers : m # n => pc'[m] = pc[m] /\ status'[m] = status[m]
  PROVE  \A m \in Numbers :
           m # n => RequestAt(m)' /\ AnswerAt(m)' /\ RaisedAt(m)'
<1> SUFFICES ASSUME NEW m \in Numbers, m # n
             PROVE  RequestAt(m)' /\ AnswerAt(m)' /\ RaisedAt(m)'
  OBVIOUS
<1>1. pc'[m] = pc[m] /\ status'[m] = status[m]
  OBVIOUS
<1>2. /\ Path(m)' = Path(m) /\ Method(m)' = Method(m)
      /\ Commands(m)' <=> Commands(m)
  BY AskStays
<1>3. RequestAt(m)'
  BY <1>1, <1>2 DEF IInv, RequestAt
<1>4. AnswerAt(m)'
  BY <1>1, <1>2 DEF IInv, AnswerAt
<1>5. \A k \in Numbers : status[k] = "404" => status'[k] = "404"
  BY DEF IInv, RequestAt
<1>6. \A k \in Numbers : Commands(k)' <=> Commands(k)
  BY AskStays
<1>7. RaisedAt(m)'
  BY <1>1, <1>2, <1>5, <1>6 DEF IInv, RaisedAt
<1> QED
  BY <1>3, <1>4, <1>7

\* A request is answered, with a status that the rules for its kind allow.
LEMMA EndIInv ==
  ASSUME IInv, NEW n \in Numbers, pc[n] \notin {"new", "done"},
         NEW s \in {"200", "400", "404", "raised"}, End(n, s),
         DOMAIN seen' = Numbers, seen' = seen,
         late' \in {late, late \cup {n}}, s # "404" => UNCHANGED table,
         ask[n].via # "ws" =>
           (s = "404" <=> Path(n) \notin Registered[Method(n)]),
         s = "raised" =>
           \/ Path(n) = "/" /\ \E m \in Numbers : status[m] = "404"
           \/ Path(n) = "/registries"
                /\ \E m \in Numbers : Commands(m) /\ ask[m].by = "text_id"
           \/ Path(n) = "/shutdown" /\ ask[n].kind = "text",
         Commands(n) /\ s = "200" => result[n] = "success",
         Commands(n) /\ s = "400" => n \in late' \/ result[n] = "failure"
  PROVE  IInv'
<1>1. /\ UNCHANGED <<load, ask, cmdVars, appVars, value, inside, moved>>
      /\ pc' = [pc EXCEPT ![n] = "done"]
      /\ status' = [status EXCEPT ![n] = s]
  BY DEF End
<1>2. Typed'
  BY <1>1 DEF IInv, Typed, PCs, cmdVars
<1>3. /\ pc'[n] = "done" /\ status'[n] = s
      /\ \A m \in Numbers : m # n => pc'[m] = pc[m] /\ status'[m] = status[m]
  BY <1>1 DEF IInv, Typed
<1>4. \A m \in Numbers :
        m # n => RequestAt(m)' /\ AnswerAt(m)' /\ RaisedAt(m)'
  BY <1>1, <1>3, OtherRequests DEF cmdVars
<1>5. /\ Path(n)' = Path(n) /\ Method(n)' = Method(n)
      /\ \A m \in Numbers : Commands(m)' <=> Commands(m)
  BY <1>1, AskStays
<1>6. RequestAt(n)'
  BY <1>1, <1>3, <1>5 DEF RequestAt
<1>7. AnswerAt(n)'
  BY <1>1, <1>3, <1>5 DEF IInv, AnswerAt, cmdVars
<1>8. \A m \in Numbers : status[m] = "404" => status'[m] = "404"
  BY <1>3 DEF IInv, RequestAt
<1>9. RaisedAt(n)'
  BY <1>1, <1>3, <1>5, <1>8 DEF RaisedAt
<1>10. QueueOnce'
  BY <1>1, <1>3, <1>5 DEF IInv, QueueOnce, cmdVars, Early, Front
<1>11. TableAsBuilt'
  BY <1>3, <1>8 DEF IInv, TableAsBuilt, No404
<1>12. TextAsked'
  BY <1>1, TextStays DEF cmdVars
<1>13. ReadingFresh' /\ SnapFresh'
  BY <1>1 DEF IInv, ReadingFresh, SnapFresh, cmdVars, appVars, Front
<1> QED
  BY <1>2, <1>4, <1>6, <1>7, <1>9, <1>10, <1>11, <1>12, <1>13 DEF IInv

\* A request goes on without an answer, before it is in the queue.
LEMMA MoveIInv ==
  ASSUME IInv, NEW n \in Numbers, pc[n] \notin {"new", "done"},
         NEW to \in PCs \ {"new", "done"}, pc' = [pc EXCEPT ![n] = to],
         UNCHANGED <<load, status, ask, late, result, applied, value, inside,
                     moved, text_keys, cpc, reading, appVars>>,
         QueueOnce', queue' \in Seq(Numbers), DOMAIN seen' = Numbers,
         ReadingFresh', TableAsBuilt',
         to \in {"index", "index2"} => Path(n) = "/",
         to = "handle" => Path(n) # "/",
         to = "waiting" => Commands(n),
         to \in {"lookup", "index", "index2"} => ask[n].via # "ws",
         ask[n].via # "ws" => Path(n) \in Registered[Method(n)]
  PROVE  IInv'
<1>1. Typed'
  BY DEF IInv, Typed
<1>2. /\ pc'[n] = to
      /\ \A m \in Numbers : m # n => pc'[m] = pc[m] /\ status'[m] = status[m]
  BY DEF IInv, Typed
<1>3. \A m \in Numbers :
        m # n => RequestAt(m)' /\ AnswerAt(m)' /\ RaisedAt(m)'
  BY <1>2, OtherRequests
<1>4. /\ Path(n)' = Path(n) /\ Method(n)' = Method(n)
      /\ \A m \in Numbers : Commands(m)' <=> Commands(m)
  BY AskStays
<1>5. RequestAt(n)'
  BY <1>2, <1>4 DEF IInv, RequestAt
<1>6. AnswerAt(n)'
  BY <1>2, <1>4 DEF IInv, AnswerAt
<1>7. RaisedAt(n)'
  BY <1>4 DEF IInv, RaisedAt
<1>8. TextAsked' /\ SnapFresh'
  BY TextStays DEF IInv, SnapFresh, appVars
<1> QED
  BY <1>1, <1>3, <1>5, <1>6, <1>7, <1>8 DEF IInv

\* A path is looked up: with a handle, the table stays as it was built.
LEMMA LookupIInv ==
  ASSUME IInv, NEW n \in Numbers, Lookup(n)
  PROVE  IInv'
<1>1. pc[n] = "lookup" /\ ask[n].via # "ws" /\ Method(n) \in Methods
  BY DEF Lookup, IInv, RequestAt, Method, Methods
<1>2. CASE ~HasHandle(n)
  <2>1. /\ End(n, "404") /\ seen' = seen /\ late' = late
        /\ Path(n) \notin Registered[Method(n)]
    BY <1>2 DEF Lookup, HasHandle
  <2>2. DOMAIN seen' = Numbers
    BY <2>1 DEF IInv, Typed
  <2> QED
    BY <1>1, <2>1, <2>2, EndIInv
<1>3. CASE HasHandle(n)
  <2> DEFINE to == IF Path(n) = "/" THEN "index" ELSE "handle"
  <2>1. /\ pc' = [pc EXCEPT ![n] = to] /\ Path(n) \in Registered[Method(n)]
        /\ seen' = [seen EXCEPT ![n] = table'["GET"]]
        /\ table' = [table EXCEPT ![Method(n)] = @ \cup {Path(n)}]
        /\ UNCHANGED <<load, status, ask, cmdVars, appVars, value, inside,
                       moved, late>>
    BY <1>3 DEF Lookup, HasHandle
  <2>2. to \in PCs \ {"new", "done"} /\ to \in Early
    BY DEF PCs, Early
  <2>3. DOMAIN seen' = Numbers /\ queue' \in Seq(Numbers)
    BY <2>1 DEF IInv, Typed, cmdVars
  <2>4. \A m \in Numbers : Commands(m)' <=> Commands(m)
    BY <2>1, AskStays
  <2>5. \A m \in Numbers : pc'[m] = IF m = n THEN to ELSE pc[m]
    BY <2>1 DEF IInv, Typed
  <2>6. QueueOnce'
    <3>1. \A m \in Numbers : pc'[m] \in Early <=> pc[m] \in Early
      BY <1>1, <2>2, <2>5 DEF Early
    <3> QED
      BY <2>1, <2>4, <3>1 DEF IInv, QueueOnce, cmdVars, Front
  <2>7. ReadingFresh'
    BY <2>1 DEF IInv, ReadingFresh, cmdVars, Front
  <2>8. TableAsBuilt'
    <3> SUFFICES ASSUME No404'
                 PROVE  /\ table' = Registered
                        /\ \A m \in Numbers :
                             /\ pc'[m] = "index" =>
                                  seen'[m] = Registered["GET"]
                             /\ pc'[m] = "index2" =>
                                  seen'[m] = Registered["POST"]
      BY DEF TableAsBuilt
    <3>1. No404 /\ table = Registered
      BY <2>1 DEF IInv, TableAsBuilt, No404
    <3>2. table' = Registered
      BY <1>1, <2>1, <3>1 DEF Registered
    <3>3. seen'[n] = Registered["GET"]
      BY <2>1, <3>2 DEF IInv, Typed
    <3>4. \A m \in Numbers : m # n => seen'[m] = seen[m]
      BY <2>1 DEF IInv, Typed
    <3> QED
      BY <2>5, <3>1, <3>2, <3>3, <3>4 DEF IInv, TableAsBuilt
  <2>9. /\ to \in {"index", "index2"} => Path(n) = "/"
        /\ to = "handle" => Path(n) # "/"
        /\ to # "waiting"
    OBVIOUS
  <2>10. UNCHANGED <<load, status, ask, late, result, applied, value, inside,
                     moved, text_keys, cpc, reading, appVars>>
    BY <2>1 DEF cmdVars
  <2> HIDE DEF to
  <2> QED
    BY <1>1, <2>1, <2>2, <2>3, <2>6, <2>7, <2>8, <2>9, <2>10, MoveIInv
<1> QED
  BY <1>2, <1>3

\* The index goes over the handlers of one method, and then of the other.
LEMMA IndexIInv ==
  ASSUME IInv, NEW n \in Numbers, Index(n) \/ Index2(n)
  PROVE  IInv'
<1>1. /\ pc[n] \in {"index", "index2"} /\ ask[n].via # "ws" /\ Path(n) = "/"
      /\ Path(n) \in Registered[Method(n)] /\ ~Commands(n)
  BY DEF Index, Index2, IInv, RequestAt, Commands
<1>2. DOMAIN seen = Numbers
  BY DEF IInv, Typed
<1>3. CASE Index(n) /\ End(n, "raised") /\ table["GET"] # seen[n]
  <2>1. \E m \in Numbers : status[m] = "404"
    BY <1>3 DEF IInv, TableAsBuilt, No404, Index
  <2>2. UNCHANGED <<seen, table, late>>
    BY <1>3 DEF Index
  <2> QED
    BY <1>1, <1>2, <1>3, <2>1, <2>2, EndIInv
<1>4. CASE Index2(n) /\ table["POST"] = seen[n]
  <2>1. End(n, "200") /\ UNCHANGED <<seen, table, late>>
    BY <1>4 DEF Index2
  <2> QED
    BY <1>1, <1>2, <2>1, EndIInv
<1>5. CASE Index2(n) /\ table["POST"] # seen[n]
  <2>1. End(n, "raised") /\ UNCHANGED <<seen, table, late>>
    BY <1>5 DEF Index2
  <2>2. \E m \in Numbers : status[m] = "404"
    BY <1>5 DEF IInv, TableAsBuilt, No404, Index2
  <2> QED
    BY <1>1, <1>2, <2>1, <2>2, EndIInv
<1>6. CASE /\ pc[n] = "index" /\ table["GET"] = seen[n]
           /\ seen' = [seen EXCEPT ![n] = table["POST"]]
           /\ pc' = [pc EXCEPT ![n] = "index2"]
           /\ UNCHANGED <<load, status, ask, cmdVars, appVars, value, inside,
                          moved, table, late>>
  <2>1. "index2" \in PCs \ {"new", "done"}
    BY DEF PCs
  <2>2. DOMAIN seen' = Numbers /\ queue' \in Seq(Numbers)
    BY <1>6 DEF IInv, Typed, cmdVars
  <2>3. \A m \in Numbers : Commands(m)' <=> Commands(m)
    BY <1>6, AskStays
  <2>4. \A m \in Numbers : /\ pc'[m] = IF m = n THEN "index2" ELSE pc[m]
                           /\ m # n => seen'[m] = seen[m]
    BY <1>6 DEF IInv, Typed
  <2>5. \A m \in Numbers : pc'[m] \in Early <=> pc[m] \in Early
    BY <1>6, <2>4 DEF Early
  <2>6. QueueOnce'
    BY <1>6, <2>3, <2>5 DEF IInv, QueueOnce, cmdVars, Front
  <2>7. ReadingFresh'
    BY <1>6 DEF IInv, ReadingFresh, cmdVars, Front
  <2>8. seen'[n] = table["POST"]
    BY <1>2, <1>6
  <2>9. TableAsBuilt'
    BY <1>6, <2>4, <2>8 DEF IInv, TableAsBuilt, No404
  <2>10. UNCHANGED <<load, status, ask, late, result, applied, value, inside,
                     moved, text_keys, cpc, reading, appVars>>
    BY <1>6 DEF cmdVars
  <2> QED
    BY <1>1, <1>6, <2>1, <2>2, <2>6, <2>7, <2>9, <2>10, MoveIInv
<1> QED
  BY <1>3, <1>4, <1>5, <1>6 DEF Index, Index2

\* The handlers that answer at once.
LEMMA HandleIInv ==
  ASSUME IInv, NEW n \in Numbers, Handle(n) \/ HandleNoCommand(n)
  PROVE  IInv'
<1>1. pc[n] = "handle" /\ DOMAIN seen = Numbers /\ UNCHANGED <<seen, table, late>>
  BY DEF Handle, HandleNoCommand, IInv, Typed
<1>2. CASE HandleNoCommand(n)
  <2>1. End(n, "400") /\ ~Commands(n)
    BY <1>2 DEF HandleNoCommand, Commands
  <2>2. ask[n].via # "ws" => Path(n) \in Registered[Method(n)]
    BY <1>1 DEF IInv, RequestAt
  <2> QED
    BY <1>1, <2>1, <2>2, EndIInv
<1>3. CASE Handle(n)
  <2>1. Path(n) # "/command" /\ Path(n) # "/" /\ ~Commands(n)
    BY <1>1, <1>3 DEF Handle, IInv, RequestAt, Commands
  <2>2. ask[n].via # "ws"
    <3>1. ask[n] \in Asks \cup {Nothing}
      BY DEF IInv, Typed
    <3>2. Nothing.via # "ws"
      BY DEF Nothing
    <3> QED
      BY <2>1, <3>1, <3>2, RequestsAssumption DEF Path
  <2>3. Path(n) \in Registered[Method(n)]
    BY <1>1, <2>2 DEF IInv, RequestAt
  <2>4. Path(n) \in {"/id", "/types", "/registries", "/shutdown"}
    BY <2>1, <2>3 DEF Registered, Method, Methods
  <2>5. End(n, Outcome(n))
    BY <1>3 DEF Handle
  <2>6. CASE Path(n) \in {"/id", "/types"}
    <3>1. Outcome(n) = "200"
      BY <2>6 DEF Outcome
    <3> QED
      BY <1>1, <2>1, <2>3, <2>5, <3>1, EndIInv
  <2>7. CASE Path(n) = "/registries"
    <3>1. Outcome(n) = IF text_keys THEN "raised" ELSE "200"
      BY <2>7 DEF Outcome
    <3>2. CASE text_keys
      <4>1. \E m \in Numbers : Commands(m) /\ ask[m].by = "text_id"
        BY <3>2 DEF IInv, TextAsked
      <4>2. End(n, "raised")
        BY <2>5, <3>1, <3>2
      <4> QED
        BY <1>1, <2>1, <2>3, <2>7, <4>1, <4>2, EndIInv
    <3>3. CASE ~text_keys
      <4>1. End(n, "200")
        BY <2>5, <3>1, <3>3
      <4> QED
        BY <1>1, <2>1, <2>3, <4>1, EndIInv
    <3> QED
      BY <3>2, <3>3
  <2>8. CASE Path(n) = "/shutdown"
    <3>1. Outcome(n) = IF ask[n].kind = "text" THEN "raised" ELSE "400"
      BY <2>8 DEF Outcome
    <3>2. CASE ask[n].kind = "text"
      <4>1. End(n, "raised")
        BY <2>5, <3>1, <3>2
      <4> QED
        BY <1>1, <2>1, <2>3, <2>8, <3>2, <4>1, EndIInv
    <3>3. CASE ask[n].kind # "text"
      <4>1. End(n, "400")
        BY <2>5, <3>1, <3>3
      <4> QED
        BY <1>1, <2>1, <2>3, <4>1, EndIInv
    <3> QED
      BY <3>2, <3>3
  <2> QED
    BY <2>4, <2>6, <2>7, <2>8
<1> QED
  BY <1>2, <1>3

\* A command enters the queue, behind all that are in it.
LEMMA EnqueueIInv ==
  ASSUME IInv, NEW n \in Numbers, Enqueue(n)
  PROVE  IInv'
<1>1. /\ pc[n] = "handle" /\ Commands(n) /\ pc' = [pc EXCEPT ![n] = "waiting"]
      /\ queue' = Append(queue, n) /\ UNCHANGED <<ask, result, cpc>>
  BY DEF Enqueue, Commands
<1>2. "waiting" \in PCs \ {"new", "done"} /\ "waiting" \notin Early
      /\ pc[n] \in Early
  BY <1>1 DEF PCs, Early
<1>3. /\ queue \in Seq(Numbers) /\ queue' \in Seq(Numbers)
      /\ Len(queue) \in Nat /\ Len(queue') = Len(queue) + 1
      /\ \A i \in 1 .. Len(queue) : queue'[i] = queue[i] /\ queue[i] \in Numbers
      /\ queue'[Len(queue) + 1] = n
  BY <1>1 DEF IInv, Typed
<1>4. \A i \in 1 .. Len(queue) : queue[i] # n
  BY <1>2 DEF IInv, QueueOnce
<1>5. \A m \in Numbers : Commands(m)' <=> Commands(m)
  BY <1>1, AskStays
<1>6. \A m \in Numbers : pc'[m] = IF m = n THEN "waiting" ELSE pc[m]
  BY <1>1 DEF IInv, Typed
<1>7. queue # <<>> => queue' # <<>> /\ Head(queue') = Head(queue)
  BY <1>1, <1>3
<1>8. QueueOnce'
  <2>1. \A i, j \in 1 .. Len(queue') : queue'[i] = queue'[j] => i = j
    BY <1>3, <1>4 DEF IInv, QueueOnce
  <2>2. ASSUME NEW m \in Numbers, NEW i \in 1 .. Len(queue'), queue'[i] = m
        PROVE  pc'[m] \notin Early /\ Commands(m)' /\ result'[m] = "none"
    <3>1. CASE m = n
      <4>1. result[n] = "none"
        BY <1>2 DEF IInv, QueueOnce
      <4> QED
        BY <1>1, <1>2, <1>5, <1>6, <3>1, <4>1
    <3>2. CASE m # n
      <4>1. i \in 1 .. Len(queue) /\ queue[i] = m
        BY <1>3, <2>2, <3>2
      <4> QED
        BY <1>1, <1>5, <1>6, <3>2, <4>1 DEF IInv, QueueOnce
    <3> QED
      BY <3>1, <3>2
  <2>3. \A m \in Numbers : pc'[m] \in Early => result'[m] = "none"
    BY <1>1, <1>2, <1>6 DEF IInv, QueueOnce
  <2>4. cpc' = "add" => queue' # <<>> /\ Verdict(ask[Front])' = "add"
    BY <1>1, <1>7 DEF IInv, QueueOnce, Front
  <2> QED
    BY <2>1, <2>2, <2>3, <2>4 DEF QueueOnce
<1>9. ReadingFresh'
  BY <1>7 DEF Enqueue, IInv, QueueOnce, ReadingFresh, Front
<1>10. TableAsBuilt'
  BY <1>6 DEF Enqueue, IInv, TableAsBuilt, No404
<1>11. UNCHANGED <<load, status, ask, late, result, applied, value, inside,
                   moved, text_keys, cpc, reading, appVars, seen>>
  BY DEF Enqueue
<1>12. /\ ask[n].via # "ws" => Path(n) \in Registered[Method(n)]
       /\ DOMAIN seen' = Numbers
  BY <1>1, <1>11 DEF IInv, RequestAt, Typed
<1> QED
  BY <1>1, <1>2, <1>3, <1>8, <1>9, <1>10, <1>11, <1>12, MoveIInv

\* The callback is heard, or time is up.
LEMMA AnswerIInv ==
  ASSUME IInv, NEW n \in Numbers, Answered(n) \/ TimedOut(n)
  PROVE  IInv'
<1>1. /\ pc[n] = "waiting" /\ DOMAIN seen = Numbers /\ UNCHANGED <<seen, table>>
      /\ ask[n].via # "ws" => Path(n) \in Registered[Method(n)]
  BY DEF Answered, TimedOut, IInv, Typed, RequestAt
<1>2. CASE TimedOut(n)
  <2>1. End(n, "400") /\ late' = late \cup {n}
    BY <1>2 DEF TimedOut
  <2> QED
    BY <1>1, <2>1, EndIInv
<1>3. CASE Answered(n)
  <2>1. late' = late /\ result[n] \in {"success", "failure"}
    BY <1>3 DEF Answered, IInv, Typed
  <2>2. CASE result[n] = "success"
    <3>1. End(n, "200")
      BY <1>3, <2>2 DEF Answered
    <3> QED
      BY <1>1, <2>1, <2>2, <3>1, EndIInv
  <2>3. CASE result[n] = "failure"
    <3>1. End(n, "400")
      BY <1>3, <2>3 DEF Answered
    <3> QED
      BY <1>1, <2>1, <2>3, <3>1, EndIInv
  <2> QED
    BY <2>1, <2>2, <2>3
<1> QED
  BY <1>2, <1>3

\* A new request.
LEMMA ArriveIInv ==
  ASSUME IInv, NEW n \in Numbers, NEW a \in Asks, Arrive(n, a)
  PROVE  IInv'
<1> DEFINE to == IF a.via = "ws" THEN "handle" ELSE "lookup"
<1>1. /\ pc[n] = "new" /\ ask' = [ask EXCEPT ![n] = a]
      /\ pc' = [pc EXCEPT ![n] = to]
      /\ UNCHANGED <<load, table, seen, status, late, cmdVars, appVars, value,
                     inside, moved>>
  BY DEF Arrive
<1>2. to \in PCs /\ to \in Early /\ pc[n] \in Early
  BY <1>1 DEF PCs, Early
<1>3. Typed'
  BY <1>1, <1>2 DEF IInv, Typed, cmdVars
<1>4. /\ \A m \in Numbers : /\ pc'[m] = IF m = n THEN to ELSE pc[m]
                            /\ ask'[m] = IF m = n THEN a ELSE ask[m]
      /\ \A m \in Numbers : pc'[m] \in Early <=> pc[m] \in Early
  BY <1>1, <1>2 DEF IInv, Typed
<1>5. /\ status[n] = "none" /\ result[n] = "none" /\ n \notin applied
      /\ ask[n] = Nothing
  BY <1>1, <1>2 DEF IInv, RequestAt, QueueOnce, AnswerAt
<1>6. \A m \in Numbers :
        m # n => /\ Path(m)' = Path(m) /\ Method(m)' = Method(m)
                 /\ Commands(m)' <=> Commands(m)
  BY <1>4, AskStays
<1>7. ASSUME NEW m \in Numbers, m # n
      PROVE  RequestAt(m)' /\ AnswerAt(m)'
  <2>1. pc'[m] = pc[m] /\ ask'[m] = ask[m]
    BY <1>4, <1>7
  <2> QED
    BY <1>1, <1>6, <1>7, <2>1 DEF IInv, RequestAt, AnswerAt, cmdVars
<1>8. RequestAt(n)' /\ AnswerAt(n)'
  <2>1. to = "handle" => a.path = "/command"
    BY RequestsAssumption
  <2> QED
    BY <1>1, <1>4, <1>5, <2>1 DEF RequestAt, AnswerAt, Path, cmdVars
<1>9. QueueOnce'
  <2>1. \A i \in 1 .. Len(queue) : queue[i] \in Numbers /\ queue[i] # n
    BY <1>2 DEF IInv, Typed, QueueOnce
  <2>2. cpc = "add" => queue # <<>> /\ Verdict(ask[Front]) = "add" /\ Front # n
                       /\ Front \in Numbers
    BY <1>2, FrontFacts DEF IInv, QueueOnce
  <2>3. cpc' = "add" => queue' # <<>> /\ Verdict(ask[Front])' = "add"
    BY <1>1, <1>4, <2>2 DEF Front, cmdVars
  <2>4. ASSUME NEW m \in Numbers, NEW i \in 1 .. Len(queue'), queue'[i] = m
        PROVE  pc'[m] \notin Early /\ Commands(m)' /\ result'[m] = "none"
    <3>1. queue' = queue /\ result' = result
      BY <1>1 DEF cmdVars
    <3>2. m # n
      BY <2>1, <2>4, <3>1
    <3> QED
      BY <1>4, <1>6, <2>4, <3>1, <3>2 DEF IInv, QueueOnce
  <2>5. \A m \in Numbers : pc'[m] \in Early => result'[m] = "none"
    BY <1>1, <1>4 DEF IInv, QueueOnce, cmdVars
  <2>6. \A i, j \in 1 .. Len(queue') : queue'[i] = queue'[j] => i = j
    BY <1>1 DEF IInv, QueueOnce, cmdVars
  <2> QED
    BY <2>3, <2>4, <2>5, <2>6 DEF QueueOnce
<1>10. TableAsBuilt'
  BY <1>1, <1>4 DEF IInv, TableAsBuilt, No404
<1>11. ~Commands(n)
  <2>1. Nothing.path = "/"
    BY DEF Nothing
  <2> QED
    BY <1>5, <2>1 DEF Commands, Path
<1>12. TextAsked'
  BY <1>1, <1>4, <1>6, <1>11 DEF IInv, TextAsked, cmdVars
<1>13. \A m \in Numbers : RaisedAt(m)'
  <2> SUFFICES ASSUME NEW m \in Numbers, status'[m] = "raised"
               PROVE  RaisedAt(m)'
    BY DEF RaisedAt
  <2>1. m # n /\ status[m] = "raised" /\ status' = status
    BY <1>1, <1>5
  <2>2. ask'[m] = ask[m] /\ Path(m)' = Path(m)
    BY <1>4, <1>6, <2>1
  <2>3. \A k \in Numbers : Commands(k) => Commands(k)' /\ ask'[k] = ask[k]
    BY <1>4, <1>6, <1>11
  <2> QED
    BY <2>1, <2>2, <2>3 DEF IInv, RaisedAt
<1>14. ReadingFresh' /\ SnapFresh'
  <2>1. cpc = "add" => Front \in Numbers /\ Front # n
    BY <1>2, FrontFacts DEF IInv, QueueOnce
  <2> QED
    BY <1>1, <1>4, <2>1 DEF IInv, ReadingFresh, SnapFresh, cmdVars, appVars,
                            Front
<1> QED
  BY <1>3, <1>7, <1>8, <1>9, <1>10, <1>12, <1>13, <1>14 DEF IInv

\* The application enters or leaves a block.
LEMMA BlockIInv ==
  ASSUME IInv,
         EnterBlock \/ \E v \in {snap[App], 2 ^ Bits - 1} : ExitBlock(v)
  PROVE  IInv'
<1>1. UNCHANGED <<mapVars, cmdVars>> /\ DOMAIN value' = Channels
  BY DEF EnterBlock, ExitBlock, IInv, Typed
<1>2. Typed'
  BY <1>1 DEF IInv, Typed, mapVars, cmdVars
<1>3. QueueOnce'
  BY <1>1, AskStays DEF IInv, QueueOnce, mapVars, cmdVars, Front
<1>4. \A n \in Numbers : AnswerAt(n)'
  BY <1>1, AskStays DEF IInv, AnswerAt, mapVars, cmdVars
<1>5. TextAsked'
  BY <1>1, TextStays DEF mapVars, cmdVars
<1>6. ReadingFresh' /\ SnapFresh'
  <2>1. CASE EnterBlock
    BY <1>1, <2>1 DEF IInv, ReadingFresh, SnapFresh, EnterBlock, mapVars,
                      cmdVars, Front
  <2>2. CASE \E v \in {snap[App], 2 ^ Bits - 1} : ExitBlock(v)
    <3>1. moved' = TRUE /\ block' = FALSE
      BY <2>2 DEF ExitBlock
    <3> QED
      BY <3>1 DEF ReadingFresh, SnapFresh
  <2> QED
    BY <2>1, <2>2
<1> QED
  BY <1>1, <1>2, <1>3, <1>4, <1>5, <1>6, RequestsUntouched DEF IInv

\* Every step keeps the invariant.
LEMMA NextIInv == IInv /\ [Next]_vars => IInv'
<1> SUFFICES ASSUME IInv, [Next]_vars
             PROVE  IInv'
  OBVIOUS
<1>1. CASE \E n \in Numbers : Request(n)
  BY <1>1, LookupIInv, IndexIInv, HandleIInv, EnqueueIInv, AnswerIInv
  DEF Request
<1>2. CASE \E n \in Numbers : \E a \in Asks : Arrive(n, a)
  BY <1>2, ArriveIInv
<1>3. CASE CommandThread \/ Revive
  BY <1>3, CommandIInv
<1>4. CASE EnterBlock \/ \E v \in {snap[App], 2 ^ Bits - 1} : ExitBlock(v)
  BY <1>4, BlockIInv
<1>5. CASE UNCHANGED vars
  <2>1. UNCHANGED <<mapVars, cmdVars, appVars, value, inside, moved>>
    BY <1>5 DEF vars
  <2>2. Typed' /\ SnapFresh' /\ ReadingFresh'
    BY <2>1 DEF IInv, Typed, SnapFresh, ReadingFresh, mapVars, cmdVars,
                appVars, Front
  <2>3. QueueOnce'
    BY <2>1, AskStays DEF IInv, QueueOnce, mapVars, cmdVars, Front
  <2>4. \A n \in Numbers : AnswerAt(n)'
    BY <2>1, AskStays DEF IInv, AnswerAt, mapVars, cmdVars
  <2>5. TextAsked'
    BY <2>1, TextStays DEF mapVars, cmdVars
  <2> QED
    BY <2>1, <2>2, <2>3, <2>4, <2>5, RequestsUntouched DEF IInv
<1> QED
  BY <1>1, <1>2, <1>3, <1>4, <1>5 DEF Next

\* The invariant holds of every reachable state.
LEMMA IInvAlways == Spec => []IInv
  BY InitIInv, NextIInv, PTL DEF Spec

-----------------------------------------------------------------------------

\* What a client is told of its command is what CommandQueueDaemon's thread has
\* done: success only if the channel was written, and failure for a command
\* that was, or will be, carried out only if execute() gave up waiting.
THEOREM AnswersAreTruthful == Spec => []AnswerTruthful
<1>1. IInv => AnswerTruthful
  <2> SUFFICES ASSUME IInv, NEW n \in Numbers, pc[n] = "done", Commands(n),
                      Verdict(ask[n]) \in {"set", "add"}
               PROVE  /\ status[n] = "200" => n \in applied
                      /\ status[n] = "400" /\ n \in applied => n \in late
    BY DEF AnswerTruthful
  <2> QED
    BY DEF IInv, AnswerAt
<1> QED
  BY <1>1, IInvAlways, PTL

\* A request gets a 404 exactly if nobody registered its path, whatever paths
\* were inserted by earlier look-ups, and is left without an answer for one of
\* three reasons only.
THEOREM FailuresAreExplained == Spec => []FailuresExplained
<1>1. IInv => FailuresExplained
  <2> SUFFICES ASSUME IInv, NEW n \in Numbers
               PROVE  /\ pc[n] = "done" /\ ask[n].via # "ws" =>
                           (status[n] = "404") =
                             (Path(n) \notin Registered[Method(n)])
                      /\ RaisedAt(n)
    BY DEF FailuresExplained, RaisedAt
  <2>1. pc[n] = "done" /\ ask[n].via # "ws" =>
          (status[n] = "404" <=> Path(n) \notin Registered[Method(n)])
    BY DEF IInv, RequestAt
  <2> QED
    BY <2>1 DEF IInv
<1> QED
  BY <1>1, IInvAlways, PTL

\* TypePrimitive.add adds to the value that is there unless a block of the
\* application has ended since it read; a block leaves what the application
\* did not change alone unless a command fell into it.
THEOREM WritesAreKept == Spec => WritesKept
<1> DEFINE AddKept ==
             cpc = "add" /\ applied' # applied =>
               \/ moved
               \/ value'[ask[Front].chan] =
                    value[ask[Front].chan] + Amount(ask[Front])
           BlockKept ==
             block /\ ~block' =>
               \A c \in Channels \ {App} : value'[c] = value[c] \/ c \in inside
<1>1. IInv /\ [Next]_vars => [AddKept]_vars
  <2> SUFFICES ASSUME IInv, [Next]_vars, cpc = "add", applied' # applied,
                      ~moved
               PROVE  value'[ask[Front].chan] =
                        value[ask[Front].chan] + Amount(ask[Front])
    OBVIOUS
  <2>1. EndAdd
    BY DEF Next, Request, CommandThread, Arrive, Lookup, Index, Index2, Handle,
           HandleNoCommand, Enqueue, Answered, TimedOut, End, Reject, Help,
           Refuse, GetChannel, SetChannel, BeginAdd, Die, Revive, Takes,
           EnterBlock, ExitBlock, cmdVars, vars
  <2>2. queue # <<>> /\ Verdict(ask[Front]) = "add"
    BY DEF IInv, QueueOnce
  <2>3. ask[Front].chan \in Channels
    BY <2>2, FrontFacts, AddIsOfChannel
  <2>4. WriteChannel(reading + Amount(ask[Front]))
    BY <2>1 DEF EndAdd
  <2>5. value'[ask[Front].chan] = reading + Amount(ask[Front])
    BY <2>3, <2>4 DEF WriteChannel, IInv, Typed
  <2> QED
    BY <2>5 DEF IInv, ReadingFresh
<1>2. IInv /\ [Next]_vars => [BlockKept]_vars
  <2> SUFFICES ASSUME IInv, [Next]_vars, block, ~block',
                      NEW c \in Channels \ {App}, c \notin inside
               PROVE  value'[c] = value[c]
    OBVIOUS
  <2>1. PICK v : ExitBlock(v)
    BY DEF Next, Request, CommandThread, Arrive, Lookup, Index, Index2, Handle,
           HandleNoCommand, Enqueue, Answered, TimedOut, End, Reject, Help,
           Refuse, GetChannel, SetChannel, BeginAdd, EndAdd, Die, Revive,
           Takes, EnterBlock, appVars, vars
  <2>2. value'[c] = IF c \in Group THEN snap[c] ELSE value[c]
    BY <2>1 DEF ExitBlock
  <2> QED
    BY <2>2 DEF IInv, SnapFresh
<1> QED
  BY <1>1, <1>2, IInvAlways, PTL DEF Spec, WritesKept
=============================================================================
