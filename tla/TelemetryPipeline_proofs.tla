----------------------- MODULE TelemetryPipeline_proofs -----------------------
(***************************************************************************)
(* Proofs about TelemetryPipeline: for any channels, groups, rates, sizes, *)
(* mtu, queue sizes and times.                                             *)
(***************************************************************************)
EXTENDS TelemetryPipeline, SequenceTheorems, WellFoundedInduction, TLAPS

(***************************************************************************)
(* The inductive invariant.  Who holds the environment's lock decides what *)
(* may change: the dispatcher has it from its first sample to its last     *)
(* event, a group from its first write to its last.                        *)
(***************************************************************************)
InDispatch == dpc \in {"emit", "put", "event"}

\* The dispatcher's own state.
DispatchAt ==
  /\ lock = "dispatcher" <=> InDispatch
  /\ ~InDispatch => /\ frame.elems = <<>> /\ held = <<>>
                    /\ todo = <<>> /\ pending = <<>>
  /\ InDispatch => frame.stamp = now /\ stamps[frame.kind] = now
  /\ dpc # "put" => held = <<>>
  /\ dpc = "emit" => frame.kind = "data"
  /\ dpc = "event" => frame.kind = "event"
  /\ frame.kind = "event" => todo = <<>>
  /\ frame.kind = "data" => held \in Seq(Sample)
  /\ frame.kind = "event" => held \in Seq(Event)

\* The stream writer's.
WriterAt ==
  /\ wpc = "get" => hand = <<>>
  /\ wpc = "handle" => Len(hand) = 1

\* The channels of a group are equal but while the group is being written.
GroupAt ==
  /\ lock = "group" => \A c \in Group \ gtodo : data[c] = writes["locked"]
  /\ lock # "group" => gtodo = {} /\ \A c, d \in Group : data[c] = data[d]

\* What the dispatcher will not sample again at this time.
Passed(c, t) == emitted[c] + Rate[c] > t

\* A channel of the group was passed at the time of every sample of the group,
\* or is yet to be looked at; if it is due, nobody has written the group since.
SamplesAt ==
  /\ Group \subseteq ToSet(order)
  /\ InDispatch => \A c \in Group : c \in ToSet(todo) \/ Passed(c, now)
  /\ \A x \in OnTheWay("data") : x.elem.channel \in Group =>
       \A c \in Group :
         \/ Passed(c, x.at)
         \/ /\ InDispatch /\ x.at = now /\ c \in ToSet(todo)
            /\ Due(c) => x.elem.value = data[c]

\* The change to a value was queued, consumed or sent.
Known(c, v) ==
  \/ c \in {Metric} \cup dropped
  \/ v = 0
  \/ \E e \in ToSet(events) \cup ToSet(pending) : e.channel = c /\ e.curr = v
  \/ \E y \in OnTheWay("event") : y.elem.channel = c /\ y.elem.curr = v

EventsAt ==
  /\ \A e \in ToSet(late) : e.channel = Metric
  /\ \A c \in Channels : Known(c, data[c])
  /\ \A x \in OnTheWay("data") : Known(x.elem.channel, x.elem.value)
  /\ InDispatch /\ frame.kind = "event" =>
       \A e \in ToSet(events) : e.channel = Metric
  /\ ~InDispatch => \A x \in OnTheWay("data") : Explained(x)

IInv ==
  /\ TypeOK /\ DispatchAt /\ WriterAt /\ GroupAt
  /\ SamplesAt /\ GroupAtomic /\ EventsAt
-----------------------------------------------------------------------------
(* Sequences and their elements *)

\* An element more.
LEMMA AppendSet ==
  ASSUME NEW S, NEW s \in Seq(S), NEW e \in S
  PROVE  Append(s, e) \in Seq(S) /\ ToSet(Append(s, e)) = ToSet(s) \cup {e}
<1>1. /\ Append(s, e) \in Seq(S)
      /\ DOMAIN s = 1 .. Len(s) /\ Len(s) \in Nat
      /\ DOMAIN Append(s, e) = 1 .. Len(s) + 1
      /\ \A i \in 1 .. Len(s) : Append(s, e)[i] = s[i]
      /\ Append(s, e)[Len(s) + 1] = e
  OBVIOUS
<1> QED
  BY <1>1 DEF ToSet

\* The first element and the others.
LEMMA HeadTailSet ==
  ASSUME NEW S, NEW s \in Seq(S), s # <<>>
  PROVE  /\ Head(s) \in S /\ Tail(s) \in Seq(S) /\ Len(Tail(s)) = Len(s) - 1
         /\ ToSet(s) = {Head(s)} \cup ToSet(Tail(s))
<1> DEFINE t == Tail(s)
<1>1. /\ Head(s) \in S /\ t \in Seq(S) /\ Len(t) = Len(s) - 1
      /\ Len(s) \in Nat \ {0} /\ DOMAIN s = 1 .. Len(s)
      /\ DOMAIN t = 1 .. Len(s) - 1
      /\ Head(s) = s[1] /\ \A i \in 1 .. Len(s) - 1 : t[i] = s[i + 1]
  OBVIOUS
<1> HIDE DEF t
<1>2. ASSUME NEW i \in 1 .. Len(s) PROVE s[i] \in {Head(s)} \cup ToSet(t)
  <2>1. CASE i = 1
    BY <1>1, <2>1
  <2>2. CASE i # 1
    <3>1. i - 1 \in DOMAIN t /\ t[i - 1] = s[i]
      BY <1>1, <2>2
    <3> QED
      BY <3>1 DEF ToSet
  <2> QED
    BY <2>1, <2>2
<1>3. ASSUME NEW i \in 1 .. Len(s) - 1 PROVE t[i] \in ToSet(s)
  <2>1. i + 1 \in DOMAIN s /\ s[i + 1] = t[i]
    BY <1>1
  <2> QED
    BY <2>1 DEF ToSet
<1>4. Head(s) \in ToSet(s)
  BY <1>1 DEF ToSet
<1>5. ToSet(s) \subseteq {Head(s)} \cup ToSet(t)
  BY <1>1, <1>2 DEF ToSet
<1>6. ToSet(t) \subseteq ToSet(s)
  BY <1>1, <1>3 DEF ToSet
<1> QED
  BY <1>1, <1>4, <1>5, <1>6 DEF t

\* None, and one.
LEMMA SmallSets ==
  /\ ToSet(<<>>) = {}
  /\ \A e : ToSet(<<e>>) = {e}
<1>1. ToSet(<<>>) = {}
  BY DEF ToSet
<1>2. ASSUME NEW e PROVE ToSet(<<e>>) = {e}
  <2>1. DOMAIN <<e>> = {1} /\ <<e>>[1] = e
    OBVIOUS
  <2> QED
    BY <2>1 DEF ToSet
<1> QED
  BY <1>1, <1>2

\* Elements of a sequence are of its type.
LEMMA SetOfSeq ==
  ASSUME NEW S, NEW s \in Seq(S)
  PROVE  ToSet(s) \subseteq S
  BY DEF ToSet

-----------------------------------------------------------------------------
(* Induction over the natural numbers, and what FlattenSeq computes *)

\* A set of natural numbers that is not empty has a least element.
LEMMA MinNat ==
  ASSUME NEW T, T \subseteq Nat, T # {}
  PROVE  \E x \in T : \A y \in T : x <= y
<1> DEFINE R == OpToRel(<, Nat)
<1>1. IsWellFoundedOn(R, Nat)
  BY NatLessThanWellFounded
<1>2. \A x, y \in Nat : y < x => <<y, x>> \in R
  BY DEF OpToRel
<1> HIDE DEF R
<1>3. PICK x \in T : \A y \in T : ~ (<<y, x>> \in R)
  BY <1>1, WFMin
<1>4. ASSUME NEW y \in T PROVE x <= y
  <2>1. x \in Nat /\ y \in Nat
    OBVIOUS
  <2>2. ~(y < x)
    BY <1>2, <1>3, <2>1
  <2> QED
    BY <2>1, <2>2
<1> QED
  BY <1>4

\* Induction: a set that has 0, and n + 1 with every n, has every number.
LEMMA Induct ==
  ASSUME NEW T, 0 \in T, \A n \in Nat : n \in T => n + 1 \in T
  PROVE  Nat \subseteq T
<1> SUFFICES ASSUME Nat \ T # {} PROVE FALSE
  OBVIOUS
<1> DEFINE U == Nat \ T
<1>1. U \subseteq Nat /\ U # {} /\ \A x \in U : x # 0 /\ x \in Nat
  OBVIOUS
<1>2. PICK x \in U : \A y \in U : x <= y
  BY <1>1, MinNat
<1>3. x \in Nat /\ x # 0 /\ x - 1 \in Nat /\ ~(x <= x - 1)
  BY <1>1
<1>4. x - 1 \in T
  BY <1>2, <1>3
<1> QED
  BY <1>3, <1>4

\* The recursion of FlattenSeq.
Joins(g, ss, n) ==
  \A i \in 1 .. n : g[i] = IF i = 1 THEN ss[i] ELSE g[i - 1] \o ss[i]

\* FlattenSeq's recursion has a solution, up to any of the sequences,
LEMMA JoinExists ==
  ASSUME NEW S, NEW ss \in Seq(Seq(S))
  PROVE  \A n \in 0 .. Len(ss) : \E g \in [1 .. n -> Seq(S)] : Joins(g, ss, n)
<1> DEFINE T == {n \in Nat : n <= Len(ss) =>
                   \E g \in [1 .. n -> Seq(S)] : Joins(g, ss, n)}
<1>1. 0 \in T
  <2>1. [i \in 1 .. 0 |-> <<>>] \in [1 .. 0 -> Seq(S)]
    OBVIOUS
  <2>2. Joins([i \in 1 .. 0 |-> <<>>], ss, 0)
    BY DEF Joins
  <2> QED
    BY <2>1, <2>2
<1>2. ASSUME NEW n \in Nat, n \in T, n + 1 <= Len(ss)
      PROVE  \E g \in [1 .. n + 1 -> Seq(S)] : Joins(g, ss, n + 1)
  <2>1. PICK g \in [1 .. n -> Seq(S)] : Joins(g, ss, n)
    BY <1>2
  <2>2. ss[n + 1] \in Seq(S)
    BY <1>2
  <2> DEFINE v == IF n = 0 THEN ss[n + 1] ELSE g[n] \o ss[n + 1]
  <2>3. v \in Seq(S)
    <3>1. CASE n = 0
      BY <2>2, <3>1
    <3>2. CASE n # 0
      <4>1. g[n] \in Seq(S)
        BY <3>2
      <4> QED
        BY <2>2, <3>2, <4>1
    <3> QED
      BY <3>1, <3>2
  <2> HIDE DEF v
  <2> DEFINE h == [i \in 1 .. n + 1 |-> IF i = n + 1 THEN v ELSE g[i]]
  <2>4. h \in [1 .. n + 1 -> Seq(S)]
    BY <2>3
  <2>5. h[n + 1] = v /\ \A i \in 1 .. n : h[i] = g[i]
    OBVIOUS
  <2> HIDE DEF h
  <2>6. ASSUME NEW i \in 1 .. n + 1
        PROVE  h[i] = IF i = 1 THEN ss[i] ELSE h[i - 1] \o ss[i]
    <3>1. CASE i = n + 1
      <4>1. n # 0 => h[i - 1] = g[n]
        BY <2>5, <3>1
      <4> QED
        BY <2>5, <3>1, <4>1 DEF v
    <3>2. CASE i # n + 1
      <4>1. i \in 1 .. n /\ (i # 1 => i - 1 \in 1 .. n)
        BY <3>2
      <4>2. h[i] = g[i] /\ (i # 1 => h[i - 1] = g[i - 1])
        BY <2>5, <4>1
      <4> QED
        BY <2>1, <4>1, <4>2 DEF Joins
    <3> QED
      BY <3>1, <3>2
  <2>7. Joins(h, ss, n + 1)
    BY <2>6 DEF Joins
  <2> QED
    BY <2>4, <2>7
<1>3. \A n \in Nat : n \in T => n + 1 \in T
  BY <1>2
<1> HIDE DEF T
<1>4. Nat \subseteq T
  BY <1>1, <1>3, Induct
<1> QED
  BY <1>4 DEF T

\* and only one,
LEMMA JoinUnique ==
  ASSUME NEW ss, NEW n \in Nat, NEW g, NEW h, Joins(g, ss, n), Joins(h, ss, n)
  PROVE  \A i \in 1 .. n : g[i] = h[i]
<1> DEFINE T == {i \in Nat : i \in 1 .. n => g[i] = h[i]}
<1>1. 0 \in T
  OBVIOUS
<1>2. ASSUME NEW i \in Nat, i \in T, i + 1 \in 1 .. n PROVE g[i + 1] = h[i + 1]
  <2>1. i # 0 => g[i] = h[i] /\ (i + 1) - 1 = i /\ i + 1 # 1
    BY <1>2
  <2> QED
    BY <1>2, <2>1 DEF Joins
<1>3. \A i \in Nat : i \in T => i + 1 \in T
  BY <1>2
<1> HIDE DEF T
<1>4. Nat \subseteq T
  BY <1>1, <1>3, Induct
<1> QED
  BY <1>4 DEF T

\* which is what FlattenSeq takes.
LEMMA FlattenIs ==
  ASSUME NEW S, NEW ss \in Seq(Seq(S)), ss # <<>>,
         NEW g, Joins(g, ss, Len(ss))
  PROVE  FlattenSeq(ss) = g[Len(ss)]
<1> DEFINE P(f) == f = [i \in 1 .. Len(ss) |->
                          IF i = 1 THEN ss[i] ELSE f[i - 1] \o ss[i]]
           fl == CHOOSE f : P(f)
<1>1. Len(ss) \in Nat /\ Len(ss) # 0 /\ Len(ss) \in 0 .. Len(ss)
  OBVIOUS
<1>2. \A n \in 0 .. Len(ss) : \E f \in [1 .. n -> Seq(S)] : Joins(f, ss, n)
  BY JoinExists
<1>3. PICK f \in [1 .. Len(ss) -> Seq(S)] : Joins(f, ss, Len(ss))
  BY <1>1, <1>2
<1>4. P(f)
  BY <1>3 DEF Joins
<1>5. P(fl)
  BY <1>4, Zenon
<1>6. FlattenSeq(ss) = fl[Len(ss)]
  BY <1>1, Zenon DEF FlattenSeq
<1>7. Joins(fl, ss, Len(ss))
  <2> HIDE DEF fl
  <2> QED
    BY <1>5 DEF Joins
<1> HIDE DEF fl
<1>8. fl[Len(ss)] = g[Len(ss)]
  BY <1>1, <1>7, JoinUnique
<1> QED
  BY <1>6, <1>8

\* Nothing to flatten.
LEMMA FlattenEmpty == FlattenSeq(<<>>) = <<>>
  BY DEF FlattenSeq

\* The type of what is flattened.
LEMMA FlattenType ==
  ASSUME NEW S, NEW ss \in Seq(Seq(S))
  PROVE  FlattenSeq(ss) \in Seq(S)
<1>1. CASE ss = <<>>
  <2>1. <<>> \in Seq(S)
    OBVIOUS
  <2> QED
    BY <1>1, <2>1, FlattenEmpty, Zenon
<1>2. CASE ss # <<>>
  <2>1. Len(ss) \in 0 .. Len(ss) /\ Len(ss) \in 1 .. Len(ss)
    BY <1>2
  <2>2. \A n \in 0 .. Len(ss) : \E g \in [1 .. n -> Seq(S)] : Joins(g, ss, n)
    BY JoinExists
  <2>3. PICK g \in [1 .. Len(ss) -> Seq(S)] : Joins(g, ss, Len(ss))
    BY <2>1, <2>2
  <2>4. FlattenSeq(ss) = g[Len(ss)]
    BY <1>2, <2>3, FlattenIs
  <2> QED
    BY <2>1, <2>3, <2>4
<1> QED
  BY <1>1, <1>2

\* One sequence more to flatten.
LEMMA FlattenAppend ==
  ASSUME NEW S, NEW ss \in Seq(Seq(S)), NEW s \in Seq(S)
  PROVE  FlattenSeq(Append(ss, s)) = FlattenSeq(ss) \o s
<1> DEFINE n == Len(ss)
           tt == Append(ss, s)
<1>1. n \in Nat /\ n + 1 \in 0 .. n + 1 /\ n + 1 \in 1 .. n + 1
  OBVIOUS
<1>2. tt \in Seq(Seq(S)) /\ Len(tt) = n + 1
  BY AppendProperties
<1>3. tt[n + 1] = s
  OBVIOUS
<1>4. ASSUME NEW i \in 1 .. n PROVE tt[i] = ss[i]
  BY <1>1
<1>5. tt # <<>>
  BY <1>1, <1>2
<1> HIDE DEF n, tt
<1>6. \A m \in 0 .. Len(tt) : \E g \in [1 .. m -> Seq(S)] : Joins(g, tt, m)
  BY <1>2, JoinExists
<1>7. PICK g \in [1 .. n + 1 -> Seq(S)] : Joins(g, tt, n + 1)
  BY <1>1, <1>2, <1>6
<1>8. FlattenSeq(tt) = g[n + 1]
  BY <1>2, <1>5, <1>7, FlattenIs
<1>9. Joins(g, ss, n)
  <2>1. ASSUME NEW i \in 1 .. n
        PROVE  g[i] = IF i = 1 THEN ss[i] ELSE g[i - 1] \o ss[i]
    <3>1. i \in 1 .. n + 1
      BY <1>1
    <3>2. g[i] = IF i = 1 THEN tt[i] ELSE g[i - 1] \o tt[i]
      BY <1>7, <3>1 DEF Joins
    <3> QED
      BY <1>4, <3>2
  <2> QED
    BY <2>1 DEF Joins
<1>10. CASE n = 0
  <2>1. ss = <<>>
    BY <1>10 DEF n
  <2>2. FlattenSeq(ss) = <<>>
    BY <2>1, FlattenEmpty
  <2>3. g[n + 1] = tt[n + 1]
    <3>1. n + 1 = 1
      BY <1>10
    <3> QED
      BY <1>1, <1>7, <3>1 DEF Joins
  <2>4. <<>> \o s = s
    OBVIOUS
  <2>5. FlattenSeq(tt) = FlattenSeq(ss) \o s
    BY <1>8, <1>3, <2>2, <2>3, <2>4
  <2> QED
    BY <2>5 DEF tt
<1>11. CASE n # 0
  <2>1. ss # <<>> /\ n \in 1 .. n + 1 /\ n = Len(ss)
    BY <1>1, <1>11 DEF n
  <2>2. FlattenSeq(ss) = g[n]
    BY <1>9, <2>1, FlattenIs
  <2>3. g[n + 1] = g[n] \o tt[n + 1]
    <3>1. n + 1 # 1 /\ (n + 1) - 1 = n
      BY <1>1, <1>11
    <3> QED
      BY <1>1, <1>7, <3>1 DEF Joins
  <2> QED
    BY <1>3, <1>8, <2>2, <2>3 DEF tt
<1> QED
  BY <1>10, <1>11

\* Two lists of sequences.
LEMMA FlattenConcat ==
  ASSUME NEW S, NEW ss \in Seq(Seq(S)), NEW tt \in Seq(Seq(S))
  PROVE  FlattenSeq(ss \o tt) = FlattenSeq(ss) \o FlattenSeq(tt)
<1> DEFINE T == {n \in Nat : \A uu \in Seq(Seq(S)) : Len(uu) = n =>
                   FlattenSeq(ss \o uu) = FlattenSeq(ss) \o FlattenSeq(uu)}
<1>1. FlattenSeq(ss) \in Seq(S)
  BY FlattenType
<1>2. 0 \in T
  <2>1. ASSUME NEW uu \in Seq(Seq(S)), Len(uu) = 0
        PROVE  FlattenSeq(ss \o uu) = FlattenSeq(ss) \o FlattenSeq(uu)
    <3>1. uu = <<>> /\ ss \o uu = ss
      BY <2>1
    <3> QED
      BY <1>1, <3>1, FlattenEmpty
  <2> QED
    BY <2>1
<1>3. ASSUME NEW n \in Nat, n \in T, NEW uu \in Seq(Seq(S)), Len(uu) = n + 1
      PROVE  FlattenSeq(ss \o uu) = FlattenSeq(ss) \o FlattenSeq(uu)
  <2> DEFINE vv == [i \in 1 .. n |-> uu[i]]
             v == uu[n + 1]
  <2>1. vv \in Seq(Seq(S)) /\ Len(vv) = n /\ v \in Seq(S) /\ uu = Append(vv, v)
    BY <1>3
  <2> HIDE DEF vv, v
  <2>2. ss \o uu = Append(ss \o vv, v) /\ ss \o vv \in Seq(Seq(S))
    BY <2>1, SMTT(30)
  <2>3. FlattenSeq(ss \o vv) = FlattenSeq(ss) \o FlattenSeq(vv)
    BY <1>3, <2>1
  <2>4. FlattenSeq(ss \o uu) = (FlattenSeq(ss) \o FlattenSeq(vv)) \o v
    BY <2>1, <2>2, <2>3, FlattenAppend
  <2>5. FlattenSeq(uu) = FlattenSeq(vv) \o v /\ FlattenSeq(vv) \in Seq(S)
    BY <2>1, FlattenAppend, FlattenType
  <2>6. \A a, b, d \in Seq(S) : (a \o b) \o d = a \o (b \o d)
    BY ConcatAssociative, SMTT(30)
  <2>7. (FlattenSeq(ss) \o FlattenSeq(vv)) \o v = FlattenSeq(ss) \o (FlattenSeq(vv) \o v)
    BY <1>1, <2>1, <2>5, <2>6, Zenon
  <2> QED
    BY <2>4, <2>5, <2>7, Zenon
<1>4. ASSUME NEW n \in Nat, n \in T PROVE n + 1 \in T
  <2>1. \A uu \in Seq(Seq(S)) : Len(uu) = n + 1 =>
          FlattenSeq(ss \o uu) = FlattenSeq(ss) \o FlattenSeq(uu)
    BY <1>3, <1>4
  <2>2. n + 1 \in Nat
    OBVIOUS
  <2> QED
    BY <2>1, <2>2
<1> HIDE DEF T
<1>5. Nat \subseteq T
  BY <1>2, <1>4, Induct
<1> QED
  BY <1>5 DEF T

\* F takes what is in S to sequences over T.
Maps(F, S, T) == F \in [S -> Seq(T)]
FlatMap(F, w) == FlattenSeq([i \in DOMAIN w |-> F[w[i]]])

\* Of nothing and of one.
LEMMA FlatMapSmall ==
  ASSUME NEW S, NEW T, NEW F, Maps(F, S, T), NEW e \in S
  PROVE  FlatMap(F, <<>>) = <<>> /\ FlatMap(F, <<e>>) = F[e]
<1>1. F \in [S -> Seq(T)]
  BY DEF Maps
<1>2. [i \in DOMAIN <<>> |-> F[<<>>[i]]] = <<>>
  OBVIOUS
<1>3. [i \in DOMAIN <<e>> |-> F[<<e>>[i]]] = Append(<<>>, F[e])
  OBVIOUS
<1>4. F[e] \in Seq(T) /\ <<>> \in Seq(Seq(T))
  BY <1>1
<1>5. FlattenSeq(Append(<<>>, F[e])) = FlattenSeq(<<>>) \o F[e]
  BY <1>4, FlattenAppend
<1>6. <<>> \o F[e] = F[e]
  BY <1>4
<1> QED
  BY <1>2, <1>3, <1>5, <1>6, FlattenEmpty DEF FlatMap

\* A map, element by element.
LEMMA MapSeq ==
  ASSUME NEW S, NEW T, NEW F, Maps(F, S, T), NEW u \in Seq(S)
  PROVE  LET m == [i \in DOMAIN u |-> F[u[i]]] IN
         m \in Seq(Seq(T)) /\ Len(m) = Len(u) /\ \A i \in 1 .. Len(u) : m[i] = F[u[i]]
<1> DEFINE n == Len(u)
           m == [i \in DOMAIN u |-> F[u[i]]]
<1>1. DOMAIN u = 1 .. Len(u) /\ Len(u) \in Nat
  OBVIOUS
<1>2. ASSUME NEW i \in 1 .. Len(u) PROVE F[u[i]] \in Seq(T)
  <2>1. u[i] \in S
    OBVIOUS
  <2> QED
    BY <2>1 DEF Maps
<1>3. m = [i \in 1 .. n |-> F[u[i]]] /\ n \in Nat
  BY <1>1
<1>4. [i \in 1 .. n |-> F[u[i]]] \in Seq(Seq(T))
  BY <1>2, <1>3
<1>5. Len([i \in 1 .. n |-> F[u[i]]]) = n
  BY <1>3
<1> QED
  BY <1>3, <1>4, <1>5

\* The type of what is mapped and flattened.
LEMMA FlatMapType ==
  ASSUME NEW S, NEW T, NEW F, Maps(F, S, T), NEW v \in Seq(S)
  PROVE  FlatMap(F, v) \in Seq(T)
<1> DEFINE m == [i \in DOMAIN v |-> F[v[i]]]
<1>1. m \in Seq(Seq(T)) /\ <<>> \in Seq(T)
  BY MapSeq
<1> HIDE DEF m
<1>2. FlattenSeq(m) \in Seq(T)
  BY <1>1, FlattenType
<1> QED
  BY <1>2 DEF FlatMap, m

\* Of two sequences.
LEMMA FlatMapConcat ==
  ASSUME NEW S, NEW T, NEW F, Maps(F, S, T), NEW v \in Seq(S), NEW w \in Seq(S)
  PROVE  FlatMap(F, v \o w) = FlatMap(F, v) \o FlatMap(F, w)
<1> DEFINE M(u) == [i \in DOMAIN u |-> F[u[i]]]
<1>1. ASSUME NEW u \in Seq(S)
      PROVE  M(u) \in Seq(Seq(T)) /\ Len(M(u)) = Len(u)
             /\ \A i \in 1 .. Len(u) : M(u)[i] = F[u[i]]
  BY MapSeq
<1>2. v \o w \in Seq(S) /\ Len(v \o w) = Len(v) + Len(w)
      /\ Len(v) \in Nat /\ Len(w) \in Nat
  OBVIOUS
<1>3. /\ M(v) \in Seq(Seq(T)) /\ Len(M(v)) = Len(v)
      /\ M(w) \in Seq(Seq(T)) /\ Len(M(w)) = Len(w)
  BY <1>1
<1>4. M(v \o w) \in Seq(Seq(T)) /\ Len(M(v \o w)) = Len(v \o w)
  BY <1>1, <1>2
<1> HIDE DEF M
<1>5. M(v) \o M(w) \in Seq(Seq(T)) /\ Len(M(v) \o M(w)) = Len(v) + Len(w)
  <2>1. \A a, b \in Seq(Seq(T)) : a \o b \in Seq(Seq(T)) /\ Len(a \o b) = Len(a) + Len(b)
    BY ConcatProperties
  <2> QED
    BY <1>3, <2>1
<1>6. ASSUME NEW i \in 1 .. Len(v) + Len(w)
      PROVE  M(v \o w)[i] = (M(v) \o M(w))[i]
  <2>1. M(v \o w)[i] = F[(v \o w)[i]]
    BY <1>1, <1>2
  <2>2. (v \o w)[i] = IF i <= Len(v) THEN v[i] ELSE w[i - Len(v)]
    BY ConcatProperties
  <2>3. (M(v) \o M(w))[i] = IF i <= Len(v) THEN M(v)[i] ELSE M(w)[i - Len(v)]
    BY <1>3, ConcatProperties
  <2>4. (i <= Len(v) => i \in 1 .. Len(v))
        /\ (~(i <= Len(v)) => i - Len(v) \in 1 .. Len(w))
    BY <1>2
  <2>5. (i <= Len(v) => M(v)[i] = F[v[i]])
        /\ (~(i <= Len(v)) => M(w)[i - Len(v)] = F[w[i - Len(v)]])
    BY <1>1, <2>4
  <2> QED
    BY <2>1, <2>2, <2>3, <2>5
<1>7. M(v \o w) \in Seq(Seq(T)) /\ Len(M(v \o w)) = Len(v) + Len(w)
  BY <1>4, <1>2
<1>8. M(v \o w) = M(v) \o M(w)
  BY <1>5, <1>6, <1>7, SeqEqual
<1>9. FlattenSeq(M(v) \o M(w)) = FlattenSeq(M(v)) \o FlattenSeq(M(w))
  BY <1>1, FlattenConcat
<1>10. /\ FlatMap(F, v) = FlattenSeq(M(v)) /\ FlatMap(F, w) = FlattenSeq(M(w))
      /\ FlatMap(F, v \o w) = FlattenSeq(M(v \o w))
  BY DEF FlatMap, M
<1> QED
  BY <1>8, <1>9, <1>10, Zenon

-----------------------------------------------------------------------------
(* What is on its way *)

\* The frames that are not being filled.
Complete == ToSet(delivered) \cup ((ToSet(hand) \cup ToSet(queue)) \ {None})

\* OnTheWay, of given frames.
Way(F, f, h, kind) ==
  (UNION {Stamped(g, g.elems) : g \in {d \in F \cup {f} : d.kind = kind}})
    \cup (IF f.kind = kind THEN Stamped(f, h) ELSE {})

\* The elements in the frames, and the one that did not fit.
LEMMA WayMember ==
  ASSUME NEW F, NEW f, NEW h, NEW kind, NEW x
  PROVE  x \in Way(F, f, h, kind) <=>
           \/ \E g \in F \cup {f} : /\ g.kind = kind
                                    /\ x \in Stamped(g, g.elems)
           \/ f.kind = kind /\ x \in Stamped(f, h)
<1> DEFINE K == {d \in F \cup {f} : d.kind = kind}
           U == UNION {Stamped(g, g.elems) : g \in K}
           W == IF f.kind = kind THEN Stamped(f, h) ELSE {}
<1>1. x \in U <=> \E g \in K : x \in Stamped(g, g.elems)
  OBVIOUS
<1>2. (\E g \in K : x \in Stamped(g, g.elems)) <=>
        \E g \in F \cup {f} : g.kind = kind /\ x \in Stamped(g, g.elems)
  OBVIOUS
<1>3. x \in W <=> f.kind = kind /\ x \in Stamped(f, h)
  OBVIOUS
<1>4. Way(F, f, h, kind) = U \cup W
  BY DEF Way
<1> HIDE DEF K, U, W
<1>5. x \in Way(F, f, h, kind) <=> x \in U \/ x \in W
  BY <1>4
<1> QED
  BY <1>1, <1>2, <1>3, <1>5

\* A step that takes no element.
LEMMA WayKept ==
  ASSUME NEW F, NEW f, NEW h, NEW G, NEW g, NEW kind,
         f.elems = <<>>, h = <<>>, g.elems = <<>>, G = F
  PROVE  Way(F, f, h, kind) = Way(G, g, h, kind)
<1>1. Stamped(f, f.elems) = {} /\ Stamped(g, g.elems) = {}
      /\ Stamped(f, h) = {} /\ Stamped(g, h) = {}
  BY SmallSets DEF Stamped
<1>2. \A x : x \in Way(F, f, h, kind) <=> x \in Way(G, g, h, kind)
  BY <1>1, WayMember
<1> QED
  BY <1>2

\* An element is put into the frame.
LEMMA WayAdds ==
  ASSUME NEW F, NEW f \in Frame, NEW e, NEW kind, NEW S, f.elems \in Seq(S),
         e \in S, NEW x
  PROVE  x \in Way(F, Added(f, e), <<>>, kind) <=>
           \/ x \in Way(F, f, <<>>, kind)
           \/ f.kind = kind /\ x = [elem |-> e, at |-> f.stamp]
<1> DEFINE a == Added(f, e)
<1>1. a.kind = f.kind /\ a.stamp = f.stamp /\ a.elems = Append(f.elems, e)
  BY DEF Added, Frame
<1> HIDE DEF a
<1>2. Stamped(a, a.elems) =
        Stamped(f, f.elems) \cup {[elem |-> e, at |-> f.stamp]}
  BY <1>1, AppendSet DEF Stamped
<1>3. Stamped(a, <<>>) = {} /\ Stamped(f, <<>>) = {}
  BY SmallSets DEF Stamped
<1>4. x \in Way(F, a, <<>>, kind) <=>
        \E g \in F \cup {a} : g.kind = kind /\ x \in Stamped(g, g.elems)
  BY <1>3, WayMember
<1>5. x \in Way(F, f, <<>>, kind) <=>
        \E g \in F \cup {f} : g.kind = kind /\ x \in Stamped(g, g.elems)
  BY <1>3, WayMember
<1> QED
  BY <1>1, <1>2, <1>4, <1>5 DEF a

\* An element that does not fit waits beside the frame.
LEMMA WayHolds ==
  ASSUME NEW F, NEW f, NEW e, NEW kind, NEW x
  PROVE  x \in Way(F, f, <<e>>, kind) <=>
           \/ x \in Way(F, f, <<>>, kind)
           \/ f.kind = kind /\ x = [elem |-> e, at |-> f.stamp]
<1>1. /\ Stamped(f, <<e>>) = {[elem |-> e, at |-> f.stamp]}
      /\ Stamped(f, <<>>) = {}
  BY SmallSets DEF Stamped
<1> QED
  BY <1>1, WayMember

\* A frame is queued, and the next one has the element that waited.
LEMMA WayPuts ==
  ASSUME NEW F, NEW f, NEW g, NEW h, NEW kind, NEW x,
         g.kind = f.kind, g.stamp = f.stamp, ToSet(g.elems) = ToSet(h)
  PROVE  x \in Way(F \cup {f}, g, <<>>, kind) <=> x \in Way(F, f, h, kind)
<1>1. Stamped(g, g.elems) = Stamped(f, h) /\ Stamped(g, <<>>) = {}
  BY SmallSets DEF Stamped
<1> QED
  BY <1>1, WayMember

\* OnTheWay before and after a step.
LEMMA WayIs ==
  \A kind : /\ OnTheWay(kind) = Way(Complete, frame, held, kind)
            /\ OnTheWay(kind)' = Way(Complete', frame', held', kind)
  BY DEF OnTheWay, Frames, Complete, Way

-----------------------------------------------------------------------------
(* Frames *)

\* The elements that a frame of a kind is made of.
ElemOf(kind) == IF kind = "data" THEN Sample ELSE Event

\* What a frame is.
LEMMA FrameFacts ==
  ASSUME NEW f
  PROVE  f \in Frame <=>
           /\ f = [kind |-> f.kind, stamp |-> f.stamp, used |-> f.used,
                   elems |-> f.elems]
           /\ f.kind \in {"data", "event"} /\ f.stamp \in Times
           /\ f.used \in 0 .. Room /\ f.elems \in Seq(ElemOf(f.kind))
<1>1. CASE f.kind = "data"
  BY <1>1 DEF Frame, ElemOf
<1>2. CASE f.kind # "data"
  BY <1>2 DEF Frame, ElemOf
<1> QED
  BY <1>1, <1>2

\* The stream writer can tell None from a frame.
LEMMA NoneIsNoFrame == None \notin Frame
<1>1. None.kind = "none"
  BY DEF None
<1> QED
  BY <1>1, FrameFacts

\* The size of an element that is alone in a frame.
LEMMA SizeFacts ==
  ASSUME NEW kind \in {"data", "event"}, NEW e \in ElemOf(kind)
  PROVE  ElemSize(kind, e) \in 0 .. Room
<1>1. e.channel \in Channels
  BY DEF ElemOf, Sample, Event
<1>2. /\ Size[e.channel] \in Nat /\ IdSize \in Nat /\ TimeSize \in Nat
      /\ Room \in Nat /\ IdSize + 2 * (Size[e.channel] + TimeSize) <= Room
  BY <1>1, PipelineAssumption
<1> DEFINE n == Size[e.channel]
<1>3. n \in Nat /\ IdSize + 2 * (n + TimeSize) <= Room
  BY <1>2
<1> HIDE DEF n
<1>4. IdSize + n \in 0 .. Room /\ IdSize + 2 * (n + TimeSize) \in 0 .. Room
  BY <1>2, <1>3
<1> QED
  BY <1>4 DEF ElemSize, DataSize, EventSize, n

\* A frame that an element fits into is a frame with it.
LEMMA AddedFrame ==
  ASSUME NEW f \in Frame, NEW e \in ElemOf(f.kind), Fits(f, e)
  PROVE  /\ Added(f, e) \in Frame
         /\ Added(f, e).kind = f.kind /\ Added(f, e).stamp = f.stamp
         /\ Added(f, e).elems = Append(f.elems, e)
<1>1. /\ f.kind \in {"data", "event"} /\ f.stamp \in Times
      /\ f.used \in 0 .. Room /\ f.elems \in Seq(ElemOf(f.kind))
      /\ f = [kind |-> f.kind, stamp |-> f.stamp, used |-> f.used,
              elems |-> f.elems]
  BY FrameFacts
<1>2. ElemSize(f.kind, e) \in 0 .. Room
  BY <1>1, SizeFacts
<1>3. f.used + ElemSize(f.kind, e) \in 0 .. Room
  BY <1>1, <1>2, PipelineAssumption DEF Fits
<1>4. Append(f.elems, e) \in Seq(ElemOf(f.kind))
  BY <1>1
<1>5. /\ Added(f, e).kind = f.kind /\ Added(f, e).stamp = f.stamp
      /\ Added(f, e).used = f.used + ElemSize(f.kind, e)
      /\ Added(f, e).elems = Append(f.elems, e)
  BY DEF Added, Frame
<1>6. Added(f, e) \in Frame
  <2>1. CASE f.kind = "data"
    <3>1. f \in [kind : {"data"}, stamp : Times, used : 0 .. Room,
                 elems : Seq(Sample)]
      BY <2>1 DEF Frame
    <3>2. Append(f.elems, e) \in Seq(Sample)
      BY <1>4, <2>1 DEF ElemOf
    <3> QED
      BY <1>3, <3>1, <3>2 DEF Added, Frame
  <2>2. CASE f.kind # "data"
    <3>1. f \in [kind : {"event"}, stamp : Times, used : 0 .. Room,
                 elems : Seq(Event)]
      BY <2>2 DEF Frame
    <3>2. Append(f.elems, e) \in Seq(Event)
      BY <1>4, <2>2 DEF ElemOf
    <3> QED
      BY <1>3, <3>1, <3>2 DEF Added, Frame
  <2> QED
    BY <2>1, <2>2
<1> QED
  BY <1>5, <1>6

\* A frame to begin with: whatever is the first element, it fits.
LEMMA FreshFrame ==
  ASSUME NEW kind \in {"data", "event"}, NEW t \in Times
  PROVE  /\ NewFrame(kind, t) \in Frame
         /\ NewFrame(kind, t).kind = kind /\ NewFrame(kind, t).stamp = t
         /\ NewFrame(kind, t).elems = <<>>
         /\ \A e \in ElemOf(kind) : Fits(NewFrame(kind, t), e)
<1> DEFINE f == NewFrame(kind, t)
<1>1. f = [kind |-> kind, stamp |-> t, used |-> 0, elems |-> <<>>]
  BY DEF NewFrame
<1>2. f.kind = kind /\ f.stamp = t /\ f.used = 0 /\ f.elems = <<>>
  BY <1>1
<1>3. 0 \in 0 .. Room
  BY PipelineAssumption
<1>4. f \in Frame
  <2>1. <<>> \in Seq(Sample) /\ <<>> \in Seq(Event)
    OBVIOUS
  <2> QED
    BY <1>1, <1>3, <2>1 DEF Frame
<1> HIDE DEF f
<1>5. ASSUME NEW e \in ElemOf(kind) PROVE Fits(f, e)
  BY <1>2, SizeFacts, PipelineAssumption DEF Fits
<1> QED
  BY <1>2, <1>4, <1>5 DEF f

\* Pack puts an element on its way, in the frame or beside it.
LEMMA PackFacts ==
  ASSUME frame \in Frame, held = <<>>, NEW e \in ElemOf(frame.kind), Pack(e),
         UNCHANGED <<delivered, hand, queue>>
  PROVE  /\ frame' \in Frame /\ frame'.kind = frame.kind
         /\ frame'.stamp = frame.stamp
         /\ held' \in Seq(ElemOf(frame.kind)) /\ Len(held') <= 1
         /\ (dpc' = dpc /\ held' = <<>>) \/ dpc' = "put"
         /\ \A kind, x : x \in OnTheWay(kind)' <=>
              \/ x \in OnTheWay(kind)
              \/ frame.kind = kind /\ x = [elem |-> e, at |-> frame.stamp]
<1>1. Complete' = Complete
  BY DEF Complete
<1>2. frame.elems \in Seq(ElemOf(frame.kind))
  BY FrameFacts
<1>3. CASE Fits(frame, e)
  <2>1. frame' = Added(frame, e) /\ dpc' = dpc /\ held' = <<>>
    BY <1>3 DEF Pack
  <2>2. /\ frame' \in Frame /\ frame'.kind = frame.kind
        /\ frame'.stamp = frame.stamp
    BY <1>3, <2>1, AddedFrame
  <2>3. \A kind, x : x \in OnTheWay(kind)' <=>
          \/ x \in OnTheWay(kind)
          \/ frame.kind = kind /\ x = [elem |-> e, at |-> frame.stamp]
    BY <1>1, <1>2, <2>1, WayIs, WayAdds
  <2>4. held' \in Seq(ElemOf(frame.kind)) /\ Len(held') <= 1
    BY <2>1
  <2> QED
    BY <2>1, <2>2, <2>3, <2>4
<1>4. CASE ~Fits(frame, e)
  <2>1. held' = <<e>> /\ dpc' = "put" /\ frame' = frame
    BY <1>4 DEF Pack
  <2>2. \A kind, x : x \in OnTheWay(kind)' <=>
          \/ x \in OnTheWay(kind)
          \/ frame.kind = kind /\ x = [elem |-> e, at |-> frame.stamp]
    BY <1>1, <2>1, WayIs, WayHolds
  <2>3. held' \in Seq(ElemOf(frame.kind)) /\ Len(held') <= 1
    BY <2>1
  <2> QED
    BY <2>1, <2>2, <2>3
<1> QED
  BY <1>3, <1>4
-----------------------------------------------------------------------------
(* Those who write channels *)

\* A step that leaves the frames alone.
LEMMA WaySame ==
  ASSUME UNCHANGED <<delivered, hand, queue, frame, held>>
  PROVE  \A kind : OnTheWay(kind)' = OnTheWay(kind)
  BY DEF OnTheWay, Frames

\* What is known stays known, as long as no event is lost without being
\* dropped.
LEMMA KnownKept ==
  ASSUME dropped \subseteq dropped',
         \A e \in ToSet(events) \cup ToSet(pending) :
           \/ e \in ToSet(events') \cup ToSet(pending')
           \/ \E y \in OnTheWay("event")' : y.elem = e,
         OnTheWay("event") \subseteq OnTheWay("event")',
         NEW c, NEW v, Known(c, v)
  PROVE  Known(c, v)'
  BY DEF Known

\* And what is explained stays explained.
LEMMA ExplainedKept ==
  ASSUME dropped \subseteq dropped',
         OnTheWay("event") \subseteq OnTheWay("event")',
         NEW x, Explained(x)
  PROVE  Explained(x)'
  BY DEF Explained

\* An event is queued, or its channel is remembered.
LEMMA EnqueueFacts ==
  ASSUME TypeOK, NEW e \in Event, Enqueue(e)
  PROVE  /\ events' \in Seq(Event) /\ Len(events') <= EventMax
         /\ dropped \subseteq dropped' /\ dropped' \subseteq Channels
         /\ ToSet(events) \subseteq ToSet(events')
         /\ ToSet(events') \subseteq ToSet(events) \cup {e}
         /\ e \in ToSet(events') \/ e.channel \in dropped'
<1>1. events \in Seq(Event) /\ dropped \subseteq Channels
      /\ Len(events) <= EventMax /\ e.channel \in Channels
      /\ EventMax \in Nat
  BY PipelineAssumption DEF TypeOK, Event
<1>2. CASE Len(events) < EventMax
  <2>1. events' = Append(events, e) /\ dropped' = dropped
    BY <1>2 DEF Enqueue
  <2>2. events' \in Seq(Event) /\ ToSet(events') = ToSet(events) \cup {e}
    BY <1>1, <2>1, AppendSet
  <2>3. Len(events') <= EventMax
    BY <1>1, <1>2, <2>1
  <2> QED
    BY <1>1, <2>1, <2>2, <2>3
<1>3. CASE ~(Len(events) < EventMax)
  <2>1. events' = events /\ dropped' = dropped \cup {e.channel}
    BY <1>3 DEF Enqueue
  <2> QED
    BY <1>1, <2>1
<1> QED
  BY <1>2, <1>3

\* Channel.set under the lock: the channel has the value, and an event tells
\* of it.
LEMMA SetFacts ==
  ASSUME IInv, NEW c \in Channels, NEW v \in Values, Set(c, v),
         UNCHANGED <<delivered, hand, queue, frame, held, pending>>
  PROVE  /\ data' \in [Channels -> Values]
         /\ data' = [data EXCEPT ![c] = v]
         /\ events' \in Seq(Event) /\ Len(events') <= EventMax
         /\ dropped \subseteq dropped' /\ dropped' \subseteq Channels
         /\ \A d, w : Known(d, w) => Known(d, w)'
         /\ \A d \in Channels : Known(d, data[d])'
<1>1. /\ data \in [Channels -> Values] /\ events \in Seq(Event)
      /\ Len(events) <= EventMax /\ dropped \subseteq Channels
      /\ data' = [data EXCEPT ![c] = v]
  BY DEF IInv, TypeOK, Set
<1>2. data' \in [Channels -> Values] /\ data'[c] = v
      /\ \A d \in Channels \ {c} : data'[d] = data[d]
  BY <1>1
<1>3. /\ events' \in Seq(Event) /\ Len(events') <= EventMax
      /\ dropped \subseteq dropped' /\ dropped' \subseteq Channels
      /\ ToSet(events) \subseteq ToSet(events')
      /\ \/ data[c] = v
         \/ \E e \in ToSet(events') : e.channel = c /\ e.curr = v
         \/ c \in dropped'
  <2>1. CASE data[c] = v
    <3>1. UNCHANGED <<events, dropped>>
      BY <2>1 DEF Set
    <3> QED
      BY <1>1, <2>1, <3>1
  <2>2. CASE data[c] # v
    <3> DEFINE e == Change(c, v)
    <3>1. e \in Event /\ e.channel = c /\ e.curr = v
      BY <1>1 DEF Change, Event
    <3>2. Enqueue(e)
      BY <2>2 DEF Set
    <3> HIDE DEF e
    <3> QED
      BY <3>1, <3>2, EnqueueFacts DEF IInv
  <2> QED
    BY <2>1, <2>2
<1>4. OnTheWay("event") \subseteq OnTheWay("event")'
  BY WaySame
<1>5. ASSUME NEW d, NEW w, Known(d, w) PROVE Known(d, w)'
  BY <1>3, <1>4, <1>5, KnownKept
<1>6. ASSUME NEW d \in Channels, NEW w, w = data'[d] PROVE Known(d, w)'
  <2>1. CASE w = data[d]
    <3>1. Known(d, w)
      BY <1>6, <2>1 DEF IInv, EventsAt
    <3> QED
      BY <1>5, <3>1
  <2>2. CASE w # data[d]
    <3>1. d = c /\ w = v /\ data[c] # v
      BY <1>2, <1>6, <2>2
    <3> QED
      BY <1>3, <3>1 DEF Known
  <2> QED
    BY <2>1, <2>2
<1>7. \A d \in Channels : Known(d, data[d])'
  BY <1>6 DEF Known
<1> QED
  BY <1>1, <1>2, <1>3, <1>5, <1>7

\* Whoever writes a channel leaves the dispatcher's samples and events true if
\* it does not touch the group, or queue an event for anybody but Metric,
\* while the dispatcher has the lock.
LEMMA SetterIInv ==
  ASSUME IInv, TypeOK', GroupAt',
         UNCHANGED <<queue, dispatchVars, writerVars, stopVars, emitted>>,
         lock' = lock \/ (lock # "dispatcher" /\ lock' # "dispatcher"),
         ToSet(order) \subseteq ToSet(order'),
         InDispatch => \A c \in Group : data'[c] = data[c],
         dropped \subseteq dropped',
         \A d, w : Known(d, w) => Known(d, w)',
         \A d \in Channels : Known(d, data[d])',
         \A e \in ToSet(late') : e.channel = Metric,
         InDispatch => \A e \in ToSet(events') :
                         e \in ToSet(events) \/ e.channel = Metric
  PROVE  IInv'
<1>1. /\ InDispatch' = InDispatch
      /\ UNCHANGED <<dpc, now, stamps, todo, pending, frame, held, wpc, hand,
                     delivered>>
  BY DEF dispatchVars, writerVars, InDispatch
<1>2. \A kind : OnTheWay(kind)' = OnTheWay(kind)
  BY <1>1, WaySame
<1>3. DispatchAt' /\ WriterAt'
  BY <1>1 DEF IInv, DispatchAt, WriterAt
<1>4. SamplesAt'
  BY <1>1, <1>2 DEF IInv, SamplesAt, Passed, Due
<1>5. GroupAtomic'
  BY <1>2 DEF IInv, GroupAtomic
<1>6. EventsAt'
  <2>1. \A x \in OnTheWay("data") : Known(x.elem.channel, x.elem.value)
    BY DEF IInv, EventsAt
  <2>2. ASSUME NEW x \in OnTheWay("data"), NEW c, NEW v,
               c = x.elem.channel, v = x.elem.value
        PROVE  Known(c, v)'
    BY <2>1, <2>2
  <2>3. \A x \in OnTheWay("data")' : Known(x.elem.channel, x.elem.value)'
    BY <1>2, <2>2 DEF Known
  <2>4. ~InDispatch => \A x \in OnTheWay("data") : Explained(x)'
    BY <1>2, ExplainedKept DEF IInv, EventsAt
  <2>5. InDispatch /\ frame.kind = "event" =>
          \A e \in ToSet(events') : e.channel = Metric
    BY DEF IInv, EventsAt
  <2> QED
    BY <1>1, <1>2, <2>3, <2>4, <2>5 DEF EventsAt
<1> QED
  BY <1>3, <1>4, <1>5, <1>6 DEF IInv

\* The lock excludes the group, the commands and the dispatcher from each
\* other.
LEMMA LockedIInv ==
  ASSUME IInv,
         \/ GroupEnter \/ GroupLeave \/ SetTime
         \/ (\E c \in Group : GroupSet(c))
         \/ (\E v \in Values : CommandChannel(v))
         \/ (\E c \in Names : AddChannel(c))
  PROVE  IInv'
<1>1. /\ UNCHANGED <<queue, dispatchVars, writerVars, stopVars, emitted, late>>
      /\ lock \in {Nobody, "group"}
      /\ lock' \in {Nobody, "group", "application"}
  BY DEF GroupEnter, GroupLock, GroupLeave, SetTime, GroupSet, Set,
         CommandChannel, AddChannel, channelVars, setterVars
<1>2. ~InDispatch /\ lock # "dispatcher" /\ lock' # "dispatcher"
  BY <1>1 DEF IInv, DispatchAt, Nobody
<1>3. UNCHANGED <<now, stamps, todo, pending, frame, held, dpc, wpc, hand,
                  delivered, telem, spc>>
  BY <1>1 DEF dispatchVars, writerVars, stopVars
<1>4. \A e \in ToSet(late') : e.channel = Metric
  BY <1>1 DEF IInv, EventsAt
<1>5. Group \subseteq Channels /\ Command \in Channels /\ Command \notin Group
      /\ Names \subseteq Channels
  BY PipelineAssumption DEF Channels
<1>6. CASE GroupEnter \/ GroupLeave \/ SetTime \/ \E c \in Names : AddChannel(c)
  <2>1. UNCHANGED <<data, events, dropped>>
    BY <1>6 DEF GroupEnter, GroupLeave, SetTime, AddChannel, channelVars
  <2>2. TypeOK'
    <3>1. order' \in Seq(Channels)
      <4>1. \/ order' = order
            \/ \E c \in Names : order' = Append(order, c)
        BY <1>6 DEF GroupEnter, GroupLeave, SetTime, AddChannel, channelVars
      <4>2. order \in Seq(Channels)
        BY DEF IInv, TypeOK
      <4> QED
        BY <1>5, <4>1, <4>2, AppendSet
    <3>2. time' \in Times
      BY <1>6, PipelineAssumption, SMTT(30)
      DEF IInv, TypeOK, GroupEnter, GroupLeave, SetTime, AddChannel,
          channelVars, Times
    <3>3. gtodo' \subseteq Group
      BY <1>6 DEF IInv, TypeOK, GroupEnter, GroupLeave, SetTime, AddChannel,
                  setterVars
    <3>4. writes' \in [Setters -> 0 .. MaxWrites]
      <4>1. \/ writes' = writes
            \/ /\ writes["locked"] < MaxWrites
               /\ writes' = [writes EXCEPT !["locked"] = writes["locked"] + 1]
        BY <1>6 DEF GroupEnter, GroupLeave, SetTime, AddChannel, setterVars,
                    Written
      <4> QED
        BY <4>1, PipelineAssumption, SMTT(30) DEF IInv, TypeOK, Setters
    <3> QED
      BY <1>1, <1>3, <2>1, <3>1, <3>2, <3>3, <3>4 DEF IInv, TypeOK, Nobody
  <2>3. GroupAt'
    BY <1>6, <2>1 DEF IInv, GroupAt, GroupEnter, GroupLock, GroupLeave,
                      SetTime, AddChannel, channelVars, setterVars, Nobody
  <2>4. ToSet(order) \subseteq ToSet(order')
    <3>1. CASE order' = order
      BY <3>1
    <3>2. ASSUME NEW c \in Names, order' = Append(order, c)
          PROVE  ToSet(order) \subseteq ToSet(order')
      BY <1>5, <3>2, AppendSet DEF IInv, TypeOK
    <3> QED
      BY <1>6, <3>1, <3>2 DEF GroupEnter, GroupLeave, SetTime, AddChannel,
                              channelVars
  <2>5. OnTheWay("event")' = OnTheWay("event")
    BY <1>1, <1>3, WaySame
  <2>6. \A d, w : Known(d, w) => Known(d, w)'
    BY <1>3, <2>1, <2>5, KnownKept
  <2>7. \A d \in Channels : Known(d, data[d])'
    <3>1. \A d \in Channels : Known(d, data[d])
      BY DEF IInv, EventsAt
    <3> QED
      BY <1>3, <2>1, <2>5, <3>1 DEF Known
  <2> QED
    BY <1>1, <1>2, <1>4, <2>1, <2>2, <2>3, <2>4, <2>6, <2>7, SetterIInv
<1>7. ASSUME NEW c \in Channels, NEW v \in Values, Set(c, v),
             gtodo' \subseteq Group,
             writes' \in [Setters -> 0 .. MaxWrites], lock' = lock, GroupAt'
      PROVE  IInv'
  <2>1. /\ data' \in [Channels -> Values]
        /\ events' \in Seq(Event) /\ Len(events') <= EventMax
        /\ dropped \subseteq dropped' /\ dropped' \subseteq Channels
        /\ \A d, w : Known(d, w) => Known(d, w)'
        /\ \A d \in Channels : Known(d, data[d])'
    BY <1>1, <1>3, <1>7, SetFacts
  <2>2. UNCHANGED <<order, time, emitted>>
    BY <1>7 DEF Set
  <2>3. TypeOK'
    BY <1>1, <1>3, <1>7, <2>1, <2>2 DEF IInv, TypeOK
  <2> QED
    BY <1>1, <1>2, <1>4, <1>7, <2>1, <2>2, <2>3, SetterIInv
<1>8. ASSUME NEW c \in Group, GroupSet(c) PROVE IInv'
  <2>1. /\ Set(c, writes["locked"]) /\ gtodo' = gtodo \ {c}
        /\ UNCHANGED <<lock, writes>> /\ lock = "group"
    BY <1>8 DEF GroupSet
  <2>2. /\ data' = [data EXCEPT ![c] = writes["locked"]]
        /\ data \in [Channels -> Values] /\ writes["locked"] \in Values
        /\ gtodo \subseteq Group /\ writes \in [Setters -> 0 .. MaxWrites]
    BY <2>1 DEF Set, IInv, TypeOK, Setters, Values
  <2>3. GroupAt'
    BY <1>5, <1>8, <2>1, <2>2 DEF IInv, GroupAt
  <2> QED
    BY <1>5, <1>7, <1>8, <2>1, <2>2, <2>3
<1>9. ASSUME NEW v \in Values, CommandChannel(v) PROVE IInv'
  <2>1. /\ Set(Command, v) /\ UNCHANGED <<lock, gtodo>> /\ lock = Nobody
        /\ writes["locked"] < MaxWrites
        /\ writes' = [writes EXCEPT !["locked"] = writes["locked"] + 1]
    BY <1>9 DEF CommandChannel, Written
  <2>2. /\ data' = [data EXCEPT ![Command] = v]
        /\ data \in [Channels -> Values]
        /\ gtodo \subseteq Group /\ writes \in [Setters -> 0 .. MaxWrites]
    BY <2>1 DEF Set, IInv, TypeOK
  <2>3. writes' \in [Setters -> 0 .. MaxWrites]
    BY <2>1, <2>2, PipelineAssumption DEF Setters
  <2>4. GroupAt'
    BY <1>5, <2>1, <2>2 DEF IInv, GroupAt, Nobody
  <2> QED
    BY <1>5, <1>7, <1>9, <2>1, <2>2, <2>3, <2>4
<1> QED
  BY <1>6, <1>8, <1>9

\* Without the lock: the value first, its event later.
LEMMA MetricIInv ==
  ASSUME IInv, ChangedCallback \/ \E v \in Values : SetMetric(v)
  PROVE  IInv'
<1>1. /\ UNCHANGED <<queue, dispatchVars, writerVars, stopVars, emitted, lock,
                     order, time, gtodo>>
      /\ UNCHANGED <<now, stamps, todo, pending, frame, held, dpc, wpc, hand,
                     delivered, telem, spc>>
  BY DEF ChangedCallback, SetMetric, dispatchVars, writerVars, stopVars
<1>2. Metric \in Channels /\ Metric \notin Group /\ Group \subseteq Channels
  BY PipelineAssumption DEF Channels
<1>3. OnTheWay("event")' = OnTheWay("event")
  BY <1>1, WaySame
<1>4. ASSUME NEW v \in Values, SetMetric(v) PROVE IInv'
  <2>1. /\ data' = [data EXCEPT ![Metric] = v]
        /\ late' = <<Change(Metric, v)>>
        /\ writes["unlocked"] < MaxWrites
        /\ writes' = [writes EXCEPT !["unlocked"] = writes["unlocked"] + 1]
        /\ UNCHANGED <<events, dropped>>
    BY <1>4 DEF SetMetric, Written
  <2>2. /\ data \in [Channels -> Values]
        /\ writes \in [Setters -> 0 .. MaxWrites]
    BY DEF IInv, TypeOK
  <2>3. /\ data' \in [Channels -> Values]
        /\ \A c \in Channels \ {Metric} : data'[c] = data[c]
    BY <1>2, <2>1, <2>2
  <2>4. writes' \in [Setters -> 0 .. MaxWrites]
        /\ writes'["locked"] = writes["locked"]
    BY <2>1, <2>2, PipelineAssumption DEF Setters
  <2>5. Change(Metric, v) \in Event /\ Change(Metric, v).channel = Metric
    BY <1>2, <2>2 DEF Change, Event
  <2>6. late' \in Seq(Event) /\ Len(late') <= 1
    BY <2>1, <2>5
  <2>7. \A e \in ToSet(late') : e.channel = Metric
    BY <2>1, <2>5, SmallSets
  <2>8. TypeOK'
    BY <1>1, <2>1, <2>3, <2>4, <2>6 DEF IInv, TypeOK
  <2>9. GroupAt'
    BY <1>1, <1>2, <2>3, <2>4 DEF IInv, GroupAt
  <2>10. \A d, w : Known(d, w) => Known(d, w)'
    BY <1>1, <1>3, <2>1, KnownKept
  <2>11. ASSUME NEW d \in Channels, NEW w, w = data'[d] PROVE Known(d, w)'
    <3>1. CASE d = Metric
      BY <3>1 DEF Known
    <3>2. CASE d # Metric
      <4>1. w = data[d] /\ Known(d, w)
        BY <2>3, <2>11, <3>2 DEF IInv, EventsAt
      <4> QED
        BY <2>10, <4>1
    <3> QED
      BY <3>1, <3>2
  <2>12. \A d \in Channels : Known(d, data[d])'
    BY <2>11 DEF Known
  <2> QED
    BY <1>1, <1>2, <2>1, <2>3, <2>7, <2>8, <2>9, <2>10, <2>12, SetterIInv
<1>5. CASE ChangedCallback
  <2>1. /\ late # <<>> /\ Enqueue(late[1]) /\ late' = <<>>
        /\ UNCHANGED <<data, writes>>
    BY <1>5 DEF ChangedCallback
  <2>2. late[1] \in Event /\ late[1] \in ToSet(late)
    BY <2>1 DEF IInv, TypeOK, ToSet
  <2>3. late[1].channel = Metric
    BY <2>2 DEF IInv, EventsAt
  <2> DEFINE m == late[1]
  <2>4. m \in Event /\ m.channel = Metric /\ Enqueue(m)
    BY <2>1, <2>2, <2>3
  <2> HIDE DEF m
  <2>5. /\ events' \in Seq(Event) /\ Len(events') <= EventMax
        /\ dropped \subseteq dropped' /\ dropped' \subseteq Channels
        /\ ToSet(events) \subseteq ToSet(events')
        /\ ToSet(events') \subseteq ToSet(events) \cup {m}
    BY <2>4, EnqueueFacts DEF IInv
  <2>6. ToSet(late') = {} /\ late' \in Seq(Event) /\ Len(late') <= 1
    BY <2>1, SmallSets
  <2>7. TypeOK'
    BY <1>1, <2>1, <2>5, <2>6 DEF IInv, TypeOK
  <2>8. GroupAt'
    BY <1>1, <2>1 DEF IInv, GroupAt
  <2>9. \A d, w : Known(d, w) => Known(d, w)'
    BY <1>1, <1>3, <2>5, KnownKept
  <2>10. ASSUME NEW d \in Channels, NEW w, w = data'[d] PROVE Known(d, w)'
    BY <2>1, <2>9, <2>10 DEF IInv, EventsAt
  <2>11. \A d \in Channels : Known(d, data[d])'
    BY <2>10 DEF Known
  <2> QED
    BY <1>1, <2>1, <2>4, <2>5, <2>6, <2>7, <2>8, <2>9, <2>11, SetterIInv
<1> QED
  BY <1>4, <1>5
-----------------------------------------------------------------------------
(* The stream writer, and stop_all *)

\* Steps that neither write channels nor frame anything.
LEMMA QuietIInv ==
  ASSUME IInv, TypeOK', WriterAt',
         UNCHANGED <<lock, channelVars, dispatchVars, setterVars>>,
         Complete' = Complete
  PROVE  IInv'
<1>1. UNCHANGED <<order, time, data, emitted, events, dropped, dpc, now, stamps,
                  todo, pending, frame, held, gtodo, late, writes>>
  BY DEF channelVars, dispatchVars, setterVars
<1>2. \A kind : OnTheWay(kind)' = OnTheWay(kind)
  BY <1>1, WayIs
<1>3. DispatchAt' /\ GroupAt'
  BY <1>1 DEF IInv, DispatchAt, GroupAt, InDispatch
<1>4. SamplesAt' /\ GroupAtomic'
  BY <1>1, <1>2 DEF IInv, SamplesAt, GroupAtomic, Passed, Due, InDispatch
<1>5. EventsAt'
  BY <1>1, <1>2 DEF IInv, EventsAt, Known, Explained, InDispatch
<1> QED
  BY <1>3, <1>4, <1>5 DEF IInv

\* Frames pass from the queue through the writer's hand, and none is lost.
LEMMA WriterIInv ==
  ASSUME IInv, Writer
  PROVE  IInv'
<1>1. UNCHANGED <<lock, channelVars, dispatchVars, setterVars, stopVars>>
  BY DEF Writer, Get, Handle, MetricFails
<1> DEFINE F == Frame \cup {None}
<1>2. /\ queue \in Seq(F) /\ hand \in Seq(F) /\ delivered \in Seq(Frame)
      /\ Len(queue) <= FrameMax /\ Len(hand) <= 1 /\ FrameMax \in Nat
  BY PipelineAssumption DEF IInv, TypeOK
<1> HIDE DEF F
<1>3. CASE Get
  <2>1. /\ queue # <<>> /\ hand = <<>> /\ wpc' = "handle"
        /\ hand' = <<Head(queue)>> /\ queue' = Tail(queue)
        /\ delivered' = delivered
    BY <1>3 DEF Get, IInv, WriterAt
  <2>2. /\ Head(queue) \in F /\ queue' \in Seq(F)
        /\ Len(queue') = Len(queue) - 1 /\ Len(queue) \in Nat
        /\ ToSet(queue) = {Head(queue)} \cup ToSet(queue')
    BY <1>2, <2>1, HeadTailSet
  <2>3. /\ hand' \in Seq(F) /\ Len(hand') = 1 /\ ToSet(hand') = {Head(queue)}
        /\ ToSet(hand) = {}
    BY <2>1, <2>2, SmallSets
  <2>4. Complete' = Complete
    BY <2>1, <2>2, <2>3 DEF Complete
  <2>5. Len(queue') <= FrameMax
    BY <1>2, <2>2
  <2>6. TypeOK'
    BY <1>1, <2>1, <2>2, <2>3, <2>5
    DEF IInv, TypeOK, F, channelVars, dispatchVars, setterVars, stopVars
  <2>7. WriterAt'
    BY <2>1, <2>3 DEF WriterAt
  <2> QED
    BY <1>1, <2>4, <2>6, <2>7, QuietIInv
<1>4. CASE Handle
  <2>1. hand' = <<>> /\ queue' = queue /\ Len(hand) = 1
    BY <1>4 DEF Handle, IInv, WriterAt
  <2>2. hand[1] \in F /\ DOMAIN hand = {1}
    BY <1>2, <2>1
  <2>3. ToSet(hand) = {hand[1]} /\ ToSet(hand') = {}
    BY <2>1, <2>2, SmallSets DEF ToSet
  <2>4. /\ delivered' \in Seq(Frame) /\ Complete' = Complete
        /\ wpc' \in {"get", "stopped"}
    <3>1. CASE hand[1] = None
      <4>1. delivered' = delivered /\ wpc' = "stopped"
        BY <1>4, <3>1 DEF Handle
      <4> QED
        BY <1>2, <2>1, <2>3, <3>1, <4>1 DEF Complete
    <3>2. CASE hand[1] # None
      <4>1. delivered' = Append(delivered, hand[1]) /\ wpc' = "get"
        BY <1>4, <3>2 DEF Handle
      <4>2. hand[1] \in Frame
        BY <2>2, <3>2 DEF F
      <4>3. /\ delivered' \in Seq(Frame)
            /\ ToSet(delivered') = ToSet(delivered) \cup {hand[1]}
        BY <1>2, <4>1, <4>2, AppendSet
      <4> QED
        BY <2>1, <2>3, <3>2, <4>1, <4>3 DEF Complete
    <3> QED
      BY <3>1, <3>2
  <2>5. TypeOK'
    BY <1>1, <2>1, <2>4
    DEF IInv, TypeOK, channelVars, dispatchVars, setterVars, stopVars
  <2>6. WriterAt'
    BY <2>1, <2>4 DEF WriterAt
  <2> QED
    BY <1>1, <2>4, <2>5, <2>6, QuietIInv
<1>5. CASE MetricFails
  <2>1. UNCHANGED <<queue, hand, delivered>> /\ wpc' = "dead"
    BY <1>5 DEF MetricFails
  <2>2. TypeOK' /\ WriterAt' /\ Complete' = Complete
    BY <1>1, <2>1 DEF IInv, TypeOK, WriterAt, Complete, channelVars,
                      dispatchVars, setterVars, stopVars
  <2> QED
    BY <1>1, <2>2, QuietIInv
<1> QED
  BY <1>3, <1>4, <1>5 DEF Writer

\* stop_all adds nothing but None to the frame queue.
LEMMA StopIInv ==
  ASSUME IInv, StopStream \/ Stopper \/ BeginStop
  PROVE  IInv'
<1>1. UNCHANGED <<lock, channelVars, dispatchVars, setterVars, writerVars>>
  BY DEF StopStream, Stopper, BeginStop, PutNone, Joined, JoinTelemetry
<1>2. telem' \in {"running", "stopping", "idle"}
      /\ spc' \in {"running", "put", "join", "telemetry", "done"}
  BY DEF StopStream, Stopper, BeginStop, PutNone, Joined, JoinTelemetry, IInv,
         TypeOK
<1>3. /\ queue' \in Seq(Frame \cup {None}) /\ Len(queue') <= FrameMax
      /\ ToSet(queue') \ {None} = ToSet(queue) \ {None}
  <2>1. CASE queue' = queue
    BY <2>1 DEF IInv, TypeOK
  <2>2. CASE PutNone
    <3>1. /\ queue' = Append(queue, None) /\ Len(queue) < FrameMax
          /\ queue \in Seq(Frame \cup {None}) /\ FrameMax \in Nat
      BY <2>2, PipelineAssumption DEF PutNone, Inject, IInv, TypeOK
    <3>2. /\ queue' \in Seq(Frame \cup {None})
          /\ ToSet(queue') = ToSet(queue) \cup {None}
      BY <3>1, AppendSet
    <3>3. Len(queue') <= FrameMax
      BY <3>1
    <3> QED
      BY <3>2, <3>3
  <2> QED
    BY <2>1, <2>2 DEF StopStream, Stopper, BeginStop, Joined, JoinTelemetry
<1>4. TypeOK' /\ WriterAt'
  BY <1>1, <1>2, <1>3 DEF IInv, TypeOK, WriterAt, channelVars, dispatchVars,
                          setterVars, writerVars
<1>5. Complete' = Complete
  BY <1>1, <1>3 DEF Complete, writerVars
<1> QED
  BY <1>1, <1>4, <1>5, QuietIInv
-----------------------------------------------------------------------------
(* The dispatcher *)

\* What a step of the dispatcher has to show for itself: it writes no channel,
\* samples what is there, and loses no event.
LEMMA DispatcherIInv ==
  ASSUME IInv, TypeOK', DispatchAt', SamplesAt', GroupAtomic',
         UNCHANGED <<data, dropped, gtodo, late, writes, wpc, hand>>,
         lock # "group", lock' # "group",
         \A x \in OnTheWay("data")' :
           \/ x \in OnTheWay("data")
           \/ \E c \in Channels : x.elem.channel = c /\ x.elem.value = data[c],
         OnTheWay("event") \subseteq OnTheWay("event")',
         \A e \in ToSet(events) \cup ToSet(pending) :
           \/ e \in ToSet(events') \cup ToSet(pending')
           \/ \E y \in OnTheWay("event")' : y.elem = e,
         InDispatch' /\ frame'.kind = "event" =>
           \A e \in ToSet(events') : e.channel = Metric,
         ~InDispatch' => \A x \in OnTheWay("data")' : Explained(x)'
  PROVE  IInv'
<1>1. \A d, w : Known(d, w) => Known(d, w)'
  BY KnownKept
<1>2. ASSUME NEW d \in Channels, NEW w, w = data[d] PROVE Known(d, w)'
  BY <1>1, <1>2 DEF IInv, EventsAt
<1>3. \A d \in Channels : Known(d, data[d])'
  BY <1>2 DEF Known
<1>4. ASSUME NEW x \in OnTheWay("data")', NEW c, NEW v,
             c = x.elem.channel, v = x.elem.value
      PROVE  Known(c, v)'
  <2>1. CASE x \in OnTheWay("data")
    BY <1>1, <1>4, <2>1 DEF IInv, EventsAt
  <2>2. CASE \E d \in Channels : x.elem.channel = d /\ x.elem.value = data[d]
    BY <1>2, <1>4, <2>2
  <2> QED
    BY <2>1, <2>2
<1>5. \A x \in OnTheWay("data")' : Known(x.elem.channel, x.elem.value)'
  BY <1>4 DEF Known
<1>6. EventsAt'
  BY <1>3, <1>5 DEF IInv, EventsAt
<1>7. WriterAt' /\ GroupAt'
  BY DEF IInv, WriterAt, GroupAt
<1> QED
  BY <1>6, <1>7 DEF IInv

\* dispatch_now, and the end of the daemon's loop.
LEMMA DispatchNowIInv ==
  ASSUME IInv, DispatchNow \/ Ends
  PROVE  IInv'
<1>1. /\ dpc \in {"idle", "lock"} /\ dpc' \in {"idle", "lock"} /\ lock = Nobody
      /\ UNCHANGED <<lock, channelVars, queue, stamps, todo, pending, frame,
                     held, setterVars, writerVars, spc>>
      /\ now' \in {now, time} /\ telem' \in {"running", "stopping", "idle"}
  BY DEF DispatchNow, Ends, dispatchVars, stopVars, IInv, TypeOK
<1>2. /\ UNCHANGED <<order, time, data, emitted, events, dropped, gtodo, late,
                     writes, wpc, hand, delivered>>
      /\ ~InDispatch /\ ~InDispatch' /\ lock # "group"
  BY <1>1 DEF channelVars, setterVars, writerVars, InDispatch, Nobody
<1>3. \A kind : OnTheWay(kind)' = OnTheWay(kind)
  BY <1>1, <1>2, WaySame
<1>4. TypeOK'
  BY <1>1, <1>2 DEF IInv, TypeOK
<1>5. DispatchAt'
  BY <1>1, <1>2 DEF IInv, DispatchAt
<1>6. SamplesAt' /\ GroupAtomic'
  BY <1>1, <1>2, <1>3 DEF IInv, SamplesAt, GroupAtomic, Passed
<1>7. \A x \in OnTheWay("data")' : Explained(x)'
  BY <1>2, <1>3 DEF IInv, EventsAt, Explained
<1> QED
  BY <1>1, <1>2, <1>3, <1>4, <1>5, <1>6, <1>7, DispatcherIInv

\* dispatch takes the lock: no channel of the group was sampled at this time
\* if one of them is due.
LEMMA DispatchIInv ==
  ASSUME IInv, Dispatch
  PROVE  IInv'
<1>1. /\ dpc = "lock" /\ dpc' = "emit" /\ lock = Nobody
      /\ lock' = "dispatcher" /\ stamps' = [stamps EXCEPT !["data"] = now]
      /\ frame' = NewFrame("data", now) /\ todo' = order
      /\ UNCHANGED <<order, time, data, emitted, events, dropped, queue, now,
                     pending, held, gtodo, late, writes, wpc, hand, delivered,
                     telem, spc>>
  BY DEF Dispatch, channelVars, setterVars, writerVars, stopVars
<1>2. /\ ~InDispatch /\ InDispatch' /\ lock # "group"
      /\ frame.elems = <<>> /\ held = <<>>
  BY <1>1 DEF InDispatch, IInv, DispatchAt, Nobody
<1>3. /\ frame' \in Frame /\ frame'.kind = "data" /\ frame'.stamp = now
      /\ frame'.elems = <<>>
  BY <1>1, FreshFrame DEF IInv, TypeOK
<1>4. \A kind : OnTheWay(kind)' = OnTheWay(kind)
  <2>1. Complete' = Complete
    BY <1>1 DEF Complete
  <2> QED
    BY <1>1, <1>2, <1>3, <2>1, WayIs, WayKept
<1>5. stamps' \in [{"data", "event"} -> Times] /\ stamps'["data"] = now
  BY <1>1 DEF IInv, TypeOK
<1>6. TypeOK'
  BY <1>1, <1>3, <1>5 DEF IInv, TypeOK
<1>7. DispatchAt'
  <2>1. held' \in Seq(Sample)
    BY <1>1, <1>2
  <2> QED
    BY <1>1, <1>2, <1>3, <1>5, <2>1 DEF DispatchAt
<1>8. SamplesAt' /\ GroupAtomic'
  BY <1>1, <1>2, <1>4 DEF IInv, SamplesAt, GroupAtomic, Passed
<1> QED
  BY <1>1, <1>2, <1>3, <1>4, <1>6, <1>7, <1>8, DispatcherIInv

\* A channel that is not due, and the ends of the two parts of dispatch.
LEMMA AdvanceIInv ==
  ASSUME IInv, NotDue \/ EmitsDone \/ EventsDone
  PROVE  IInv'
<1>1. /\ InDispatch /\ InDispatch' /\ lock # "group"
      /\ UNCHANGED <<lock, order, time, data, emitted, events, dropped, queue,
                     now, stamps, pending, frame, held, gtodo, late, writes,
                     wpc, hand, delivered, telem, spc>>
  BY DEF NotDue, EmitsDone, EventsDone, channelVars, setterVars, writerVars,
         stopVars, InDispatch, IInv, DispatchAt
<1>2. \A kind : OnTheWay(kind)' = OnTheWay(kind)
  BY <1>1, WaySame
<1>3. /\ todo' \in Seq(Channels) /\ ToSet(todo') \subseteq ToSet(todo)
      /\ \A c \in ToSet(todo) : c \in ToSet(todo') \/ ~Due(c)
      /\ todo = <<>> => todo' = <<>>
  <2>1. CASE todo' = todo
    BY <2>1 DEF IInv, TypeOK
  <2>2. CASE NotDue
    <3>1. /\ todo # <<>> /\ todo' = Tail(todo) /\ ~Due(Head(todo))
          /\ todo \in Seq(Channels)
      BY <2>2 DEF NotDue, IInv, TypeOK
    <3>2. todo' \in Seq(Channels) /\ ToSet(todo) = {Head(todo)} \cup ToSet(todo')
      BY <3>1, HeadTailSet
    <3> QED
      BY <3>1, <3>2
  <2> QED
    BY <2>1, <2>2 DEF EmitsDone, EventsDone
<1>4. TypeOK'
  BY <1>1, <1>3 DEF IInv, TypeOK, NotDue, EmitsDone, EventsDone
<1>5. DispatchAt'
  BY <1>1, <1>3 DEF IInv, DispatchAt, NotDue, EmitsDone, EventsDone
<1>6. \A c \in Group : /\ c \in Channels /\ emitted[c] \in Int
                       /\ Rate[c] \in Int /\ now \in Int
  BY PipelineAssumption DEF Channels, IInv, TypeOK, Times
<1>7. \A c \in Group : ~Due(c) => Passed(c, now)
  BY <1>6 DEF Due, Passed
<1>8. SamplesAt'
  <2>1. Group \subseteq ToSet(order')
    BY <1>1 DEF IInv, SamplesAt
  <2>2. ASSUME NEW c \in Group PROVE c \in ToSet(todo') \/ Passed(c, now)
    BY <1>1, <1>3, <1>7 DEF IInv, SamplesAt
  <2>3. ASSUME NEW x \in OnTheWay("data"), x.elem.channel \in Group,
               NEW c \in Group
        PROVE  \/ Passed(c, x.at)
               \/ /\ x.at = now /\ c \in ToSet(todo')
                  /\ Due(c) => x.elem.value = data[c]
    BY <1>3, <1>7, <2>3 DEF IInv, SamplesAt
  <2> QED
    BY <1>1, <1>2, <2>1, <2>2, <2>3 DEF SamplesAt, Passed, Due
<1>9. GroupAtomic'
  BY <1>2 DEF IInv, GroupAtomic
<1>10. frame'.kind = "event" => \A e \in ToSet(events') : e.channel = Metric
  BY <1>1 DEF IInv, EventsAt
<1> QED
  BY <1>1, <1>2, <1>4, <1>5, <1>8, <1>9, <1>10, DispatcherIInv

\* Every element that is on its way has a time.
LEMMA WayStamps ==
  ASSUME TypeOK
  PROVE  \A kind : \A x \in OnTheWay(kind) : x.at \in Int
<1>1. Complete \cup {frame} \subseteq Frame
  BY SetOfSeq, NoneIsNoFrame DEF TypeOK, Complete
<1>2. \A f \in Frame : f.stamp \in Int
  BY PipelineAssumption, FrameFacts DEF Times
<1>3. ASSUME NEW f \in Frame, NEW s, NEW x \in Stamped(f, s) PROVE x.at \in Int
  BY <1>2 DEF Stamped
<1>4. ASSUME NEW kind, NEW x \in OnTheWay(kind) PROVE x.at \in Int
  <2>1. \/ \E g \in Complete \cup {frame} : x \in Stamped(g, g.elems)
        \/ x \in Stamped(frame, held)
    BY WayIs, WayMember
  <2> QED
    BY <1>1, <1>3, <2>1
<1> QED
  BY <1>4

\* Channel.emit of one that is due: the group was not written since another of
\* its channels was sampled at this time.
LEMMA EmitIInv ==
  ASSUME IInv, Emit
  PROVE  IInv'
<1> DEFINE c0 == Head(todo)
           e0 == [channel |-> c0, value |-> data[c0]]
           x0 == [elem |-> e0, at |-> now]
<1>1. /\ dpc = "emit" /\ todo # <<>> /\ Due(c0) /\ todo' = Tail(todo)
      /\ emitted' = [emitted EXCEPT ![c0] = now] /\ Pack(e0)
      /\ UNCHANGED <<lock, order, time, data, events, dropped, queue, now,
                     stamps, pending, gtodo, late, writes, wpc, hand, delivered,
                     telem, spc>>
  BY DEF Emit, setterVars, writerVars, stopVars
<1>2. /\ InDispatch /\ lock = "dispatcher" /\ held = <<>>
      /\ frame \in Frame /\ frame.kind = "data" /\ frame.stamp = now
      /\ stamps["data"] = now
  BY <1>1 DEF IInv, TypeOK, DispatchAt, InDispatch
<1>3. /\ c0 \in Channels /\ todo' \in Seq(Channels)
      /\ ToSet(todo) = {c0} \cup ToSet(todo')
  BY <1>1, HeadTailSet DEF IInv, TypeOK
<1>4. e0 \in ElemOf("data") /\ data[c0] \in Values
  BY <1>3 DEF IInv, TypeOK, ElemOf, Sample
<1>5. /\ e0.channel = c0 /\ e0.value = data[c0]
      /\ x0.elem = e0 /\ x0.at = now
  OBVIOUS
<1> HIDE DEF c0, e0, x0
<1>6. /\ frame' \in Frame /\ frame'.kind = "data" /\ frame'.stamp = now
      /\ held' \in Seq(Sample) /\ Len(held') <= 1
      /\ (dpc' = "emit" /\ held' = <<>>) \/ dpc' = "put"
      /\ \A kind, x : x \in OnTheWay(kind)' <=>
           x \in OnTheWay(kind) \/ ("data" = kind /\ x = x0)
  <2>1. UNCHANGED <<delivered, hand, queue>> /\ ElemOf("data") = Sample
    BY <1>1 DEF ElemOf
  <2> QED
    BY <1>1, <1>2, <1>4, <2>1, PackFacts DEF x0
<1>7. InDispatch'
  BY <1>6 DEF InDispatch
<1>8. /\ now \in Int /\ now \in Times /\ emitted \in [Channels -> Times]
      /\ \A c \in Channels : emitted[c] \in Int /\ Rate[c] \in Int /\ Rate[c] > 0
  <2>1. now \in Times /\ emitted \in [Channels -> Times] /\ Times \subseteq Int
    BY PipelineAssumption DEF IInv, TypeOK, Times
  <2>2. Rate \in [Channels -> Nat \ {0}]
    BY PipelineAssumption
  <2>3. ASSUME NEW c \in Channels PROVE Rate[c] \in Int /\ Rate[c] > 0
    BY <2>2
  <2> QED
    BY <2>1, <2>3
<1>9. /\ emitted' \in [Channels -> Times] /\ emitted'[c0] = now
      /\ \A c \in Channels \ {c0} : emitted'[c] = emitted[c]
  BY <1>1, <1>3, <1>8
<1>10. Group \subseteq Channels
  BY PipelineAssumption DEF Channels
<1>11. TypeOK'
  <2>1. held' \in Seq(Sample \cup Event)
    BY <1>6
  <2> QED
    BY <1>1, <1>3, <1>6, <1>9, <2>1 DEF IInv, TypeOK
<1>12. DispatchAt'
  BY <1>1, <1>2, <1>6, <1>7 DEF IInv, DispatchAt
<1>13. ASSUME NEW c \in Group, NEW t \in Int, Passed(c, t)
       PROVE  emitted'[c] + Rate[c] > t
  <2>1. CASE c = c0
    BY <1>1, <1>3, <1>8, <1>9, <1>13, <2>1 DEF Passed, Due
  <2>2. CASE c # c0
    BY <1>9, <1>10, <1>13, <2>2 DEF Passed
  <2> QED
    BY <2>1, <2>2
<1>14. emitted'[c0] + Rate[c0] > now
  BY <1>3, <1>8, <1>9
<1>15. ~Passed(c0, now)
  BY <1>1, <1>3, <1>8 DEF Passed, Due
<1>16. \A c, d \in Group : data[c] = data[d]
  BY <1>2 DEF IInv, GroupAt
<1>17. \A x \in OnTheWay("data") : x.at \in Int
  BY WayStamps DEF IInv
<1>18. SamplesAt'
  <2>1. Group \subseteq ToSet(order')
    BY <1>1 DEF IInv, SamplesAt
  <2>2. ASSUME NEW c \in Group
        PROVE  c \in ToSet(todo') \/ emitted'[c] + Rate[c] > now
    <3>1. c \in ToSet(todo) \/ Passed(c, now)
      BY <1>2 DEF IInv, SamplesAt
    <3> QED
      BY <1>3, <1>8, <1>13, <1>14, <3>1
  <2>3. ASSUME NEW x \in OnTheWay("data")', x.elem.channel \in Group,
               NEW c \in Group
        PROVE  \/ emitted'[c] + Rate[c] > x.at
               \/ /\ x.at = now /\ c \in ToSet(todo')
                  /\ now >= emitted'[c] + Rate[c] => x.elem.value = data[c]
    <3>1. CASE x = x0
      BY <1>5, <1>16, <2>2, <2>3, <3>1
    <3>2. CASE x \in OnTheWay("data")
      <4>1. \/ Passed(c, x.at)
            \/ /\ x.at = now /\ c \in ToSet(todo)
               /\ Due(c) => x.elem.value = data[c]
        BY <2>3, <3>2 DEF IInv, SamplesAt
      <4>2. CASE Passed(c, x.at)
        BY <1>13, <1>17, <3>2, <4>2
      <4>3. CASE c = c0 /\ x.at = now
        BY <1>14, <4>3
      <4>4. CASE c # c0 /\ ~Passed(c, x.at)
        BY <1>3, <1>9, <1>10, <4>1, <4>4 DEF Due
      <4> QED
        BY <4>1, <4>2, <4>3, <4>4
    <3> QED
      BY <1>6, <3>1, <3>2
  <2> QED
    BY <1>1, <1>7, <2>1, <2>2, <2>3 DEF SamplesAt, Passed, Due
<1>19. ASSUME NEW y \in OnTheWay("data"), c0 \in Group,
              y.elem.channel \in Group, y.at = now
       PROVE  y.elem.value = data[c0]
  BY <1>1, <1>15, <1>19 DEF IInv, SamplesAt
<1>20. GroupAtomic'
  <2>1. ASSUME NEW x \in OnTheWay("data")', NEW y \in OnTheWay("data")',
               x.elem.channel \in Group, y.elem.channel \in Group, x.at = y.at
        PROVE  x.elem.value = y.elem.value
    <3>1. CASE x = x0 /\ y = x0
      BY <3>1
    <3>2. CASE x = x0 /\ y \in OnTheWay("data")
      BY <1>5, <1>19, <2>1, <3>2
    <3>3. CASE x \in OnTheWay("data") /\ y = x0
      BY <1>5, <1>19, <2>1, <3>3
    <3>4. CASE x \in OnTheWay("data") /\ y \in OnTheWay("data")
      BY <2>1, <3>4 DEF IInv, GroupAtomic
    <3> QED
      BY <1>6, <3>1, <3>2, <3>3, <3>4
  <2> QED
    BY <2>1 DEF GroupAtomic
<1>21. \A x \in OnTheWay("data")' :
         \/ x \in OnTheWay("data")
         \/ \E c \in Channels : x.elem.channel = c /\ x.elem.value = data[c]
  BY <1>3, <1>5, <1>6
<1>22. OnTheWay("event") \subseteq OnTheWay("event")'
  BY <1>6
<1>23. lock # "group" /\ lock' # "group" /\ frame'.kind # "event"
  BY <1>1, <1>2, <1>6
<1>24. UNCHANGED <<data, dropped, gtodo, late, writes, wpc, hand, events, pending>>
  BY <1>1
<1> QED
  BY <1>7, <1>11, <1>12, <1>18, <1>20, <1>21, <1>22, <1>23, <1>24,
     DispatcherIInv

\* EventQueue.consume: an event is consumed before it leaves the queue.
LEMMA ConsumeIInv ==
  ASSUME IInv, ConsumeEvent
  PROVE  IInv'
<1>1. /\ dpc = "emit" /\ events # <<>>
      /\ pending' = Append(pending, Head(events)) /\ events' = Tail(events)
      /\ UNCHANGED <<lock, order, time, data, emitted, dropped, queue, dpc, now,
                     stamps, todo, frame, held, gtodo, late, writes, wpc, hand,
                     delivered, telem, spc>>
  BY DEF ConsumeEvent, DataDispatched, setterVars, writerVars, stopVars
<1>2. /\ InDispatch /\ InDispatch' /\ lock # "group" /\ lock' # "group"
      /\ frame.kind = "data"
  BY <1>1 DEF InDispatch, IInv, DispatchAt
<1>3. \A kind : OnTheWay(kind)' = OnTheWay(kind)
  BY <1>1, WaySame
<1>4. /\ Head(events) \in Event /\ events' \in Seq(Event)
      /\ Len(events') = Len(events) - 1 /\ Len(events) \in Nat
      /\ ToSet(events) = {Head(events)} \cup ToSet(events')
  BY <1>1, HeadTailSet DEF IInv, TypeOK
<1>5. /\ pending' \in Seq(Event)
      /\ ToSet(pending') = ToSet(pending) \cup {Head(events)}
  BY <1>1, <1>4, AppendSet DEF IInv, TypeOK
<1>6. Len(events') <= EventMax
  BY <1>4, PipelineAssumption DEF IInv, TypeOK
<1>7. TypeOK'
  BY <1>1, <1>4, <1>5, <1>6 DEF IInv, TypeOK
<1>8. DispatchAt'
  BY <1>1, <1>2 DEF IInv, DispatchAt
<1>9. SamplesAt' /\ GroupAtomic'
  BY <1>1, <1>2, <1>3 DEF IInv, SamplesAt, GroupAtomic, Passed, Due
<1> QED
  BY <1>1, <1>2, <1>3, <1>4, <1>5, <1>7, <1>8, <1>9, DispatcherIInv

\* The events' first frame, when the queue was found empty.
LEMMA EventFrameIInv ==
  ASSUME IInv, NewEventFrame
  PROVE  IInv'
<1>1. /\ dpc = "emit" /\ dpc' = "event" /\ todo = <<>> /\ frame.elems = <<>>
      /\ events = <<>> /\ stamps' = [stamps EXCEPT !["event"] = now]
      /\ frame' = NewFrame("event", now)
      /\ UNCHANGED <<lock, order, time, data, emitted, events, dropped, queue,
                     now, todo, pending, held, gtodo, late, writes, wpc, hand,
                     delivered, telem, spc>>
  BY DEF NewEventFrame, DataDispatched, Drained, channelVars, setterVars,
         writerVars, stopVars
<1>2. /\ InDispatch /\ InDispatch' /\ lock # "group" /\ lock' # "group"
      /\ lock = "dispatcher" /\ held = <<>>
  BY <1>1 DEF InDispatch, IInv, DispatchAt
<1>3. /\ frame' \in Frame /\ frame'.kind = "event" /\ frame'.stamp = now
      /\ frame'.elems = <<>>
  BY <1>1, FreshFrame DEF IInv, TypeOK
<1>4. \A kind : OnTheWay(kind)' = OnTheWay(kind)
  <2>1. Complete' = Complete
    BY <1>1 DEF Complete
  <2> QED
    BY <1>1, <1>2, <1>3, <2>1, WayIs, WayKept
<1>5. stamps' \in [{"data", "event"} -> Times] /\ stamps'["event"] = now
  BY <1>1 DEF IInv, TypeOK
<1>6. TypeOK'
  BY <1>1, <1>3, <1>5 DEF IInv, TypeOK
<1>7. DispatchAt'
  <2>1. held' \in Seq(Event)
    BY <1>1, <1>2
  <2> QED
    BY <1>1, <1>2, <1>3, <1>5, <2>1 DEF DispatchAt
<1>8. SamplesAt' /\ GroupAtomic'
  BY <1>1, <1>2, <1>4 DEF IInv, SamplesAt, GroupAtomic, Passed, Due
<1>9. \A e \in ToSet(events') : e.channel = Metric
  BY <1>1, SmallSets
<1> QED
  BY <1>1, <1>2, <1>4, <1>6, <1>7, <1>8, <1>9, DispatcherIInv

\* build_event_frames, one event.
LEMMA AddEventIInv ==
  ASSUME IInv, AddEvent
  PROVE  IInv'
<1> DEFINE e0 == Head(pending)
           x0 == [elem |-> e0, at |-> now]
<1>1. /\ dpc = "event" /\ pending # <<>> /\ pending' = Tail(pending) /\ Pack(e0)
      /\ UNCHANGED <<lock, order, time, data, emitted, events, dropped, queue,
                     now, stamps, todo, gtodo, late, writes, wpc, hand,
                     delivered, telem, spc>>
  BY DEF AddEvent, channelVars, setterVars, writerVars, stopVars
<1>2. /\ InDispatch /\ lock = "dispatcher" /\ held = <<>> /\ todo = <<>>
      /\ frame \in Frame /\ frame.kind = "event" /\ frame.stamp = now
      /\ stamps["event"] = now
  BY <1>1 DEF IInv, TypeOK, DispatchAt, InDispatch
<1>3. /\ e0 \in Event /\ pending' \in Seq(Event)
      /\ ToSet(pending) = {e0} \cup ToSet(pending')
  BY <1>1, HeadTailSet DEF IInv, TypeOK
<1>4. x0.elem = e0
  OBVIOUS
<1> HIDE DEF e0, x0
<1>5. /\ frame' \in Frame /\ frame'.kind = "event" /\ frame'.stamp = now
      /\ held' \in Seq(Event) /\ Len(held') <= 1
      /\ (dpc' = "event" /\ held' = <<>>) \/ dpc' = "put"
      /\ \A kind, x : x \in OnTheWay(kind)' <=>
           x \in OnTheWay(kind) \/ ("event" = kind /\ x = x0)
  <2>1. UNCHANGED <<delivered, hand, queue>> /\ ElemOf("event") = Event
    BY <1>1 DEF ElemOf
  <2> QED
    BY <1>1, <1>2, <1>3, <2>1, PackFacts DEF x0
<1>6. InDispatch'
  BY <1>5 DEF InDispatch
<1>7. TypeOK'
  <2>1. held' \in Seq(Sample \cup Event)
    BY <1>5
  <2> QED
    BY <1>1, <1>3, <1>5, <2>1 DEF IInv, TypeOK
<1>8. DispatchAt'
  BY <1>1, <1>2, <1>5, <1>6 DEF IInv, DispatchAt
<1>9. /\ OnTheWay("data")' = OnTheWay("data")
      /\ OnTheWay("event") \subseteq OnTheWay("event")'
      /\ x0 \in OnTheWay("event")'
  <2>1. \A x : x \in OnTheWay("data")' <=> x \in OnTheWay("data")
    BY <1>5
  <2>2. \A x : x \in OnTheWay("event")' <=> x \in OnTheWay("event") \/ x = x0
    BY <1>5
  <2> QED
    BY <2>1, <2>2
<1>10. SamplesAt' /\ GroupAtomic'
  BY <1>1, <1>2, <1>6, <1>9 DEF IInv, SamplesAt, GroupAtomic, Passed, Due
<1>11. \A e \in ToSet(events') : e.channel = Metric
  BY <1>1, <1>2 DEF IInv, EventsAt
<1>12. \A e \in ToSet(events) \cup ToSet(pending) :
         \/ e \in ToSet(events') \cup ToSet(pending')
         \/ \E y \in OnTheWay("event")' : y.elem = e
  BY <1>1, <1>3, <1>4, <1>9
<1>13. /\ lock # "group" /\ lock' # "group"
       /\ UNCHANGED <<data, dropped, gtodo, late, writes, wpc, hand>>
  BY <1>1, <1>2
<1> QED
  BY <1>6, <1>7, <1>8, <1>9, <1>10, <1>11, <1>12, <1>13, DispatcherIInv

\* MeteredQueue.put, and the frame that follows with what did not fit.
LEMMA PutIInv ==
  ASSUME IInv, Put
  PROVE  IInv'
<1>1. /\ dpc = "put" /\ Len(queue) < FrameMax
      /\ queue' = Append(queue, frame) /\ frame' = Follow /\ held' = <<>>
      /\ dpc' = IF frame.kind = "data" THEN "emit" ELSE "event"
      /\ UNCHANGED <<lock, order, time, data, emitted, events, dropped, now,
                     stamps, todo, pending, gtodo, late, writes, wpc, hand,
                     delivered, telem, spc>>
  BY DEF Put, channelVars, setterVars, writerVars, stopVars
<1>2. /\ InDispatch /\ InDispatch' /\ lock = "dispatcher" /\ frame \in Frame
      /\ frame.stamp = now /\ stamps[frame.kind] = now /\ now \in Times
  BY <1>1 DEF IInv, TypeOK, DispatchAt, InDispatch
<1>3. /\ frame.kind \in {"data", "event"} /\ held \in Seq(ElemOf(frame.kind))
      /\ Len(held) <= 1
  BY <1>2, FrameFacts DEF IInv, TypeOK, DispatchAt, ElemOf
<1> DEFINE new == NewFrame(frame.kind, now)
<1>4. /\ new \in Frame /\ new.kind = frame.kind /\ new.stamp = now
      /\ new.elems = <<>>
      /\ \A e \in ElemOf(frame.kind) : Fits(new, e)
  BY <1>2, <1>3, FreshFrame
<1> HIDE DEF new
<1>5. /\ frame' \in Frame /\ frame'.kind = frame.kind /\ frame'.stamp = now
      /\ ToSet(frame'.elems) = ToSet(held)
  <2>1. CASE held = <<>>
    <3>1. frame' = new
      BY <1>1, <1>2, <2>1 DEF Follow, new
    <3> QED
      BY <1>4, <2>1, <3>1
  <2>2. CASE held # <<>>
    <3>1. frame' = Added(new, held[1])
      BY <1>1, <1>2, <2>2 DEF Follow, new
    <3>2. held[1] \in ElemOf(frame.kind) /\ DOMAIN held = {1}
      <4>1. Len(held) \in Nat /\ Len(held) # 0 /\ DOMAIN held = 1 .. Len(held)
        BY <1>3, <2>2
      <4>2. Len(held) = 1
        BY <1>3, <4>1
      <4> QED
        BY <1>3, <4>1, <4>2
    <3>3. ToSet(held) = {held[1]}
      BY <3>2 DEF ToSet
    <3>4. /\ frame' \in Frame /\ frame'.kind = frame.kind /\ frame'.stamp = now
          /\ frame'.elems = Append(<<>>, held[1])
      BY <1>4, <3>1, <3>2, AddedFrame
    <3>5. Append(<<>>, held[1]) = <<held[1]>>
      OBVIOUS
    <3> QED
      BY <3>3, <3>4, <3>5, SmallSets
  <2> QED
    BY <2>1, <2>2
<1>6. /\ queue' \in Seq(Frame \cup {None}) /\ Len(queue') <= FrameMax
      /\ ToSet(queue') = ToSet(queue) \cup {frame}
  <2>1. queue \in Seq(Frame \cup {None}) /\ frame \in Frame \cup {None}
    BY <1>2 DEF IInv, TypeOK
  <2>2. Len(queue') <= FrameMax
    BY <1>1, <2>1, PipelineAssumption
  <2> QED
    BY <1>1, <2>1, <2>2, AppendSet
<1>7. \A kind : OnTheWay(kind)' = OnTheWay(kind)
  <2>1. Complete' = Complete \cup {frame}
    BY <1>1, <1>2, <1>6, NoneIsNoFrame DEF Complete
  <2>2. ASSUME NEW kind, NEW x
        PROVE  x \in OnTheWay(kind)' <=> x \in OnTheWay(kind)
    BY <1>1, <1>2, <1>5, <2>1, WayIs, WayPuts
  <2> QED
    BY <2>2
<1>8. TypeOK'
  <2>1. dpc' \in {"emit", "event"} /\ held' \in Seq(Sample \cup Event)
        /\ Len(held') <= 1
    BY <1>1
  <2> QED
    BY <1>1, <1>5, <1>6, <2>1 DEF IInv, TypeOK
<1>9. DispatchAt'
  <2>1. held' \in Seq(Sample) /\ held' \in Seq(Event)
    BY <1>1
  <2> QED
    BY <1>1, <1>2, <1>3, <1>5, <2>1 DEF IInv, DispatchAt
<1>10. SamplesAt' /\ GroupAtomic'
  BY <1>1, <1>2, <1>7 DEF IInv, SamplesAt, GroupAtomic, Passed, Due
<1>11. frame'.kind = "event" => \A e \in ToSet(events') : e.channel = Metric
  BY <1>1, <1>2, <1>5 DEF IInv, EventsAt
<1>12. /\ lock # "group" /\ lock' # "group"
       /\ UNCHANGED <<data, dropped, events, pending, gtodo, late, writes, wpc,
                      hand>>
  BY <1>1, <1>2
<1> QED
  BY <1>2, <1>7, <1>8, <1>9, <1>10, <1>11, <1>12, DispatcherIInv

\* dispatch gives the lock back: no event of a channel that is written under
\* the lock is left in the queue.
LEMMA FinishIInv ==
  ASSUME IInv, Finish
  PROVE  IInv'
<1>1. /\ dpc = "event" /\ dpc' = "idle" /\ pending = <<>> /\ frame.elems = <<>>
      /\ lock' = Nobody /\ now' = 0 /\ frame' = NewFrame("data", 0)
      /\ UNCHANGED <<order, time, data, emitted, events, dropped, queue, stamps,
                     todo, pending, held, gtodo, late, writes, wpc, hand,
                     delivered, telem, spc>>
  BY DEF Finish, Release, channelVars, setterVars, writerVars, stopVars
<1>2. /\ InDispatch /\ ~InDispatch' /\ lock = "dispatcher" /\ held = <<>>
      /\ frame.kind = "event" /\ todo = <<>>
  BY <1>1 DEF IInv, DispatchAt, InDispatch
<1>3. 0 \in Times
  BY PipelineAssumption DEF Times
<1>4. /\ frame' \in Frame /\ frame'.kind = "data" /\ frame'.elems = <<>>
  BY <1>1, <1>3, FreshFrame
<1>5. \A kind : OnTheWay(kind)' = OnTheWay(kind)
  <2>1. Complete' = Complete
    BY <1>1 DEF Complete
  <2> QED
    BY <1>1, <1>2, <1>4, <2>1, WayIs, WayKept
<1>6. TypeOK'
  BY <1>1, <1>3, <1>4 DEF IInv, TypeOK
<1>7. DispatchAt'
  <2>1. held' \in Seq(Sample)
    BY <1>1, <1>2
  <2> QED
    BY <1>1, <1>2, <1>4, <2>1 DEF DispatchAt, InDispatch, Nobody
<1>8. SamplesAt' /\ GroupAtomic'
  <2>1. ToSet(todo) = {}
    BY <1>2, SmallSets
  <2> QED
    BY <1>1, <1>2, <1>5, <2>1 DEF IInv, SamplesAt, GroupAtomic, Passed
<1>9. \A x \in OnTheWay("data") : Explained(x)
  <2>1. ToSet(pending) = {} /\ \A e \in ToSet(events) : e.channel = Metric
    BY <1>1, <1>2, SmallSets DEF IInv, EventsAt
  <2>2. ASSUME NEW x \in OnTheWay("data") PROVE Explained(x)
    <3>1. Known(x.elem.channel, x.elem.value)
      BY DEF IInv, EventsAt
    <3> QED
      BY <2>1, <3>1 DEF Known, Explained
  <2> QED
    BY <2>2
<1>10. \A x \in OnTheWay("data")' : Explained(x)'
  BY <1>1, <1>5, <1>9 DEF Explained
<1>11. /\ lock # "group" /\ lock' # "group"
       /\ UNCHANGED <<data, dropped, events, pending, gtodo, late, writes, wpc,
                      hand>>
  BY <1>1, <1>2 DEF Nobody
<1> QED
  BY <1>2, <1>5, <1>6, <1>7, <1>8, <1>10, <1>11, DispatcherIInv
-----------------------------------------------------------------------------
(* The theorems *)

\* Nothing is on its way at first.
LEMMA InitIInv ==
  ASSUME Init
  PROVE  IInv
<1>1. /\ lock = Nobody /\ time = 1 /\ order = Order /\ now = 0
      /\ data = [c \in Channels |-> 0] /\ emitted = [c \in Channels |-> 0]
      /\ events = <<>> /\ dropped = {} /\ queue = <<>> /\ dpc = "idle"
      /\ stamps = [data |-> 0, event |-> 0] /\ todo = <<>> /\ pending = <<>>
      /\ frame = NewFrame("data", 0) /\ held = <<>> /\ gtodo = {} /\ late = <<>>
      /\ writes = [s \in Setters |-> 0] /\ telem = "running" /\ wpc = "get"
      /\ hand = <<>> /\ delivered = <<>> /\ spc = "running"
  BY DEF Init
<1>2. 0 \in Times /\ 1 \in Times /\ 0 \in 0 .. MaxWrites /\ 0 \in Values
  BY PipelineAssumption DEF Times, Values
<1>3. frame \in Frame /\ frame.kind = "data" /\ frame.elems = <<>>
  BY <1>1, <1>2, FreshFrame
<1>4. ToSet(<<>>) = {} /\ Complete = {}
  BY <1>1, SmallSets DEF Complete
<1>5. \A kind : OnTheWay(kind) = {}
  <2>1. Stamped(frame, <<>>) = {}
    BY <1>4 DEF Stamped
  <2>2. ASSUME NEW kind, NEW x PROVE x \notin Way(Complete, frame, held, kind)
    BY <1>1, <1>3, <1>4, <2>1, WayMember
  <2> QED
    BY <2>2, WayIs
<1>6. TypeOK
  <2>1. /\ <<>> \in Seq(Event) /\ <<>> \in Seq(Frame \cup {None})
        /\ <<>> \in Seq(Channels) /\ <<>> \in Seq(Sample \cup Event)
        /\ <<>> \in Seq(Frame) /\ Len(<<>>) = 0
    OBVIOUS
  <2>2. 0 <= EventMax /\ 0 <= FrameMax /\ Order \in Seq(Channels)
    BY PipelineAssumption
  <2>3. stamps \in [{"data", "event"} -> Times]
    BY <1>1, <1>2
  <2>4. /\ data \in [Channels -> Values] /\ emitted \in [Channels -> Times]
        /\ writes \in [Setters -> 0 .. MaxWrites]
    BY <1>1, <1>2
  <2> QED
    BY <1>1, <1>2, <1>3, <2>1, <2>2, <2>3, <2>4 DEF TypeOK, Nobody
<1>7. DispatchAt
  <2>1. held \in Seq(Sample)
    BY <1>1
  <2> QED
    BY <1>1, <1>3, <2>1 DEF DispatchAt, InDispatch, Nobody
<1>8. WriterAt
  BY <1>1 DEF WriterAt
<1>9. Group \subseteq Channels /\ Group \subseteq ToSet(order)
  BY <1>1, PipelineAssumption DEF Channels, Range, ToSet
<1>10. GroupAt
  BY <1>1, <1>9 DEF GroupAt, Nobody
<1>11. SamplesAt /\ GroupAtomic
  BY <1>1, <1>5, <1>9 DEF SamplesAt, GroupAtomic, InDispatch
<1>12. EventsAt
  BY <1>1, <1>4, <1>5 DEF EventsAt, Known, InDispatch
<1> QED
  BY <1>6, <1>7, <1>8, <1>10, <1>11, <1>12 DEF IInv

\* Every step keeps the invariant.
LEMMA NextIInv ==
  ASSUME IInv, [Next]_vars
  PROVE  IInv'
<1>1. CASE Dispatcher
  BY <1>1, DispatchNowIInv, DispatchIInv, AdvanceIInv, EmitIInv, ConsumeIInv,
     EventFrameIInv, AddEventIInv, PutIInv, FinishIInv DEF Dispatcher
<1>2. CASE Writer
  BY <1>2, WriterIInv
<1>3. CASE \/ GroupEnter \/ GroupWriter \/ SetTime
           \/ \E v \in Values : CommandChannel(v)
           \/ \E c \in Names : AddChannel(c)
  BY <1>3, LockedIInv DEF GroupWriter
<1>4. CASE ChangedCallback \/ \E v \in Values : SetMetric(v)
  BY <1>4, MetricIInv
<1>5. CASE StopStream \/ Stopper \/ BeginStop
  BY <1>5, StopIInv
<1>6. CASE UNCHANGED vars
  <2>1. /\ UNCHANGED <<lock, channelVars, dispatchVars, setterVars>>
        /\ UNCHANGED <<queue, writerVars, stopVars>>
    BY <1>6 DEF vars
  <2>2. TypeOK' /\ WriterAt' /\ Complete' = Complete
    BY <2>1 DEF IInv, TypeOK, WriterAt, Complete, channelVars, dispatchVars,
                setterVars, writerVars, stopVars
  <2> QED
    BY <2>1, <2>2, QuietIInv
<1> QED
  BY <1>1, <1>2, <1>3, <1>4, <1>5, <1>6 DEF Next

\* IInv is an invariant of the pipeline.
LEMMA Invariant == Spec => []IInv
  BY InitIInv, NextIInv, PTL DEF Spec

\* No frame grows beyond the mtu and no queue beyond its size: Framer.add_to_frame,
\* EventQueue, MeteredQueue.
THEOREM TypeCorrect == Spec => []TypeOK
<1>1. IInv => TypeOK
  BY DEF IInv
<1> QED
  BY <1>1, Invariant, PTL

\* ChannelGroup, dispatch: the samples of a group's channels with one timestamp
\* show one write of the group, however the dispatcher is interleaved with
\* those who write, in how many frames the samples are sent, and whatever the
\* rates of the channels are.
THEOREM GroupsAreAtomic == Spec => []GroupAtomic
<1>1. IInv => GroupAtomic
  BY DEF IInv
<1> QED
  BY <1>1, Invariant, PTL

\* dispatch: whenever the lock is free, the event of every value that was
\* sampled is framed, unless the event queue was full when it was written.
THEOREM EventsExplainSamples == Spec => []EventsExplain
<1>1. IInv => EventsExplain
  <2>1. ASSUME IInv, lock = Nobody PROVE ~InDispatch
    BY <2>1 DEF IInv, DispatchAt, Nobody
  <2> QED
    BY <2>1 DEF IInv, EventsAt, EventsExplain
<1> QED
  BY <1>1, Invariant, PTL

-----------------------------------------------------------------------------
(* The elements in the order they are sent *)

\* What the frame queue holds.
Wired == Frame \cup {None}

\* What a frame of a kind shows of its elements.
Item(kind) == IF kind = "event" THEN Event ELSE [channel : Channels, at : Times]
ShownElem(f, e) ==
  IF f.kind = "event" THEN e ELSE [channel |-> e.channel, at |-> f.stamp]

\* Shown goes through the elements one after the other.
LEMMA ShownFacts ==
  ASSUME NEW f, f.kind \in {"data", "event"}, f.stamp \in Times,
         NEW elems \in Seq(ElemOf(f.kind)), NEW e \in ElemOf(f.kind)
  PROVE  /\ Shown(f, elems) \in Seq(Item(f.kind))
         /\ ShownElem(f, e) \in Item(f.kind)
         /\ Shown(f, <<e>>) = <<ShownElem(f, e)>>
         /\ Shown(f, Append(elems, e)) = Shown(f, elems) \o <<ShownElem(f, e)>>
<1>1. CASE f.kind = "event"
  BY <1>1 DEF Shown, ShownElem, Item, ElemOf
<1>2. CASE f.kind = "data"
  <2> DEFINE I == [channel : Channels, at : Times]
             a == Append(elems, e)
             n == Len(elems)
             x == [channel |-> e.channel, at |-> f.stamp]
             s == [i \in 1 .. n |-> [channel |-> elems[i].channel, at |-> f.stamp]]
  <2>1. elems \in Seq(Sample) /\ e \in Sample
    BY <1>2 DEF ElemOf
  <2>2. /\ n \in Nat /\ DOMAIN elems = 1 .. n /\ DOMAIN a = 1 .. n + 1
        /\ a[n + 1] = e
    BY <2>1
  <2>3. ASSUME NEW i \in 1 .. n PROVE a[i] = elems[i] /\ elems[i].channel \in Channels
    <3>1. elems[i] \in Sample
      BY <2>1, <2>2
    <3>2. a[i] = elems[i]
      BY <2>1, <2>2
    <3> QED
      BY <3>1, <3>2 DEF Sample
  <2>4. e.channel \in Channels
    BY <2>1 DEF Sample
  <2>5. x \in I
    BY <2>4
  <2>6. s \in Seq(I) /\ Len(s) = n
    BY <2>2, <2>3
  <2>7. Shown(f, elems) = s
    BY <1>2, <2>2 DEF Shown
  <2>8. Shown(f, a) = [i \in 1 .. n + 1 |-> [channel |-> a[i].channel, at |-> f.stamp]]
    BY <1>2, <2>2 DEF Shown
  <2>9. [i \in 1 .. n + 1 |-> [channel |-> a[i].channel, at |-> f.stamp]]
          = [i \in 1 .. n + 1 |-> IF i = n + 1 THEN x ELSE s[i]]
    BY <2>2, <2>3
  <2> HIDE DEF s, a, x, n
  <2>10. [i \in 1 .. n + 1 |-> IF i = n + 1 THEN x ELSE s[i]] = s \o <<x>>
    BY <2>2, <2>5, <2>6
  <2>11. Shown(f, <<e>>) = <<x>>
    BY <1>2 DEF Shown, x
  <2>12. ShownElem(f, e) = x /\ Item(f.kind) = I
    BY <1>2 DEF ShownElem, Item, x
  <2> QED
    BY <2>5, <2>6, <2>7, <2>8, <2>9, <2>10, <2>11, <2>12 DEF a
<1> QED
  BY <1>1, <1>2

\* Whatever there is to show.
LEMMA ShownType ==
  ASSUME NEW f, f.kind \in {"data", "event"}, f.stamp \in Times,
         NEW elems \in Seq(ElemOf(f.kind))
  PROVE  Shown(f, elems) \in Seq(Item(f.kind))
<1>1. CASE f.kind = "event"
  BY <1>1 DEF Shown, Item, ElemOf
<1>2. CASE f.kind = "data"
  <2>1. elems \in Seq(Sample)
    BY <1>2 DEF ElemOf
  <2>2. ASSUME NEW i \in 1 .. Len(elems) PROVE elems[i].channel \in Channels
    <3>1. elems[i] \in Sample
      BY <2>1
    <3> QED
      BY <3>1 DEF Sample
  <2>3. Len(elems) \in Nat /\ DOMAIN elems = 1 .. Len(elems)
    BY <2>1
  <2>4. [i \in 1 .. Len(elems) |-> [channel |-> elems[i].channel, at |-> f.stamp]]
          \in Seq([channel : Channels, at : Times])
    BY <2>2, <2>3
  <2> QED
    BY <1>2, <2>3, <2>4 DEF Shown, Item
<1> QED
  BY <1>1, <1>2

\* Nothing shows nothing.
LEMMA ShownNothing == \A f : Shown(f, <<>>) = <<>>
  BY DEF Shown

\* What one frame adds to the elements of a kind.
Part(kind, f) == IF f.kind = kind THEN Shown(f, f.elems) ELSE <<>>

\* Whose type is that of the kind.
LEMMA PartType ==
  ASSUME NEW kind \in {"data", "event"}, NEW f \in Wired
  PROVE  Part(kind, f) \in Seq(Item(kind)) /\ Part(kind, None) = <<>>
<1>1. None.kind = "none"
  BY DEF None
<1>2. CASE f \in Frame /\ f.kind = kind
  <2>1. f.kind \in {"data", "event"} /\ f.stamp \in Times
        /\ f.elems \in Seq(ElemOf(f.kind))
    BY <1>2, FrameFacts
  <2>2. Shown(f, f.elems) \in Seq(Item(f.kind))
    BY <2>1, ShownType
  <2> QED
    BY <1>1, <1>2, <2>2 DEF Part
<1>3. CASE f = None \/ f.kind # kind
  BY <1>1, <1>3 DEF Part
<1> QED
  BY <1>2, <1>3 DEF Wired

\* The contents of frames, as a map.
LEMMA ContentsMap ==
  ASSUME NEW kind \in {"data", "event"}
  PROVE  \E F : /\ Maps(F, Wired, Item(kind))
                /\ \A f \in Wired : F[f] = Part(kind, f)
                /\ \A u \in Seq(Wired) : Contents(kind, u) = FlatMap(F, u)
<1> DEFINE F == [f \in Wired |-> Part(kind, f)]
<1>1. Maps(F, Wired, Item(kind))
  BY PartType DEF Maps
<1>2. ASSUME NEW u \in Seq(Wired) PROVE Contents(kind, u) = FlatMap(F, u)
  <2>1. \A i \in DOMAIN u : u[i] \in Wired
    OBVIOUS
  <2>2. [i \in DOMAIN u |-> F[u[i]]] = [i \in DOMAIN u |-> Part(kind, u[i])]
    BY <2>1
  <2> QED
    BY <2>2 DEF Contents, FlatMap, Part
<1>3. \A f \in Wired : F[f] = Part(kind, f)
  OBVIOUS
<1> QED
  BY <1>1, <1>2, <1>3

\* Their type, and the contents of one.
LEMMA ContentsFacts ==
  ASSUME NEW kind \in {"data", "event"}
  PROVE  /\ \A v \in Seq(Wired) : Contents(kind, v) \in Seq(Item(kind))
         /\ \A f \in Wired : Contents(kind, <<f>>) = Part(kind, f)
<1>1. PICK F : /\ Maps(F, Wired, Item(kind))
               /\ \A f \in Wired : F[f] = Part(kind, f)
               /\ \A u \in Seq(Wired) : Contents(kind, u) = FlatMap(F, u)
  BY ContentsMap
<1>2. ASSUME NEW v \in Seq(Wired) PROVE FlatMap(F, v) \in Seq(Item(kind))
  BY <1>1, FlatMapType
<1>3. ASSUME NEW f \in Wired PROVE Contents(kind, <<f>>) = Part(kind, f)
  <2>1. FlatMap(F, <<f>>) = F[f]
    BY <1>1, FlatMapSmall
  <2>2. <<f>> \in Seq(Wired)
    OBVIOUS
  <2> QED
    BY <1>1, <2>1, <2>2
<1> QED
  BY <1>1, <1>2, <1>3

\* The contents of frames, one after the other.
LEMMA ContentsConcat ==
  ASSUME NEW kind \in {"data", "event"}, NEW v \in Seq(Wired), NEW w \in Seq(Wired)
  PROVE  Contents(kind, v \o w) = Contents(kind, v) \o Contents(kind, w)
<1>1. PICK F : /\ Maps(F, Wired, Item(kind))
               /\ \A u \in Seq(Wired) : Contents(kind, u) = FlatMap(F, u)
  BY ContentsMap
<1>2. FlatMap(F, v \o w) = FlatMap(F, v) \o FlatMap(F, w)
  BY <1>1, FlatMapConcat
<1>3. v \o w \in Seq(Wired)
  OBVIOUS
<1>4. /\ Contents(kind, v) = FlatMap(F, v) /\ Contents(kind, w) = FlatMap(F, w)
      /\ Contents(kind, v \o w) = FlatMap(F, v \o w)
  BY <1>1, <1>3
<1> QED
  BY <1>2, <1>4, Zenon

\* ElementsOf, of given frames.
Elements(kind, p, f, h) ==
  Contents(kind, p \o <<f>>) \o (IF f.kind = kind THEN Shown(f, h) ELSE <<>>)
Before == delivered \o hand \o queue

\* Before and after a step.
LEMMA ElementsAre ==
  \A kind : /\ ElementsOf(kind) = Elements(kind, Before, frame, held)
            /\ ElementsOf(kind)' = Elements(kind, Before', frame', held')
  BY DEF ElementsOf, Elements, Wire, Before

\* The frames before, the frame, the element that waits.
LEMMA ElementsSplit ==
  ASSUME NEW kind \in {"data", "event"}, NEW p \in Seq(Wired), NEW f \in Frame,
         NEW h \in Seq(ElemOf(f.kind))
  PROVE  /\ Elements(kind, p, f, h) =
              (Contents(kind, p) \o Part(kind, f))
                \o (IF f.kind = kind THEN Shown(f, h) ELSE <<>>)
         /\ Contents(kind, p) \in Seq(Item(kind))
         /\ Part(kind, f) \in Seq(Item(kind))
         /\ (IF f.kind = kind THEN Shown(f, h) ELSE <<>>) \in Seq(Item(kind))
         /\ Elements(kind, p, f, h) \in Seq(Item(kind))
<1>1. f \in Wired /\ <<f>> \in Seq(Wired)
  BY DEF Wired
<1>2. Contents(kind, p \o <<f>>) = Contents(kind, p) \o Part(kind, f)
  BY <1>1, ContentsFacts, ContentsConcat
<1>3. Contents(kind, p) \in Seq(Item(kind)) /\ Part(kind, f) \in Seq(Item(kind))
  BY <1>1, ContentsFacts, PartType
<1>4. (IF f.kind = kind THEN Shown(f, h) ELSE <<>>) \in Seq(Item(kind))
  <2>1. f.kind \in {"data", "event"} /\ f.stamp \in Times
    BY FrameFacts
  <2>2. Shown(f, h) \in Seq(Item(f.kind)) /\ <<>> \in Seq(Item(kind))
    BY <2>1, ShownType
  <2> QED
    BY <2>2
<1>5. \A a, b, d \in Seq(Item(kind)) : (a \o b) \o d \in Seq(Item(kind))
  OBVIOUS
<1> QED
  BY <1>2, <1>3, <1>4, <1>5 DEF Elements

\* Concatenation of what is shown.
LEMMA ItemSeqs ==
  ASSUME NEW S
  PROVE  /\ \A a, b \in Seq(S) : a \o b \in Seq(S)
         /\ \A a, b, d \in Seq(S) : (a \o b) \o d = a \o (b \o d)
         /\ \A a \in Seq(S) : a \o <<>> = a /\ <<>> \o a = a
         /\ <<>> \in Seq(S)
  BY ConcatAssociative, ConcatEmptySeq

\* Pack: an element more, in the frame or beside it.
LEMMA ElementsPack ==
  ASSUME NEW kind \in {"data", "event"}, NEW p \in Seq(Wired), NEW f \in Frame,
         NEW e \in ElemOf(f.kind)
  PROVE  LET more == IF f.kind = kind THEN <<ShownElem(f, e)>> ELSE <<>> IN
         /\ Elements(kind, p, f, <<e>>) = Elements(kind, p, f, <<>>) \o more
         /\ Fits(f, e) => Elements(kind, p, Added(f, e), <<>>)
                            = Elements(kind, p, f, <<>>) \o more
<1> DEFINE S == Item(kind)
           more == IF f.kind = kind THEN <<ShownElem(f, e)>> ELSE <<>>
           C == Contents(kind, p)
           P == Part(kind, f)
<1>1. /\ f.kind \in {"data", "event"} /\ f.stamp \in Times
      /\ f.elems \in Seq(ElemOf(f.kind)) /\ <<e>> \in Seq(ElemOf(f.kind))
      /\ <<>> \in Seq(ElemOf(f.kind))
  BY FrameFacts
<1>2. /\ Shown(f, <<e>>) = <<ShownElem(f, e)>> /\ ShownElem(f, e) \in Item(f.kind)
      /\ Shown(f, Append(f.elems, e)) = Shown(f, f.elems) \o <<ShownElem(f, e)>>
  BY <1>1, ShownFacts
<1>3. more \in Seq(S) /\ <<>> \in Seq(S)
  BY <1>2
<1>4. Elements(kind, p, f, <<>>) = (C \o P) \o <<>> /\ C \in Seq(S) /\ P \in Seq(S)
  BY <1>1, ElementsSplit, ShownNothing, ZenonT(30)
<1>5. Elements(kind, p, f, <<e>>) = (C \o P) \o more
  <2>1. (IF f.kind = kind THEN Shown(f, <<e>>) ELSE <<>>) = more
    BY <1>2
  <2> QED
    BY <1>1, <2>1, ElementsSplit, ZenonT(30)
<1>6. ASSUME Fits(f, e)
      PROVE  Elements(kind, p, Added(f, e), <<>>) = (C \o (P \o more)) \o <<>>
  <2> DEFINE a == Added(f, e)
  <2>1. /\ a \in Frame /\ a.kind = f.kind /\ a.stamp = f.stamp
        /\ a.elems = Append(f.elems, e)
    BY <1>6, AddedFrame
  <2> HIDE DEF a
  <2>2. Part(kind, a) = P \o more
    <3>1. CASE f.kind = kind
      <4>1. Shown(a, a.elems) = Shown(f, Append(f.elems, e))
        BY <2>1 DEF Shown
      <4> QED
        BY <1>2, <2>1, <3>1, <4>1 DEF Part
    <3>2. CASE f.kind # kind
      BY <2>1, <3>2 DEF Part
    <3> QED
      BY <3>1, <3>2
  <2>3. Elements(kind, p, a, <<>>) = (C \o Part(kind, a)) \o <<>>
    <3>1. <<>> \in Seq(ElemOf(a.kind))
      OBVIOUS
    <3> QED
      BY <2>1, <3>1, ElementsSplit, ShownNothing
  <2> QED
    BY <2>2, <2>3 DEF a
<1> HIDE DEF C, P, S, more
<1>7. (C \o P) \o <<>> = C \o P /\ (C \o (P \o more)) \o <<>> = (C \o P) \o more
  BY <1>3, <1>4, ItemSeqs, SMTT(30)
<1> QED
  BY <1>4, <1>5, <1>6, <1>7, Zenon DEF more

\* Put: the frame joins those before it, and the next one has what waited.
LEMMA ElementsPut ==
  ASSUME NEW kind \in {"data", "event"}, NEW p \in Seq(Wired), NEW f \in Frame,
         NEW h \in Seq(ElemOf(f.kind)), NEW g \in Frame,
         g.kind = f.kind, g.stamp = f.stamp, g.elems = h
  PROVE  Elements(kind, Append(p, f), g, <<>>) = Elements(kind, p, f, h)
<1> DEFINE S == Item(kind)
           R == IF f.kind = kind THEN Shown(f, h) ELSE <<>>
           C == Contents(kind, p)
           P == Part(kind, f)
<1>1. f \in Wired /\ <<f>> \in Seq(Wired)
  BY DEF Wired
<1>2. Append(p, f) = p \o <<f>> /\ p \o <<f>> \in Seq(Wired)
  BY <1>1
<1>3. Elements(kind, p, f, h) = (C \o P) \o R /\ C \in Seq(S) /\ P \in Seq(S)
      /\ R \in Seq(S)
  BY ElementsSplit
<1>4. Contents(kind, p \o <<f>>) = C \o P
  BY <1>1, ContentsFacts, ContentsConcat
<1>5. Part(kind, g) = R
  BY DEF Part, Shown
<1>6. Elements(kind, p \o <<f>>, g, <<>>) = ((C \o P) \o R) \o <<>>
  <2>1. <<>> \in Seq(ElemOf(g.kind))
    OBVIOUS
  <2>2. Elements(kind, p \o <<f>>, g, <<>>) =
          (Contents(kind, p \o <<f>>) \o Part(kind, g))
             \o (IF g.kind = kind THEN Shown(g, <<>>) ELSE <<>>)
    BY <1>2, <2>1, ElementsSplit
  <2> QED
    BY <1>4, <1>5, <2>2, ShownNothing
<1> HIDE DEF C, P, S, R
<1>7. ((C \o P) \o R) \o <<>> = (C \o P) \o R
  BY <1>3, ItemSeqs
<1> QED
  BY <1>2, <1>3, <1>6, <1>7, Zenon

\* A new frame has nothing in it.
LEMMA ElementsFresh ==
  ASSUME NEW kind \in {"data", "event"}, NEW p \in Seq(Wired), NEW f \in Frame,
         f.elems = <<>>
  PROVE  Elements(kind, p, f, <<>>) = Contents(kind, p)
<1>1. <<>> \in Seq(ElemOf(f.kind))
  OBVIOUS
<1>2. Part(kind, f) = <<>>
  BY ShownNothing DEF Part
<1>3. Elements(kind, p, f, <<>>) = (Contents(kind, p) \o <<>>) \o <<>>
      /\ Contents(kind, p) \in Seq(Item(kind))
  BY <1>1, <1>2, ElementsSplit, ShownNothing, ZenonT(30)
<1> QED
  BY <1>3, ItemSeqs

\* None has nothing in it, either.
LEMMA ElementsNone ==
  ASSUME NEW kind \in {"data", "event"}, NEW p \in Seq(Wired), NEW q \in Seq(Wired)
  PROVE  /\ Contents(kind, Append(p, None)) = Contents(kind, p)
         /\ Contents(kind, (p \o <<None>>) \o q) = Contents(kind, p \o q)
<1>1. None \in Wired /\ <<None>> \in Seq(Wired)
  BY DEF Wired
<1>2. Append(p, None) = p \o <<None>> /\ p \o <<None>> \in Seq(Wired)
  BY <1>1
<1>3. Contents(kind, <<None>>) = <<>>
  BY <1>1, ContentsFacts, PartType
<1>4. Contents(kind, p \o <<None>>) = Contents(kind, p) \o <<>>
      /\ Contents(kind, p) \in Seq(Item(kind))
  <2>1. Contents(kind, p \o <<None>>) = Contents(kind, p) \o Contents(kind, <<None>>)
    BY <1>1, ContentsFacts, ContentsConcat
  <2>2. Contents(kind, p) \in Seq(Item(kind))
    BY ContentsFacts
  <2> QED
    BY <1>3, <2>1, <2>2, Zenon
<1>5. Contents(kind, p \o <<None>>) = Contents(kind, p)
  BY <1>4, ItemSeqs
<1>6. Contents(kind, (p \o <<None>>) \o q) =
        Contents(kind, p \o <<None>>) \o Contents(kind, q)
  BY <1>2, ContentsFacts, ContentsConcat
<1>7. Contents(kind, p \o q) = Contents(kind, p) \o Contents(kind, q)
  BY ContentsFacts, ContentsConcat
<1> QED
  BY <1>2, <1>5, <1>6, <1>7

\* Sequences of one element.
LEMMA SingleSeq ==
  ASSUME NEW S, NEW s \in Seq(S)
  PROVE  /\ Len(s) = 1 => s = <<s[1]>> /\ s[1] \in S
         /\ s # <<>> /\ Len(s) <= 1 => Len(s) = 1
         /\ \A e \in S : Append(s, e) = s \o <<e>>
<1>1. ASSUME Len(s) = 1 PROVE s = <<s[1]>> /\ s[1] \in S
  <2>1. s[1] \in S
    BY <1>1
  <2> DEFINE t == <<s[1]>>
  <2>2. t \in Seq(S) /\ Len(t) = 1 /\ t[1] = s[1]
    BY <2>1
  <2> HIDE DEF t
  <2>3. \A i \in 1 .. Len(s) : s[i] = t[i]
    BY <1>1, <2>2
  <2>4. s = t
    BY <1>1, <2>2, <2>3, SeqEqual
  <2> QED
    BY <2>1, <2>4 DEF t
<1>2. ASSUME s # <<>>, Len(s) <= 1 PROVE Len(s) = 1
  <2>1. Len(s) \in Nat /\ Len(s) # 0 /\ Len(s) <= 1
    BY <1>2
  <2>2. \A n \in Nat : n # 0 /\ n <= 1 => n = 1
    OBVIOUS
  <2> QED
    BY <2>1, <2>2, Zenon
<1>3. \A e \in S : Append(s, e) = s \o <<e>>
  OBVIOUS
<1> QED
  BY <1>1, <1>2, <1>3, Zenon

\* What is on its way has its type.
LEMMA Framed ==
  ASSUME IInv
  PROVE  /\ delivered \in Seq(Wired) /\ hand \in Seq(Wired) /\ queue \in Seq(Wired)
         /\ Before \in Seq(Wired)
         /\ frame \in Frame /\ held \in Seq(ElemOf(frame.kind))
<1>1. /\ delivered \in Seq(Frame) /\ hand \in Seq(Wired) /\ queue \in Seq(Wired)
      /\ frame \in Frame
  BY DEF IInv, TypeOK, Wired
<1>2. Frame \subseteq Wired
  BY DEF Wired
<1>3. delivered \in Seq(Wired)
  BY <1>1, <1>2, SeqMonotonic
<1>4. Before \in Seq(Wired)
  BY <1>1, <1>3 DEF Before
<1>5. frame.kind \in {"data", "event"}
  BY <1>1, FrameFacts
<1>6. held \in Seq(ElemOf(frame.kind))
  <2>1. CASE frame.kind = "data"
    BY <2>1 DEF IInv, DispatchAt, ElemOf
  <2>2. CASE frame.kind = "event"
    BY <2>2 DEF IInv, DispatchAt, ElemOf
  <2> QED
    BY <1>5, <2>1, <2>2
<1> QED
  BY <1>1, <1>3, <1>4, <1>6

Kinds == {"data", "event"}

\* Pack: an element more at the end.
LEMMA PackAppends ==
  ASSUME IInv, held = <<>>, NEW e \in ElemOf(frame.kind), Pack(e),
         UNCHANGED <<delivered, hand, queue>>, NEW kind \in Kinds
  PROVE  ElementsOf(kind)' = ElementsOf(kind)
           \o (IF frame.kind = kind THEN <<ShownElem(frame, e)>> ELSE <<>>)
<1>1. Before' = Before /\ Before \in Seq(Wired) /\ frame \in Frame
      /\ kind \in {"data", "event"}
  BY Framed DEF Before, Kinds
<1> DEFINE more == IF frame.kind = kind THEN <<ShownElem(frame, e)>> ELSE <<>>
<1>2. /\ Elements(kind, Before, frame, <<e>>)
           = Elements(kind, Before, frame, <<>>) \o more
      /\ Fits(frame, e) => Elements(kind, Before, Added(frame, e), <<>>)
                             = Elements(kind, Before, frame, <<>>) \o more
  BY <1>1, ElementsPack
<1> HIDE DEF more
<1>3. CASE Fits(frame, e)
  <2>1. frame' = Added(frame, e) /\ held' = <<>>
    BY <1>3 DEF Pack
  <2> QED
    BY <1>1, <1>2, <1>3, <2>1, ElementsAre DEF more
<1>4. CASE ~Fits(frame, e)
  <2>1. frame' = frame /\ held' = <<e>>
    BY <1>4 DEF Pack
  <2> QED
    BY <1>1, <1>2, <2>1, ElementsAre DEF more
<1> QED
  BY <1>3, <1>4

\* A step that begins a frame when there is nothing in the one before.
LEMMA FreshKeeps ==
  ASSUME IInv, IInv', frame.elems = <<>>, frame'.elems = <<>>, held = <<>>,
         UNCHANGED <<delivered, hand, queue, held>>, NEW kind \in Kinds
  PROVE  ElementsOf(kind)' = ElementsOf(kind)
<1>1. Before' = Before /\ Before \in Seq(Wired) /\ frame \in Frame
      /\ kind \in {"data", "event"}
  BY Framed DEF Before, Kinds
<1>2. frame' \in Frame
  BY DEF IInv, TypeOK
<1>3. Elements(kind, Before, frame, <<>>) = Elements(kind, Before, frame', <<>>)
  BY <1>1, <1>2, ElementsFresh
<1> QED
  BY <1>1, <1>3, ElementsAre

\* MeteredQueue.put of a frame.
LEMMA PutKeeps ==
  ASSUME IInv, IInv', Put, NEW kind \in Kinds
  PROVE  ElementsOf(kind)' = ElementsOf(kind)
<1>1. /\ delivered \in Seq(Wired) /\ hand \in Seq(Wired) /\ queue \in Seq(Wired)
      /\ Before \in Seq(Wired) /\ frame \in Frame /\ held \in Seq(ElemOf(frame.kind))
      /\ kind \in {"data", "event"} /\ frame.kind \in {"data", "event"}
      /\ frame \in Wired
  BY Framed, FrameFacts DEF Kinds, Wired
<1>2. /\ queue' = Append(queue, frame) /\ UNCHANGED <<delivered, hand>>
      /\ frame' = Follow /\ held' = <<>> /\ dpc = "put"
  BY DEF Put, writerVars
<1>3. Before' = Append(Before, frame)
  BY <1>1, <1>2 DEF Before
<1>4. frame' \in Frame /\ stamps[frame.kind] = frame.stamp
      /\ frame.stamp \in Times /\ Len(held) <= 1
  BY <1>1, <1>2, FrameFacts DEF IInv, TypeOK, DispatchAt, InDispatch
<1> DEFINE fresh == NewFrame(frame.kind, frame.stamp)
<1>5. /\ fresh \in Frame /\ fresh.kind = frame.kind
      /\ fresh.stamp = frame.stamp /\ fresh.elems = <<>>
      /\ \A e \in ElemOf(frame.kind) : Fits(fresh, e)
  BY <1>1, <1>4, FreshFrame
<1>6. frame' = IF held = <<>> THEN fresh ELSE Added(fresh, held[1])
  BY <1>2, <1>4 DEF Follow
<1> HIDE DEF fresh
<1>7. /\ frame'.kind = frame.kind /\ frame'.stamp = frame.stamp
      /\ frame'.elems = held
  <2>1. CASE held = <<>>
    BY <1>5, <1>6, <2>1
  <2>2. CASE held # <<>>
    <3>1. held[1] \in ElemOf(frame.kind) /\ held = <<held[1]>>
      BY <1>1, <1>4, <2>2, SingleSeq
    <3>2. /\ Added(fresh, held[1]).kind = frame.kind
          /\ Added(fresh, held[1]).stamp = frame.stamp
          /\ Added(fresh, held[1]).elems = Append(<<>>, held[1])
      BY <1>5, <3>1, AddedFrame
    <3>3. Append(<<>>, held[1]) = <<held[1]>>
      OBVIOUS
    <3> QED
      BY <1>6, <2>2, <3>1, <3>2, <3>3, Zenon
  <2> QED
    BY <2>1, <2>2
<1>8. Elements(kind, Append(Before, frame), frame', <<>>)
        = Elements(kind, Before, frame, held)
  BY <1>1, <1>4, <1>7, ElementsPut
<1> QED
  BY <1>2, <1>3, <1>8, ElementsAre, Zenon

\* What ElementsOf is of the frames before.
LEMMA BeforeKeeps ==
  ASSUME IInv, IInv', UNCHANGED <<frame, held>>, NEW kind \in Kinds,
         Contents(kind, Before') = Contents(kind, Before)
  PROVE  ElementsOf(kind)' = ElementsOf(kind)
<1> DEFINE p == Before
           q == Before'
<1>1. /\ p \in Seq(Wired) /\ frame \in Frame /\ held \in Seq(ElemOf(frame.kind))
      /\ kind \in {"data", "event"}
  BY Framed DEF Kinds
<1>2. q \in Seq(Wired)
  <2>1. /\ delivered' \in Seq(Frame) /\ hand' \in Seq(Wired) /\ queue' \in Seq(Wired)
    BY DEF IInv, TypeOK, Wired, Frame, None, Sample, Event, Values, Times
  <2>2. delivered' \in Seq(Wired)
    BY <2>1, SeqMonotonic DEF Wired
  <2> QED
    BY <2>1, <2>2 DEF Before
<1> HIDE DEF p, q
<1>3. Contents(kind, q) = Contents(kind, p)
  BY DEF p, q
<1> DEFINE R == IF frame.kind = kind THEN Shown(frame, held) ELSE <<>>
<1>4. Elements(kind, p, frame, held) = Elements(kind, q, frame, held)
  <2>1. Elements(kind, p, frame, held) = (Contents(kind, p) \o Part(kind, frame)) \o R
    BY <1>1, ElementsSplit
  <2>2. Elements(kind, q, frame, held) = (Contents(kind, q) \o Part(kind, frame)) \o R
    BY <1>1, <1>2, ElementsSplit
  <2> HIDE DEF R
  <2> QED
    BY <1>3, <2>1, <2>2
<1> QED
  BY <1>4, ElementsAre DEF p, q

\* MeteredQueue.get and frame_handle, and the put of None.
LEMMA WriterKeeps ==
  ASSUME IInv, IInv', Get \/ Handle \/ PutNone, NEW kind \in Kinds
  PROVE  ElementsOf(kind)' = ElementsOf(kind)
<1>1. /\ delivered \in Seq(Wired) /\ hand \in Seq(Wired) /\ queue \in Seq(Wired)
      /\ Before \in Seq(Wired) /\ kind \in {"data", "event"}
  BY Framed DEF Kinds
<1>2. UNCHANGED <<frame, held>>
  BY DEF Get, Handle, PutNone, dispatchVars
<1>3. Contents(kind, Before') = Contents(kind, Before)
  <2>1. CASE Get
    <3>1. /\ queue # <<>> /\ hand' = <<Head(queue)>> /\ queue' = Tail(queue)
          /\ delivered' = delivered /\ hand = <<>>
      BY <2>1 DEF Get, IInv, WriterAt
    <3>2. queue = <<Head(queue)>> \o Tail(queue) /\ <<Head(queue)>> \in Seq(Wired)
          /\ Tail(queue) \in Seq(Wired)
      BY <1>1, <3>1
    <3>3. Before' = Before
      <4>1. Before = delivered \o queue
        BY <1>1, <3>1 DEF Before
      <4>2. Before' = (delivered \o <<Head(queue)>>) \o Tail(queue)
        BY <3>1 DEF Before
      <4>3. (delivered \o <<Head(queue)>>) \o Tail(queue)
              = delivered \o (<<Head(queue)>> \o Tail(queue))
        BY <1>1, <3>2, ConcatAssociative, SMTT(30)
      <4> QED
        BY <3>2, <4>1, <4>2, <4>3, Zenon
    <3> QED
      BY <3>3
  <2>2. CASE Handle
    <3>1. /\ hand' = <<>> /\ queue' = queue /\ Len(hand) = 1
          /\ IF hand[1] = None THEN delivered' = delivered
               ELSE delivered' = Append(delivered, hand[1])
      BY <2>2 DEF Handle, IInv, WriterAt
    <3>2. hand = <<hand[1]>> /\ hand[1] \in Wired
      BY <1>1, <3>1, SingleSeq
    <3>3. CASE hand[1] = None
      <4>1. Before' = delivered \o queue
        BY <1>1, <3>1, <3>3 DEF Before
      <4>2. Before = (delivered \o <<None>>) \o queue
        BY <3>2, <3>3, Zenon DEF Before
      <4> QED
        BY <1>1, <4>1, <4>2, ElementsNone, SMTT(30)
    <3>4. CASE hand[1] # None
      <4>1. delivered' = Append(delivered, hand[1])
        BY <3>1, <3>4
      <4>2. Append(delivered, hand[1]) = delivered \o <<hand[1]>>
        BY <1>1, <3>2, SingleSeq
      <4>3. delivered' = delivered \o hand
        BY <3>2, <4>1, <4>2, Zenon
      <4>4. (delivered \o hand) \o <<>> = delivered \o hand
        BY <1>1
      <4>5. Before' = Before
        BY <3>1, <4>3, <4>4, Zenon DEF Before
      <4> QED
        BY <4>5
    <3> QED
      BY <3>3, <3>4
  <2>3. CASE PutNone
    <3>1. queue' = Append(queue, None) /\ UNCHANGED <<delivered, hand>>
      BY <2>3 DEF PutNone, Inject, writerVars
    <3>2. Before' = Append(Before, None)
      BY <1>1, <3>1 DEF Before
    <3> QED
      BY <1>1, <3>2, ElementsNone
  <2> QED
    BY <2>1, <2>2, <2>3
<1> QED
  BY <1>2, <1>3, BeforeKeeps

\* Channels are told apart element by element.
LEMMA OfMap ==
  ASSUME NEW c, NEW S
  PROVE  \E F : /\ Maps(F, S, S)
                /\ \A x \in S : F[x] = IF x.channel = c THEN <<x>> ELSE <<>>
                /\ \A u \in Seq(S) : OfChannel(c, u) = FlatMap(F, u)
<1> DEFINE F == [x \in S |-> IF x.channel = c THEN <<x>> ELSE <<>>]
<1>1. Maps(F, S, S)
  <2>1. \A x \in S : (IF x.channel = c THEN <<x>> ELSE <<>>) \in Seq(S)
    OBVIOUS
  <2> QED
    BY <2>1 DEF Maps
<1>2. ASSUME NEW u \in Seq(S) PROVE OfChannel(c, u) = FlatMap(F, u)
  <2>1. \A i \in DOMAIN u : u[i] \in S
    OBVIOUS
  <2>2. [i \in DOMAIN u |-> F[u[i]]]
          = [i \in DOMAIN u |-> IF u[i].channel = c THEN <<u[i]>> ELSE <<>>]
    BY <2>1
  <2> QED
    BY <2>2 DEF OfChannel, FlatMap
<1>3. \A x \in S : F[x] = IF x.channel = c THEN <<x>> ELSE <<>>
  OBVIOUS
<1> QED
  BY <1>1, <1>2, <1>3

\* One element.
LEMMA OfOne ==
  ASSUME NEW c, NEW S, NEW x \in S
  PROVE  OfChannel(c, <<x>>) = IF x.channel = c THEN <<x>> ELSE <<>>
<1>1. PICK F : /\ Maps(F, S, S)
               /\ F[x] = IF x.channel = c THEN <<x>> ELSE <<>>
               /\ \A u \in Seq(S) : OfChannel(c, u) = FlatMap(F, u)
  BY OfMap
<1>2. FlatMap(F, <<x>>) = F[x]
  BY <1>1, FlatMapSmall
<1>3. <<x>> \in Seq(S)
  OBVIOUS
<1> QED
  BY <1>1, <1>2, <1>3

\* The type stays.
LEMMA OfType ==
  ASSUME NEW c, NEW S, NEW v \in Seq(S)
  PROVE  OfChannel(c, v) \in Seq(S)
<1>1. PICK F : /\ Maps(F, S, S)
               /\ \A u \in Seq(S) : OfChannel(c, u) = FlatMap(F, u)
  BY OfMap
<1>2. FlatMap(F, v) \in Seq(S)
  BY <1>1, FlatMapType
<1> QED
  BY <1>1, <1>2

\* One sequence after another.
LEMMA OfConcat ==
  ASSUME NEW c, NEW S, NEW v \in Seq(S), NEW w \in Seq(S)
  PROVE  OfChannel(c, v \o w) = OfChannel(c, v) \o OfChannel(c, w)
<1>1. PICK F : /\ Maps(F, S, S)
               /\ \A u \in Seq(S) : OfChannel(c, u) = FlatMap(F, u)
  BY OfMap
<1>2. FlatMap(F, v \o w) = FlatMap(F, v) \o FlatMap(F, w)
  BY <1>1, FlatMapConcat
<1>3. v \o w \in Seq(S)
  OBVIOUS
<1>4. /\ OfChannel(c, v) = FlatMap(F, v) /\ OfChannel(c, w) = FlatMap(F, w)
      /\ OfChannel(c, v \o w) = FlatMap(F, v \o w)
  BY <1>1, <1>3
<1> QED
  BY <1>2, <1>4, Zenon

\* No element is of no channel.
LEMMA OfNothing == \A c : OfChannel(c, <<>>) = <<>>
<1>1. \A c : [i \in DOMAIN <<>> |-> IF <<>>[i].channel = c THEN <<<<>>[i]>> ELSE <<>>] = <<>>
  OBVIOUS
<1> QED
  BY <1>1, FlattenEmpty DEF OfChannel

\* The sequences that the properties are about.
LEMMA ElementsType ==
  ASSUME IInv
  PROVE  /\ ElementsOf("data") \in Seq([channel : Channels, at : Times])
         /\ ElementsOf("event") \in Seq(Event)
<1>1. /\ Before \in Seq(Wired) /\ frame \in Frame /\ held \in Seq(ElemOf(frame.kind))
  BY Framed
<1>2. /\ Elements("data", Before, frame, held) \in Seq(Item("data"))
      /\ Elements("event", Before, frame, held) \in Seq(Item("event"))
  BY <1>1, ElementsSplit
<1>3. Item("data") = [channel : Channels, at : Times] /\ Item("event") = Event
  BY DEF Item
<1> QED
  BY <1>2, <1>3, ElementsAre

\* Only Emit and AddEvent put an element on its way, and none loses one.
LEMMA OthersKeep ==
  ASSUME IInv, IInv', [Next]_vars, ~Emit, ~AddEvent, NEW kind \in Kinds
  PROVE  ElementsOf(kind)' = ElementsOf(kind)
<1>1. ASSUME UNCHANGED <<delivered, hand, queue, frame, held>>
      PROVE  ElementsOf(kind)' = ElementsOf(kind)
  <2>1. Before' = Before
    BY <1>1 DEF Before
  <2> QED
    BY <1>1, <2>1, ElementsAre
<1>2. CASE Put
  BY <1>2, PutKeeps
<1>3. CASE Get \/ Handle \/ PutNone
  BY <1>3, WriterKeeps
<1>4. CASE Dispatch \/ NewEventFrame \/ Finish
  <2>1. UNCHANGED <<delivered, hand, queue, held>>
    BY <1>4 DEF Dispatch, NewEventFrame, Finish, writerVars
  <2>2. frame.elems = <<>> /\ held = <<>>
    BY <1>4 DEF Dispatch, NewEventFrame, Finish, DataDispatched, IInv,
                DispatchAt, InDispatch
  <2>3. frame'.elems = <<>>
    BY <1>4 DEF Dispatch, NewEventFrame, Finish, NewFrame
  <2> QED
    BY <2>1, <2>2, <2>3, FreshKeeps
<1>5. CASE DispatchNow \/ NotDue \/ EmitsDone \/ ConsumeEvent \/ EventsDone \/ Ends
  <2>1. UNCHANGED <<delivered, hand, queue, frame, held>>
    BY <1>5 DEF DispatchNow, NotDue, EmitsDone, ConsumeEvent, EventsDone, Ends,
                dispatchVars, writerVars
  <2> QED
    BY <1>1, <2>1
<1>6. CASE MetricFails \/ Joined \/ JoinTelemetry \/ StopStream \/ BeginStop
  <2>1. UNCHANGED <<delivered, hand, queue, frame, held>>
    BY <1>6 DEF MetricFails, Joined, JoinTelemetry, StopStream, BeginStop,
                dispatchVars, writerVars
  <2> QED
    BY <1>1, <2>1
<1>7. CASE \/ GroupEnter \/ GroupLeave \/ SetTime \/ ChangedCallback
           \/ \E c \in Group : GroupSet(c)
           \/ \E v \in Values : CommandChannel(v) \/ SetMetric(v)
           \/ \E c \in Names : AddChannel(c)
  <2>1. UNCHANGED <<delivered, hand, queue, frame, held>>
    BY <1>7 DEF GroupEnter, GroupLeave, SetTime, ChangedCallback, GroupSet,
                CommandChannel, SetMetric, AddChannel, dispatchVars, writerVars
  <2> QED
    BY <1>1, <2>1
<1>8. CASE UNCHANGED vars
  BY <1>1, <1>8 DEF vars, dispatchVars, writerVars
<1> QED
  BY <1>2, <1>3, <1>4, <1>5, <1>6, <1>7, <1>8
  DEF Next, Dispatcher, Writer, Stopper, GroupWriter

\* Emit: a sample of the channel, with the time of the dispatch.
LEMMA EmitAppends ==
  ASSUME IInv, Emit
  PROVE  /\ Head(todo) \in Channels /\ now \in Times
         /\ now >= emitted[Head(todo)] + Rate[Head(todo)]
         /\ emitted' = [emitted EXCEPT ![Head(todo)] = now]
         /\ ElementsOf("data")' =
              ElementsOf("data") \o <<[channel |-> Head(todo), at |-> now]>>
         /\ ElementsOf("event")' = ElementsOf("event")
<1> DEFINE c == Head(todo)
           e == [channel |-> c, value |-> data[c]]
<1>1. /\ dpc = "emit" /\ todo # <<>> /\ Due(c) /\ Pack(e)
      /\ emitted' = [emitted EXCEPT ![c] = now]
      /\ UNCHANGED <<delivered, hand, queue>>
  BY DEF Emit, writerVars
<1>2. frame.kind = "data" /\ held = <<>> /\ frame.stamp = now
  BY <1>1 DEF IInv, DispatchAt, InDispatch
<1>3. c \in Channels /\ data[c] \in Values /\ now \in Times
  <2>1. todo \in Seq(Channels) /\ data \in [Channels -> Values] /\ now \in Times
    BY DEF IInv, TypeOK
  <2> QED
    BY <1>1, <2>1
<1>4. e \in ElemOf(frame.kind)
  BY <1>2, <1>3 DEF ElemOf, Sample
<1>5. ShownElem(frame, e) = [channel |-> c, at |-> now]
  BY <1>2 DEF ShownElem
<1> HIDE DEF e
<1>6. ASSUME NEW kind \in Kinds
      PROVE  ElementsOf(kind)' = ElementsOf(kind)
               \o (IF frame.kind = kind THEN <<ShownElem(frame, e)>> ELSE <<>>)
  BY <1>1, <1>2, <1>4, PackAppends
<1>7. ElementsOf("data")' = ElementsOf("data") \o <<ShownElem(frame, e)>>
      /\ ElementsOf("event")' = ElementsOf("event") \o <<>>
  BY <1>2, <1>6 DEF Kinds
<1>8. ElementsOf("event") \o <<>> = ElementsOf("event")
  BY ElementsType, ConcatEmptySeq
<1> QED
  BY <1>1, <1>3, <1>5, <1>7, <1>8 DEF Due

\* AddEvent: the next event.
LEMMA AddEventAppends ==
  ASSUME IInv, AddEvent
  PROVE  /\ ElementsOf("data")' = ElementsOf("data")
         /\ ElementsOf("event")' = ElementsOf("event") \o <<Head(pending)>>
<1> DEFINE e == Head(pending)
<1>1. /\ dpc = "event" /\ pending # <<>> /\ Pack(e)
      /\ UNCHANGED <<delivered, hand, queue>>
  BY DEF AddEvent, writerVars
<1>2. frame.kind = "event" /\ held = <<>>
  BY <1>1 DEF IInv, DispatchAt
<1>3. e \in ElemOf(frame.kind)
  <2>1. pending \in Seq(Event)
    BY DEF IInv, TypeOK
  <2>2. e \in Event
    BY <1>1, <2>1
  <2> QED
    BY <1>2, <2>2 DEF ElemOf
<1>4. ShownElem(frame, e) = e
  BY <1>2 DEF ShownElem
<1> HIDE DEF e
<1>5. ASSUME NEW kind \in Kinds
      PROVE  ElementsOf(kind)' = ElementsOf(kind)
               \o (IF frame.kind = kind THEN <<ShownElem(frame, e)>> ELSE <<>>)
  BY <1>1, <1>2, <1>3, PackAppends
<1>6. ElementsOf("event")' = ElementsOf("event") \o <<ShownElem(frame, e)>>
      /\ ElementsOf("data")' = ElementsOf("data") \o <<>>
  BY <1>2, <1>5 DEF Kinds
<1>7. ElementsOf("data") \o <<>> = ElementsOf("data")
  BY ElementsType, ConcatEmptySeq
<1> QED
  BY <1>4, <1>6, <1>7 DEF e

-----------------------------------------------------------------------------
(* Samples *)

Stamp == [channel : Channels, at : Times]
LastAt(s) == IF s = <<>> THEN 0 ELSE s[Len(s)].at

\* SamplesConserved, of one channel.
SampledAt(c) ==
  LET s == SamplesOf(c) IN
  /\ \A i \in 2 .. Len(s) : s[i].at >= s[i - 1].at + Rate[c]
  /\ emitted[c] = LastAt(s)

\* One sample more, late enough.
LEMMA SampledMore ==
  ASSUME NEW s \in Seq(Stamp), NEW x \in Stamp, NEW r \in Nat,
         \A i \in 2 .. Len(s) : s[i].at >= s[i - 1].at + r,
         x.at >= LastAt(s) + r
  PROVE  /\ \A i \in 2 .. Len(s \o <<x>>) :
              (s \o <<x>>)[i].at >= (s \o <<x>>)[i - 1].at + r
         /\ LastAt(s \o <<x>>) = x.at
<1> DEFINE t == s \o <<x>>
           n == Len(s)
<1>1. /\ n \in Nat /\ Len(t) = n + 1 /\ t[n + 1] = x /\ t # <<>>
      /\ \A i \in 1 .. n : t[i] = s[i]
  OBVIOUS
<1>2. n # 0 => LastAt(s) = s[n].at
  BY DEF LastAt
<1> HIDE DEF t, n
<1>3. ASSUME NEW i \in 2 .. n + 1 PROVE t[i].at >= t[i - 1].at + r
  <2>1. CASE i = n + 1
    <3>1. n # 0 /\ i - 1 = n /\ n \in 1 .. n
      BY <1>1, <2>1
    <3> QED
      BY <1>1, <1>2, <2>1, <3>1
  <2>2. CASE i # n + 1
    <3>1. i \in 2 .. n /\ i \in 1 .. n /\ i - 1 \in 1 .. n
      BY <1>1, <2>2
    <3>2. s[i].at >= s[i - 1].at + r
      BY <3>1 DEF n
    <3> QED
      BY <1>1, <3>1, <3>2
  <2> QED
    BY <2>1, <2>2
<1>4. LastAt(t) = x.at
  BY <1>1 DEF LastAt
<1> QED
  BY <1>1, <1>3, <1>4 DEF t

\* Every step: Emit samples a channel that is due, nothing else changes a
\* channel's samples or its last_emitted.
LEMMA SamplesNext ==
  ASSUME IInv, IInv', [Next]_vars, \A c \in Channels : SampledAt(c),
         NEW c \in Channels
  PROVE  SampledAt(c)'
<1>1. CASE Emit
  <2> DEFINE d == Head(todo)
             x == [channel |-> d, at |-> now]
             s == SamplesOf(c)
  <2>1. /\ d \in Channels /\ now \in Times
        /\ now >= emitted[d] + Rate[d]
        /\ emitted' = [emitted EXCEPT ![d] = now]
        /\ ElementsOf("data")' = ElementsOf("data") \o <<x>>
    BY <1>1, EmitAppends
  <2>2. ElementsOf("data") \in Seq(Stamp) /\ x \in Stamp /\ <<x>> \in Seq(Stamp)
    BY <2>1, ElementsType DEF Stamp
  <2>3. x.channel = d /\ x.at = now
    OBVIOUS
  <2> HIDE DEF x, d
  <2>4. /\ SamplesOf(c)' = s \o OfChannel(c, <<x>>) /\ s \in Seq(Stamp)
        /\ OfChannel(c, <<x>>) = IF x.channel = c THEN <<x>> ELSE <<>>
    <3>1. SamplesOf(c)' = OfChannel(c, ElementsOf("data") \o <<x>>)
      BY <2>1 DEF SamplesOf, OfChannel
    <3> DEFINE E == ElementsOf("data")
               y == <<x>>
    <3>2. E \in Seq(Stamp) /\ y \in Seq(Stamp)
      BY <2>2
    <3>3. OfChannel(c, <<x>>) = IF x.channel = c THEN <<x>> ELSE <<>>
      BY <2>2, OfOne
    <3> HIDE DEF E, y
    <3>4. OfChannel(c, E \o y) = OfChannel(c, E) \o OfChannel(c, y)
      BY <3>2, OfConcat
    <3>5. OfChannel(c, E) \in Seq(Stamp)
      BY <3>2, OfType
    <3> QED
      BY <3>1, <3>3, <3>4, <3>5 DEF SamplesOf, E, y
  <2>5. emitted \in [Channels -> Times] /\ Rate[c] \in Nat
    BY PipelineAssumption DEF IInv, TypeOK
  <2>6. SampledAt(c)
    OBVIOUS
  <2> HIDE DEF s
  <2>7. CASE c = d
    <3>1. SamplesOf(c)' = s \o <<x>> /\ emitted'[c] = now
      BY <2>1, <2>3, <2>4, <2>5, <2>7
    <3>2. /\ \A i \in 2 .. Len(s) : s[i].at >= s[i - 1].at + Rate[c]
          /\ emitted[c] = LastAt(s)
      BY <2>6 DEF SampledAt, s
    <3>3. x.at >= LastAt(s) + Rate[c]
      BY <2>1, <2>3, <2>7, <3>2
    <3>4. /\ \A i \in 2 .. Len(s \o <<x>>) :
               (s \o <<x>>)[i].at >= (s \o <<x>>)[i - 1].at + Rate[c]
          /\ LastAt(s \o <<x>>) = x.at
      BY <2>2, <2>4, <2>5, <3>2, <3>3, SampledMore
    <3> QED
      BY <2>3, <3>1, <3>4 DEF SampledAt, LastAt
  <2>8. CASE c # d
    <3>1. s \o <<>> = s
      BY <2>4, ConcatEmptySeq
    <3>2. SamplesOf(c)' = SamplesOf(c) /\ emitted'[c] = emitted[c]
      BY <2>1, <2>3, <2>4, <2>5, <2>8, <3>1 DEF s
    <3> QED
      BY <2>6, <3>2 DEF SampledAt, LastAt
  <2> QED
    BY <2>7, <2>8
<1>2. CASE ~Emit
  <2>1. ElementsOf("data")' = ElementsOf("data")
    BY <1>2, AddEventAppends, OthersKeep DEF Kinds
  <2>2. emitted' = emitted
    <3>1. CASE Dispatcher
      BY <1>2, <3>1 DEF Dispatcher, DispatchNow, Dispatch, NotDue, EmitsDone,
        ConsumeEvent, NewEventFrame, AddEvent, EventsDone, Put, Finish, Ends,
        channelVars
    <3>2. CASE Writer \/ StopStream \/ Stopper \/ BeginStop \/ ChangedCallback
      BY <3>2 DEF Writer, Get, Handle, MetricFails, StopStream, Stopper, PutNone,
        Joined, JoinTelemetry, BeginStop, ChangedCallback, channelVars
    <3>3. CASE \/ GroupEnter \/ GroupWriter \/ SetTime
               \/ \E v \in Values : CommandChannel(v) \/ SetMetric(v)
               \/ \E b \in Names : AddChannel(b)
      BY <3>3 DEF GroupEnter, GroupWriter, GroupSet, GroupLeave, SetTime,
        CommandChannel, SetMetric, AddChannel, Set, channelVars
    <3>4. CASE UNCHANGED vars
      BY <3>4 DEF vars, channelVars
    <3> QED
      BY <3>1, <3>2, <3>3, <3>4 DEF Next
  <2>3. SamplesOf(c)' = SamplesOf(c)
    BY <2>1 DEF SamplesOf, OfChannel
  <2>4. SampledAt(c)
    OBVIOUS
  <2> QED
    BY <2>2, <2>3, <2>4 DEF SampledAt, LastAt
<1> QED
  BY <1>1, <1>2

\* Nothing is sampled at first.
LEMMA SamplesInit ==
  ASSUME Init
  PROVE  /\ \A kind \in Kinds : ElementsOf(kind) = <<>>
         /\ \A c \in Channels : SampledAt(c)
<1>1. /\ delivered = <<>> /\ hand = <<>> /\ queue = <<>> /\ held = <<>>
      /\ frame = NewFrame("data", 0) /\ emitted = [c \in Channels |-> 0]
  BY DEF Init
<1>2. Before = <<>>
  BY <1>1 DEF Before
<1>3. frame \in Frame /\ frame.elems = <<>>
  BY <1>1, FreshFrame, PipelineAssumption DEF Times
<1>4. ASSUME NEW kind \in Kinds PROVE ElementsOf(kind) = <<>>
  <2>1. <<>> \in Seq(Wired) /\ kind \in {"data", "event"}
    BY DEF Kinds
  <2>2. Elements(kind, <<>>, frame, <<>>) = Contents(kind, <<>>)
    BY <1>3, <2>1, ElementsFresh
  <2>3. Contents(kind, <<>>) = FlattenSeq(<<>>)
    <3>1. [i \in DOMAIN <<>> |->
            IF <<>>[i].kind = kind THEN Shown(<<>>[i], <<>>[i].elems) ELSE <<>>] = <<>>
      OBVIOUS
    <3> QED
      BY <3>1 DEF Contents
  <2> QED
    BY <1>1, <1>2, <2>2, <2>3, ElementsAre, FlattenEmpty
<1>5. ASSUME NEW c \in Channels PROVE SampledAt(c)
  <2>1. ElementsOf("data") = <<>>
    BY <1>4 DEF Kinds
  <2>2. <<>> \in Seq(Stamp)
    OBVIOUS
  <2>3. SamplesOf(c) = <<>>
    BY <2>1, OfNothing DEF SamplesOf
  <2> QED
    BY <1>1, <2>3 DEF SampledAt, LastAt
<1> QED
  BY <1>4, <1>5

\* Channel.emit, build_data_frames, new_frame, MeteredQueue: the samples of every
\* channel are on their way in the order and with the distance of its rate, the
\* last of them is the one that last_emitted tells of, and no frame exceeds the
\* mtu.
THEOREM SamplesAreConserved == Spec => []SamplesConserved
<1> DEFINE Sampled == \A c \in Channels : SampledAt(c)
<1>1. Init => Sampled
  BY SamplesInit
<1>2. IInv /\ IInv' /\ [Next]_vars /\ Sampled => Sampled'
  <2> SUFFICES ASSUME IInv, IInv', [Next]_vars, Sampled PROVE Sampled'
    OBVIOUS
  <2>1. \A c \in Channels : SampledAt(c)'
    BY SamplesNext
  <2> QED
    BY <2>1
<1>3. IInv /\ Sampled => SamplesConserved
  <2> SUFFICES ASSUME IInv, Sampled PROVE SamplesConserved
    OBVIOUS
  <2>1. frame.used <= Room
    <3>1. frame.used \in 0 .. Room
      BY FrameFacts DEF IInv, TypeOK
    <3> QED
      BY <3>1, PipelineAssumption
  <2> QED
    BY <2>1 DEF SamplesConserved, SampledAt, LastAt
<1> HIDE DEF Sampled
<1> QED
  BY <1>1, <1>2, <1>3, Invariant, PTL DEF Spec

-----------------------------------------------------------------------------
(* Events *)

\* A list of events that can be replayed, and the value it ends with.
Chained(s) ==
  \A i \in 1 .. Len(s) : /\ s[i].prev = IF i = 1 THEN 0 ELSE s[i - 1].curr
                         /\ s[i].curr # s[i].prev
LastCurr(s) == IF s = <<>> THEN 0 ELSE s[Len(s)].curr
ReplaysTo(s, v) == Chained(s) /\ LastCurr(s) = v

\* Which is what EventsReplay says of a channel.
LEMMA ReplayIs ==
  ASSUME NEW s \in Seq(Event), NEW d, ReplaysTo(s, d)
  PROVE  LET v == <<0>> \o [i \in DOMAIN s |-> s[i].curr]
         IN  /\ \A i \in DOMAIN s : s[i].prev = v[i] /\ s[i].curr # v[i]
             /\ v[Len(v)] = d
<1> DEFINE n == Len(s)
           u == [i \in 1 .. n |-> s[i].curr]
           v == <<0>> \o u
<1>1. n \in Nat /\ DOMAIN s = 1 .. n /\ (n = 0 <=> s = <<>>)
  OBVIOUS
<1>2. ASSUME NEW i \in 1 .. n PROVE s[i].curr \in Values /\ s[i].prev \in Values
  <2>1. s[i] \in Event
    BY <1>1
  <2> QED
    BY <2>1 DEF Event
<1>3. u \in Seq(Nat) /\ Len(u) = n /\ \A i \in 1 .. n : u[i] = s[i].curr
  BY <1>1, <1>2, PipelineAssumption DEF Values
<1> HIDE DEF u
<1>4. <<0>> \in Seq(Nat)
  OBVIOUS
<1>5. Len(v) = n + 1
  BY <1>3, <1>4
<1>6. ASSUME NEW i \in 1 .. n + 1
      PROVE  v[i] = IF i = 1 THEN 0 ELSE s[i - 1].curr
  <2>1. v[i] = IF i <= 1 THEN <<0>>[i] ELSE u[i - 1]
    BY <1>1, <1>3, <1>4
  <2>2. i # 1 => i - 1 \in 1 .. n
    BY <1>1
  <2> QED
    BY <1>1, <1>3, <2>1, <2>2
<1> HIDE DEF v
<1>7. ASSUME NEW i \in 1 .. n PROVE s[i].prev = v[i] /\ s[i].curr # v[i]
  <2>1. i \in 1 .. n + 1
    BY <1>1
  <2> QED
    BY <1>6, <2>1 DEF ReplaysTo, Chained, n
<1>8. v[n + 1] = d
  <2>1. CASE n = 0
    BY <1>1, <1>6, <2>1 DEF ReplaysTo, LastCurr
  <2>2. CASE n # 0
    <3>1. n + 1 \in 1 .. n + 1 /\ n + 1 # 1 /\ (n + 1) - 1 = n
      BY <1>1, <2>2
    <3>2. v[n + 1] = s[n].curr
      BY <1>6, <3>1
    <3> QED
      BY <1>1, <2>2, <3>2 DEF ReplaysTo, LastCurr, n
  <2> QED
    BY <2>1, <2>2
<1>9. [i \in DOMAIN s |-> s[i].curr] = u
  BY <1>1 DEF u
<1> QED
  BY <1>1, <1>5, <1>7, <1>8, <1>9 DEF v

\* One event more, that tells of a change.
LEMMA ReplayMore ==
  ASSUME NEW s \in Seq(Event), NEW e \in Event, ReplaysTo(s, e.prev),
         e.curr # e.prev
  PROVE  ReplaysTo(s \o <<e>>, e.curr)
<1> DEFINE t == s \o <<e>>
           n == Len(s)
<1>1. /\ n \in Nat /\ Len(t) = n + 1 /\ t[n + 1] = e /\ t # <<>>
      /\ \A i \in 1 .. n : t[i] = s[i]
  OBVIOUS
<1>2. e.prev = IF n = 0 THEN 0 ELSE s[n].curr
  BY DEF ReplaysTo, LastCurr
<1> HIDE DEF t, n
<1>3. ASSUME NEW i \in 1 .. n + 1
      PROVE  /\ t[i].prev = IF i = 1 THEN 0 ELSE t[i - 1].curr
             /\ t[i].curr # t[i].prev
  <2>1. CASE i = n + 1
    <3>1. i = 1 <=> n = 0
      BY <1>1, <2>1
    <3>2. n # 0 => i - 1 = n /\ n \in 1 .. n
      BY <1>1, <2>1
    <3> QED
      BY <1>1, <1>2, <2>1, <3>1, <3>2
  <2>2. CASE i # n + 1
    <3>1. i \in 1 .. n /\ (i # 1 => i - 1 \in 1 .. n)
      BY <1>1, <2>2
    <3>2. /\ s[i].prev = IF i = 1 THEN 0 ELSE s[i - 1].curr
          /\ s[i].curr # s[i].prev
      BY <3>1 DEF ReplaysTo, Chained, n
    <3> QED
      BY <1>1, <3>1, <3>2
  <2> QED
    BY <2>1, <2>2
<1>4. LastCurr(t) = e.curr
  BY <1>1 DEF LastCurr
<1>5. Chained(t)
  BY <1>1, <1>3 DEF Chained
<1> QED
  BY <1>4, <1>5 DEF ReplaysTo, t

\* The events of a channel: framed, consumed, queued, not yet queued.
Trail == ElementsOf("event") \o pending \o events \o late
LEMMA TrailFacts ==
  ASSUME IInv
  PROVE  /\ ElementsOf("event") \in Seq(Event) /\ pending \in Seq(Event)
         /\ events \in Seq(Event) /\ late \in Seq(Event)
         /\ Trail \in Seq(Event)
         /\ \A c : EventsOf(c) = OfChannel(c, Trail) /\ EventsOf(c) \in Seq(Event)
         /\ \A c : EventsOf(c)' = OfChannel(c, Trail')
<1>1. /\ ElementsOf("event") \in Seq(Event) /\ pending \in Seq(Event)
      /\ events \in Seq(Event) /\ late \in Seq(Event)
  BY ElementsType DEF IInv, TypeOK
<1>2. Trail \in Seq(Event)
  BY <1>1 DEF Trail
<1>3. \A c : EventsOf(c) = OfChannel(c, Trail) /\ EventsOf(c)' = OfChannel(c, Trail')
  BY DEF EventsOf, Trail, OfChannel
<1>4. \A c : EventsOf(c) \in Seq(Event)
  BY <1>2, <1>3, OfType
<1> QED
  BY <1>1, <1>2, <1>3, <1>4

\* Metric is the only channel that is set without the lock.
LEMMA LateFacts ==
  ASSUME IInv
  PROVE  /\ late # <<>> => late = <<late[1]>> /\ late[1] \in Event
                           /\ late[1].channel = Metric
         /\ \A c : c # Metric => OfChannel(c, late) = <<>>
<1>1. late \in Seq(Event) /\ Len(late) <= 1
  BY DEF IInv, TypeOK
<1>2. ASSUME late # <<>>
      PROVE  late = <<late[1]>> /\ late[1] \in Event /\ late[1].channel = Metric
  <2>1. late = <<late[1]>> /\ late[1] \in Event /\ Len(late) = 1
    BY <1>1, <1>2, SingleSeq
  <2>2. late[1] \in ToSet(late)
    BY <2>1 DEF ToSet
  <2> QED
    BY <2>1, <2>2 DEF IInv, EventsAt
<1>3. ASSUME NEW c, c # Metric PROVE OfChannel(c, late) = <<>>
  <2>1. CASE late = <<>>
    BY <2>1, OfNothing
  <2>2. CASE late # <<>>
    <3> DEFINE e == late[1]
    <3>1. late = <<e>> /\ e \in Event /\ e.channel # c
      BY <1>2, <1>3, <2>2
    <3> HIDE DEF e
    <3>2. OfChannel(c, <<e>>) = <<>>
      BY <3>1, OfOne
    <3> QED
      BY <3>1, <3>2
  <2> QED
    BY <2>1, <2>2
<1> QED
  BY <1>2, <1>3

\* What a step may do to the events of a channel, and to its value.
Told(c) ==
  \/ EventsOf(c)' = EventsOf(c) /\ data'[c] = data[c]
  \/ \E e \in Event : /\ EventsOf(c)' = EventsOf(c) \o <<e>>
                      /\ e.prev = data[c] /\ e.curr = data'[c] /\ e.curr # e.prev

\* The first element of a sequence becomes the last one of the sequence before.
LEMMA HeadMoves ==
  ASSUME NEW S, NEW a \in Seq(S), NEW b \in Seq(S), b # <<>>
  PROVE  (a \o <<Head(b)>>) \o Tail(b) = a \o b
<1>1. <<Head(b)>> \in Seq(S) /\ Tail(b) \in Seq(S) /\ b = <<Head(b)>> \o Tail(b)
  OBVIOUS
<1>2. (a \o <<Head(b)>>) \o Tail(b) = a \o (<<Head(b)>> \o Tail(b))
  BY <1>1, ConcatAssociative
<1> QED
  BY <1>1, <1>2, Zenon

\* The dispatcher only passes events on.
LEMMA DispatcherTold ==
  ASSUME IInv, AddEvent \/ ConsumeEvent
  PROVE  Trail' = Trail
<1> DEFINE E == ElementsOf("event")
<1>1. /\ E \in Seq(Event) /\ pending \in Seq(Event) /\ events \in Seq(Event)
  BY TrailFacts
<1> HIDE DEF E
<1>2. CASE AddEvent
  <2>1. /\ ElementsOf("event")' = E \o <<Head(pending)>>
        /\ pending # <<>> /\ pending' = Tail(pending) /\ UNCHANGED <<events, late>>
    BY <1>2, AddEventAppends DEF AddEvent, E, channelVars, setterVars
  <2>2. (E \o <<Head(pending)>>) \o Tail(pending) = E \o pending
    BY <1>1, <2>1, HeadMoves
  <2> QED
    BY <2>1, <2>2, Zenon DEF Trail, E
<1>3. CASE ConsumeEvent
  <2>1. /\ UNCHANGED <<delivered, hand, queue, frame, held, late>>
        /\ events # <<>> /\ pending' = Append(pending, Head(events))
        /\ events' = Tail(events)
    BY <1>3 DEF ConsumeEvent, writerVars, setterVars
  <2>2. ElementsOf("event")' = E
    <3>1. Before' = Before
      BY <2>1 DEF Before
    <3> QED
      BY <2>1, <3>1, ElementsAre DEF E
  <2>3. /\ pending' = pending \o <<Head(events)>> /\ <<Head(events)>> \in Seq(Event)
        /\ E \o pending \in Seq(Event)
    BY <1>1, <2>1
  <2>4. E \o (pending \o <<Head(events)>>) = (E \o pending) \o <<Head(events)>>
    BY <1>1, <2>3, ConcatAssociative
  <2>5. ((E \o pending) \o <<Head(events)>>) \o Tail(events) = (E \o pending) \o events
    BY <1>1, <2>1, <2>3, HeadMoves
  <2> QED
    BY <2>1, <2>2, <2>3, <2>4, <2>5, Zenon DEF Trail, E
<1> QED
  BY <1>2, <1>3

\* Channel.set under the lock: whatever the late event of Metric is.
LEMMA SetTold ==
  ASSUME IInv, NEW d \in Channels, d # Metric, NEW v \in Values, Set(d, v),
         UNCHANGED <<delivered, hand, queue, frame, held, pending, late>>,
         NEW c \in Channels, c \notin dropped'
  PROVE  Told(c)
<1> DEFINE P == ElementsOf("event") \o pending
           O(s) == OfChannel(c, s)
<1>1. /\ P \in Seq(Event) /\ events \in Seq(Event) /\ late \in Seq(Event)
      /\ Trail = (P \o events) \o late
      /\ EventsOf(c) = O(Trail) /\ EventsOf(c)' = O(Trail')
  BY TrailFacts DEF Trail
<1>2. /\ data \in [Channels -> Values] /\ data' = [data EXCEPT ![d] = v]
  BY DEF IInv, TypeOK, Set
<1>3. Trail' = (P \o events') \o late
  <2>1. Before' = Before
    BY DEF Before
  <2>2. ElementsOf("event")' = ElementsOf("event")
    BY <2>1, ElementsAre
  <2> QED
    BY <2>2 DEF Trail
<1> HIDE DEF P
<1>4. CASE data[d] = v
  <2>1. events' = events /\ data' = data
    BY <1>2, <1>4 DEF Set
  <2> QED
    BY <1>1, <1>3, <2>1 DEF Told
<1>5. CASE data[d] # v
  <2> DEFINE e == Change(d, v)
  <2>1. /\ e \in Event /\ e.channel = d /\ e.prev = data[d] /\ e.curr = v
    BY <1>2 DEF Change, Event
  <2>2. Enqueue(e)
    BY <1>5 DEF Set
  <2> HIDE DEF e
  <2>3. CASE ~(Len(events) < EventMax)
    <3>1. events' = events /\ c # d
      BY <2>1, <2>2, <2>3 DEF Enqueue
    <3> QED
      BY <1>1, <1>2, <1>3, <3>1 DEF Told
  <2>4. CASE Len(events) < EventMax
    <3>1. events' = Append(events, e)
      BY <2>2, <2>4 DEF Enqueue
    <3>2. events' = events \o <<e>> /\ <<e>> \in Seq(Event)
          /\ events \o <<e>> \in Seq(Event)
      BY <1>1, <2>1, <3>1
    <3>3. /\ O(Trail) = (O(P) \o O(events)) \o O(late)
          /\ O(P) \in Seq(Event) /\ O(events) \in Seq(Event)
          /\ O(late) \in Seq(Event)
      <4>1. O((P \o events) \o late) = (O(P) \o O(events)) \o O(late)
        <5>1. P \o events \in Seq(Event)
          BY <1>1
        <5>2. O((P \o events) \o late) = O(P \o events) \o O(late)
          BY <1>1, <5>1, OfConcat, ZenonT(30)
        <5>3. O(P \o events) = O(P) \o O(events)
          BY <1>1, OfConcat
        <5> QED
          BY <5>2, <5>3, Zenon
      <4>2. /\ O(P) \in Seq(Event) /\ O(events) \in Seq(Event)
            /\ O(late) \in Seq(Event)
        BY <1>1, OfType
      <4> QED
        BY <1>1, <4>1, <4>2, Zenon
    <3>4. O(Trail') = (O(P) \o O(events \o <<e>>)) \o O(late)
      <4> DEFINE q == events \o <<e>>
      <4>1. q \in Seq(Event) /\ Trail' = (P \o q) \o late
        BY <1>3, <3>2
      <4> HIDE DEF q
      <4>2. O((P \o q) \o late) = (O(P) \o O(q)) \o O(late)
        <5>1. P \o q \in Seq(Event)
          BY <1>1, <4>1
        <5>2. O((P \o q) \o late) = O(P \o q) \o O(late)
          BY <1>1, <5>1, OfConcat, ZenonT(30)
        <5>3. O(P \o q) = O(P) \o O(q)
          BY <1>1, <4>1, OfConcat, SMTT(30)
        <5> QED
          BY <5>2, <5>3, Zenon
      <4> QED
        BY <4>1, <4>2, Zenon DEF q
    <3>5. O(events \o <<e>>) = O(events) \o O(<<e>>)
      BY <1>1, <3>2, OfConcat, ZenonT(30)
    <3>6. O(<<e>>) = IF d = c THEN <<e>> ELSE <<>>
      BY <2>1, OfOne
    <3> DEFINE a == O(P)
               b == O(events)
               f == O(late)
    <3>7. CASE c = d
      <4>1. f = <<>>
        BY <3>7, LateFacts
      <4>2. O(Trail) = (a \o b) \o <<>> /\ O(Trail') = (a \o (b \o <<e>>)) \o <<>>
        BY <3>3, <3>4, <3>5, <3>6, <3>7, <4>1
      <4> HIDE DEF a, b, f
      <4>3. a \in Seq(Event) /\ b \in Seq(Event) /\ <<e>> \in Seq(Event)
        BY <3>2, <3>3 DEF a, b
      <4>4. (a \o b) \o <<>> = a \o b
            /\ (a \o (b \o <<e>>)) \o <<>> = (a \o b) \o <<e>>
        BY <4>3, ItemSeqs
      <4>5. EventsOf(c)' = EventsOf(c) \o <<e>>
        BY <1>1, <4>2, <4>4, Zenon
      <4> QED
        BY <1>2, <1>5, <2>1, <3>7, <4>5 DEF Told
    <3>8. CASE c # d
      <4>1. O(events) \o <<>> = O(events)
        BY <3>3, ItemSeqs
      <4>2. O(events \o <<e>>) = O(events)
        BY <3>5, <3>6, <3>8, <4>1, Zenon
      <4>3. O(Trail') = O(Trail)
        BY <3>3, <3>4, <4>2, Zenon
      <4> QED
        BY <1>1, <1>2, <3>8, <4>3 DEF Told
    <3> QED
      BY <3>7, <3>8
  <2> QED
    BY <2>3, <2>4
<1> QED
  BY <1>4, <1>5

\* Without the lock: the value first, its event later.
LEMMA MetricTold ==
  ASSUME IInv, ChangedCallback \/ \E v \in Values : SetMetric(v),
         NEW c \in Channels, c \notin dropped'
  PROVE  Told(c)
<1> DEFINE P == ElementsOf("event") \o pending
           O(s) == OfChannel(c, s)
<1>1. /\ P \in Seq(Event) /\ events \in Seq(Event) /\ late \in Seq(Event)
      /\ Trail = (P \o events) \o late
      /\ EventsOf(c) = O(Trail) /\ EventsOf(c)' = O(Trail')
      /\ P \o events \in Seq(Event)
  BY TrailFacts DEF Trail
<1>2. data \in [Channels -> Values] /\ Metric \in Channels
  BY PipelineAssumption DEF IInv, TypeOK, Channels
<1>3. UNCHANGED <<delivered, hand, queue, frame, held, pending>>
  BY DEF ChangedCallback, SetMetric, dispatchVars, writerVars
<1>4. Trail' = (P \o events') \o late'
  <2>1. Before' = Before
    BY <1>3 DEF Before
  <2>2. ElementsOf("event")' = ElementsOf("event")
    BY <1>3, <2>1, ElementsAre
  <2> QED
    BY <1>3, <2>2 DEF Trail
<1> HIDE DEF P
<1>5. ASSUME NEW v \in Values, SetMetric(v) PROVE Told(c)
  <2> DEFINE e == Change(Metric, v)
  <2>1. /\ e \in Event /\ e.channel = Metric /\ e.prev = data[Metric] /\ e.curr = v
    BY <1>2 DEF Change, Event
  <2>2. /\ late = <<>> /\ late' = <<e>> /\ events' = events
        /\ data' = [data EXCEPT ![Metric] = v] /\ data[Metric] # v
    BY <1>5 DEF SetMetric
  <2> HIDE DEF e
  <2>3. Trail = P \o events /\ Trail' = Trail \o <<e>> /\ Trail \in Seq(Event)
        /\ <<e>> \in Seq(Event)
    BY <1>1, <1>4, <2>1, <2>2, ConcatEmptySeq
  <2>4. O(Trail \o <<e>>) = O(Trail) \o O(<<e>>)
    BY <2>3, OfConcat
  <2>5. O(<<e>>) = IF Metric = c THEN <<e>> ELSE <<>>
    BY <2>1, OfOne
  <2>6. CASE c = Metric
    <3>1. EventsOf(c)' = EventsOf(c) \o <<e>>
      BY <1>1, <2>3, <2>4, <2>5, <2>6
    <3> QED
      BY <1>2, <2>1, <2>2, <2>6, <3>1 DEF Told
  <2>7. CASE c # Metric
    <3>1. O(Trail) \o <<>> = O(Trail)
      BY <2>3, OfType, ConcatEmptySeq
    <3>2. EventsOf(c)' = EventsOf(c)
      BY <1>1, <2>3, <2>4, <2>5, <2>7, <3>1
    <3> QED
      BY <1>2, <2>2, <2>7, <3>2 DEF Told
  <2> QED
    BY <2>6, <2>7
<1>6. CASE ChangedCallback
  <2>1. late # <<>> /\ Enqueue(late[1]) /\ late' = <<>> /\ data' = data
    BY <1>6 DEF ChangedCallback
  <2>2. late = <<late[1]>> /\ late[1] \in Event /\ late[1].channel = Metric
    BY <2>1, LateFacts
  <2> DEFINE e == late[1]
  <2>3. late = <<e>> /\ e \in Event /\ e.channel = Metric /\ Enqueue(e)
        /\ <<e>> \in Seq(Event)
    BY <2>1, <2>2
  <2> HIDE DEF e
  <2>4. CASE Len(events) < EventMax
    <3>1. events' = Append(events, e)
      BY <2>3, <2>4 DEF Enqueue
    <3>2. events' = events \o <<e>> /\ events \o <<e>> \in Seq(Event)
      BY <1>1, <2>3, <3>1
    <3>3. P \o (events \o <<e>>) = (P \o events) \o <<e>>
      BY <1>1, <2>3, ConcatAssociative
    <3>4. ((P \o events) \o <<e>>) \o <<>> = (P \o events) \o <<e>>
      BY <1>1, <2>3, ItemSeqs
    <3>5. Trail' = Trail
      BY <1>1, <1>4, <2>1, <2>3, <3>2, <3>3, <3>4, Zenon
    <3> QED
      BY <1>1, <2>1, <3>5 DEF Told
  <2>5. CASE ~(Len(events) < EventMax)
    <3>1. events' = events /\ c # Metric
      BY <2>3, <2>5 DEF Enqueue
    <3>2. (P \o events) \o <<>> = P \o events
      BY <1>1, ConcatEmptySeq
    <3>3. O(late) = <<>>
      BY <3>1, LateFacts
    <3> DEFINE q == P \o events
    <3>4. q \in Seq(Event)
      BY <1>1
    <3> HIDE DEF q
    <3>5. O(q \o late) = O(q) \o O(late)
      BY <1>1, <3>4, OfConcat, SMTT(30)
    <3>6. O(q) \o <<>> = O(q)
      BY <3>4, OfType, ConcatEmptySeq
    <3>7. EventsOf(c)' = EventsOf(c)
      BY <1>1, <1>4, <2>1, <3>1, <3>2, <3>3, <3>5, <3>6, Zenon DEF q
    <3> QED
      BY <2>1, <3>7 DEF Told
  <2> QED
    BY <2>4, <2>5
<1> QED
  BY <1>5, <1>6

\* Every step tells of a change, and of nothing else.
LEMMA NextTold ==
  ASSUME IInv, IInv', [Next]_vars, NEW c \in Channels, c \notin dropped'
  PROVE  Told(c) /\ c \notin dropped
<1>1. Group \subseteq Channels \ {Metric} /\ Command \in Channels \ {Metric}
  BY PipelineAssumption DEF Channels
<1>2. /\ \A d : EventsOf(d) = OfChannel(d, Trail)
      /\ \A d : EventsOf(d)' = OfChannel(d, Trail')
  BY TrailFacts
<1>3. ASSUME Trail' = Trail, data' = data PROVE Told(c)
  BY <1>2, <1>3 DEF Told
<1>4. ASSUME UNCHANGED <<pending, events, late, data>>,
             ElementsOf("event")' = ElementsOf("event")
      PROVE  Told(c)
  <2>1. Trail' = Trail
    BY <1>4 DEF Trail
  <2> QED
    BY <1>3, <1>4, <2>1
<1>5. CASE AddEvent \/ ConsumeEvent
  <2>1. UNCHANGED <<data, dropped>>
    BY <1>5 DEF AddEvent, ConsumeEvent, channelVars
  <2> QED
    BY <1>3, <1>5, <2>1, DispatcherTold
<1>6. CASE Emit
  <2>1. UNCHANGED <<pending, events, late, data, dropped>>
    BY <1>6 DEF Emit, setterVars
  <2> QED
    BY <1>4, <1>6, <2>1, EmitAppends
<1>7. CASE ChangedCallback \/ \E v \in Values : SetMetric(v)
  <2>1. dropped \subseteq dropped'
    BY <1>7 DEF ChangedCallback, SetMetric, Enqueue
  <2> QED
    BY <1>7, <2>1, MetricTold
<1>8. CASE \E d \in Group : GroupSet(d)
  <2>1. PICK d \in Group : GroupSet(d)
    BY <1>8
  <2>2. /\ Set(d, writes["locked"])
        /\ UNCHANGED <<delivered, hand, queue, frame, held, pending, late>>
    BY <2>1 DEF GroupSet, dispatchVars, writerVars
  <2>3. writes["locked"] \in Values
    BY DEF IInv, TypeOK, Setters, Values
  <2>4. dropped \subseteq dropped'
    BY <2>2 DEF Set, Enqueue
  <2> QED
    BY <1>1, <2>2, <2>3, <2>4, SetTold
<1>9. CASE \E v \in Values : CommandChannel(v)
  <2>1. PICK v \in Values : CommandChannel(v)
    BY <1>9
  <2>2. /\ Set(Command, v)
        /\ UNCHANGED <<delivered, hand, queue, frame, held, pending, late>>
    BY <2>1 DEF CommandChannel, dispatchVars, writerVars
  <2>3. dropped \subseteq dropped'
    BY <2>2 DEF Set, Enqueue
  <2> QED
    BY <1>1, <2>2, <2>3, SetTold
<1>10. ASSUME ~Emit, ~AddEvent, UNCHANGED <<pending, events, late, data, dropped>>
      PROVE  Told(c) /\ c \notin dropped
  <2>1. ElementsOf("event")' = ElementsOf("event")
    BY <1>10, OthersKeep DEF Kinds
  <2> QED
    BY <1>4, <1>10, <2>1
<1>11. CASE \/ DispatchNow \/ Dispatch \/ NotDue \/ EmitsDone \/ NewEventFrame
            \/ EventsDone \/ Put \/ Finish \/ Ends
  <2>1. UNCHANGED <<pending, events, late, data, dropped>>
    BY <1>11 DEF DispatchNow, Dispatch, NotDue, EmitsDone, NewEventFrame,
                 EventsDone, Put, Finish, Ends, channelVars, setterVars,
                 dispatchVars
  <2> QED
    BY <1>5, <1>6, <1>10, <2>1
<1>12. CASE \/ Writer \/ StopStream \/ Stopper \/ BeginStop \/ GroupEnter
            \/ GroupLeave \/ SetTime \/ \E d \in Names : AddChannel(d)
            \/ UNCHANGED vars
  <2>1. UNCHANGED <<pending, events, late, data, dropped>>
    BY <1>12 DEF Writer, Get, Handle, MetricFails, StopStream, Stopper, PutNone,
      Joined, JoinTelemetry, BeginStop, GroupEnter, GroupLeave, SetTime,
      AddChannel, vars, channelVars, setterVars, dispatchVars
  <2> QED
    BY <1>5, <1>6, <1>10, <2>1
<1> QED
  BY <1>5, <1>6, <1>7, <1>8, <1>9, <1>11, <1>12
  DEF Next, Dispatcher, GroupWriter

\* changed_cb, EventQueue, build_event_frames: however the dispatcher, the groups,
\* the commands and the metrics set without the lock are interleaved, whoever
\* replays the events of a channel of which none was dropped sees each value
\* follow the one before it, and ends with the channel's value.
THEOREM EventsCanBeReplayed == Spec => []EventsReplay
<1> DEFINE Replayed == \A c \in Channels \ dropped : ReplaysTo(EventsOf(c), data[c])
<1>1. Init => Replayed
  <2> SUFFICES ASSUME Init, NEW c \in Channels PROVE ReplaysTo(EventsOf(c), data[c])
    OBVIOUS
  <2>1. /\ ElementsOf("event") = <<>> /\ pending = <<>> /\ events = <<>>
        /\ late = <<>> /\ data = [d \in Channels |-> 0]
    BY SamplesInit DEF Init, Kinds
  <2>2. EventsOf(c) = <<>>
    <3>1. <<>> \o <<>> \o <<>> \o <<>> = <<>>
      OBVIOUS
    <3> QED
      BY <2>1, <3>1, OfNothing DEF EventsOf
  <2> QED
    BY <2>1, <2>2 DEF ReplaysTo, Chained, LastCurr
<1>2. IInv /\ IInv' /\ [Next]_vars /\ Replayed => Replayed'
  <2> SUFFICES ASSUME IInv, IInv', [Next]_vars, Replayed,
                      NEW c \in Channels, c \notin dropped'
               PROVE  ReplaysTo(EventsOf(c)', data'[c])
    BY DEF ReplaysTo, Chained, LastCurr
  <2>1. Told(c) /\ c \notin dropped
    BY NextTold
  <2>2. ReplaysTo(EventsOf(c), data[c]) /\ EventsOf(c) \in Seq(Event)
    BY <2>1, TrailFacts
  <2>3. CASE EventsOf(c)' = EventsOf(c) /\ data'[c] = data[c]
    BY <2>2, <2>3
  <2>4. ASSUME NEW e \in Event, EventsOf(c)' = EventsOf(c) \o <<e>>,
               e.prev = data[c], e.curr = data'[c], e.curr # e.prev
        PROVE  ReplaysTo(EventsOf(c)', data'[c])
    <3>1. ReplaysTo(EventsOf(c) \o <<e>>, e.curr)
      BY <2>2, <2>4, ReplayMore
    <3> QED
      BY <2>4, <3>1
  <2> QED
    BY <2>1, <2>3, <2>4 DEF Told
<1>3. IInv /\ Replayed => EventsReplay
  <2> SUFFICES ASSUME IInv, Replayed, NEW c \in Channels \ dropped
               PROVE  LET s == EventsOf(c)
                          v == <<0>> \o [i \in DOMAIN s |-> s[i].curr]
                      IN  /\ \A i \in DOMAIN s : s[i].prev = v[i] /\ s[i].curr # v[i]
                          /\ v[Len(v)] = data[c]
    BY DEF EventsReplay
  <2> DEFINE s == EventsOf(c)
  <2>1. s \in Seq(Event) /\ ReplaysTo(s, data[c])
    BY TrailFacts
  <2> HIDE DEF s
  <2>2. LET v == <<0>> \o [i \in DOMAIN s |-> s[i].curr]
        IN  /\ \A i \in DOMAIN s : s[i].prev = v[i] /\ s[i].curr # v[i]
            /\ v[Len(v)] = data[c]
    BY <2>1, ReplayIs
  <2> QED
    BY <2>2 DEF s
<1> HIDE DEF Replayed
<1> QED
  BY <1>1, <1>2, <1>3, Invariant, PTL DEF Spec
=============================================================================
