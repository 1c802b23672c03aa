------------------------ MODULE MessageStream_proofs ------------------------
(***************************************************************************)
(* Proofs about MessageStream: for any messages, mtus, header sizes,       *)
(* limits and ways in which a transport divides, loses, repeats and        *)
(* reorders what is sent.                                                  *)
(*                                                                         *)
(* The model's operators are about the variable frames.  Their             *)
(* counterparts here take the frames as a parameter, so that what is known *)
(* about them can be used of the frames before and after a step.           *)
(***************************************************************************)
EXTENDS MessageStream, SequenceTheorems, FiniteSetTheorems,
        WellFoundedInduction, TLAPS

-----------------------------------------------------------------------------
(* Induction over the natural numbers, and what FlattenSeq computes *)

\* A set of natural numbers that is not empty has a least element.
LEMMA MinNat ==
  ASSUME NEW T, T \subseteq Nat, T # {}
  PROVE  \E x \in T : \A y \in T : x <= y
<1> DEFINE R == OpToRel(<, Nat)
<1>1. IsWellFoundedOn(R, Nat)
  BY NatLessThanWellFounded
<1>2. \A x, y \in Nat : y < x => <<y, x>> \in R
  BY DEF OpToRel
<1> HIDE DEF R
<1>3. PICK x \in T : \A y \in T : ~ (<<y, x>> \in R)
  BY <1>1, WFMin
<1>4. ASSUME NEW y \in T PROVE x <= y
  <2>1. x \in Nat /\ y \in Nat
    OBVIOUS
  <2>2. ~(y < x)
    BY <1>2, <1>3, <2>1
  <2> QED
    BY <2>1, <2>2
<1> QED
  BY <1>4

\* Induction: a set that has 0, and n + 1 with every n, has every number.
LEMMA Induct ==
  ASSUME NEW T, 0 \in T, \A n \in Nat : n \in T => n + 1 \in T
  PROVE  Nat \subseteq T
<1> SUFFICES ASSUME Nat \ T # {} PROVE FALSE
  OBVIOUS
<1> DEFINE U == Nat \ T
<1>1. U \subseteq Nat /\ U # {} /\ \A x \in U : x # 0 /\ x \in Nat
  OBVIOUS
<1>2. PICK x \in U : \A y \in U : x <= y
  BY <1>1, MinNat
<1>3. x \in Nat /\ x # 0 /\ x - 1 \in Nat /\ ~(x <= x - 1)
  BY <1>1
<1>4. x - 1 \in T
  BY <1>2, <1>3
<1> QED
  BY <1>3, <1>4

\* The recursion of FlattenSeq.
Joins(g, ss, n) ==
  \A i \in 1 .. n : g[i] = IF i = 1 THEN ss[i] ELSE g[i - 1] \o ss[i]

\* FlattenSeq's recursion has a solution, up to any of the sequences,
LEMMA JoinExists ==
  ASSUME NEW S, NEW ss \in Seq(Seq(S))
  PROVE  \A n \in 0 .. Len(ss) : \E g \in [1 .. n -> Seq(S)] : Joins(g, ss, n)
<1> DEFINE T == {n \in Nat : n <= Len(ss) =>
                   \E g \in [1 .. n -> Seq(S)] : Joins(g, ss, n)}
<1>1. 0 \in T
  <2>1. [i \in 1 .. 0 |-> <<>>] \in [1 .. 0 -> Seq(S)]
    OBVIOUS
  <2>2. Joins([i \in 1 .. 0 |-> <<>>], ss, 0)
    BY DEF Joins
  <2> QED
    BY <2>1, <2>2
<1>2. ASSUME NEW n \in Nat, n \in T, n + 1 <= Len(ss)
      PROVE  \E g \in [1 .. n + 1 -> Seq(S)] : Joins(g, ss, n + 1)
  <2>1. PICK g \in [1 .. n -> Seq(S)] : Joins(g, ss, n)
    BY <1>2
  <2>2. ss[n + 1] \in Seq(S)
    BY <1>2
  <2> DEFINE v == IF n = 0 THEN ss[n + 1] ELSE g[n] \o ss[n + 1]
  <2>3. v \in Seq(S)
    <3>1. CASE n = 0
      BY <2>2, <3>1
    <3>2. CASE n # 0
      <4>1. g[n] \in Seq(S)
        BY <3>2
      <4> QED
        BY <2>2, <3>2, <4>1
    <3> QED
      BY <3>1, <3>2
  <2> HIDE DEF v
  <2> DEFINE h == [i \in 1 .. n + 1 |-> IF i = n + 1 THEN v ELSE g[i]]
  <2>4. h \in [1 .. n + 1 -> Seq(S)]
    BY <2>3
  <2>5. h[n + 1] = v /\ \A i \in 1 .. n : h[i] = g[i]
    OBVIOUS
  <2> HIDE DEF h
  <2>6. ASSUME NEW i \in 1 .. n + 1
        PROVE  h[i] = IF i = 1 THEN ss[i] ELSE h[i - 1] \o ss[i]
    <3>1. CASE i = n + 1
      <4>1. n # 0 => h[i - 1] = g[n]
        BY <2>5, <3>1
      <4> QED
        BY <2>5, <3>1, <4>1 DEF v
    <3>2. CASE i # n + 1
      <4>1. i \in 1 .. n /\ (i # 1 => i - 1 \in 1 .. n)
        BY <3>2
      <4>2. h[i] = g[i] /\ (i # 1 => h[i - 1] = g[i - 1])
        BY <2>5, <4>1
      <4> QED
        BY <2>1, <4>1, <4>2 DEF Joins
    <3> QED
      BY <3>1, <3>2
  <2>7. Joins(h, ss, n + 1)
    BY <2>6 DEF Joins
  <2> QED
    BY <2>4, <2>7
<1>3. \A n \in Nat : n \in T => n + 1 \in T
  BY <1>2
<1> HIDE DEF T
<1>4. Nat \subseteq T
  BY <1>1, <1>3, Induct
<1> QED
  BY <1>4 DEF T

\* and only one,
LEMMA JoinUnique ==
  ASSUME NEW ss, NEW n \in Nat, NEW g, NEW h, Joins(g, ss, n), Joins(h, ss, n)
  PROVE  \A i \in 1 .. n : g[i] = h[i]
<1> DEFINE T == {i \in Nat : i \in 1 .. n => g[i] = h[i]}
<1>1. 0 \in T
  OBVIOUS
<1>2. ASSUME NEW i \in Nat, i \in T, i + 1 \in 1 .. n PROVE g[i + 1] = h[i + 1]
  <2>1. i # 0 => g[i] = h[i] /\ (i + 1) - 1 = i /\ i + 1 # 1
    BY <1>2
  <2> QED
    BY <1>2, <2>1 DEF Joins
<1>3. \A i \in Nat : i \in T => i + 1 \in T
  BY <1>2
<1> HIDE DEF T
<1>4. Nat \subseteq T
  BY <1>1, <1>3, Induct
<1> QED
  BY <1>4 DEF T

\* which is what FlattenSeq takes.
LEMMA FlattenIs ==
  ASSUME NEW S, NEW ss \in Seq(Seq(S)), ss # <<>>,
         NEW g, Joins(g, ss, Len(ss))
  PROVE  FlattenSeq(ss) = g[Len(ss)]
<1> DEFINE P(f) == f = [i \in 1 .. Len(ss) |->
                          IF i = 1 THEN ss[i] ELSE f[i - 1] \o ss[i]]
           fl == CHOOSE f : P(f)
<1>1. Len(ss) \in Nat /\ Len(ss) # 0 /\ Len(ss) \in 0 .. Len(ss)
  OBVIOUS
<1>2. \A n \in 0 .. Len(ss) : \E f \in [1 .. n -> Seq(S)] : Joins(f, ss, n)
  BY JoinExists
<1>3. PICK f \in [1 .. Len(ss) -> Seq(S)] : Joins(f, ss, Len(ss))
  BY <1>1, <1>2
<1>4. P(f)
  BY <1>3 DEF Joins
<1>5. P(fl)
  BY <1>4, Zenon
<1>6. FlattenSeq(ss) = fl[Len(ss)]
  BY <1>1, Zenon DEF FlattenSeq
<1>7. Joins(fl, ss, Len(ss))
  <2> HIDE DEF fl
  <2> QED
    BY <1>5 DEF Joins
<1> HIDE DEF fl
<1>8. fl[Len(ss)] = g[Len(ss)]
  BY <1>1, <1>7, JoinUnique
<1> QED
  BY <1>6, <1>8

\* Nothing to flatten.
LEMMA FlattenEmpty == FlattenSeq(<<>>) = <<>>
  BY DEF FlattenSeq

\* The type of what is flattened.
LEMMA FlattenType ==
  ASSUME NEW S, NEW ss \in Seq(Seq(S))
  PROVE  FlattenSeq(ss) \in Seq(S)
<1>1. CASE ss = <<>>
  <2>1. <<>> \in Seq(S)
    OBVIOUS
  <2> QED
    BY <1>1, <2>1, FlattenEmpty, Zenon
<1>2. CASE ss # <<>>
  <2>1. Len(ss) \in 0 .. Len(ss) /\ Len(ss) \in 1 .. Len(ss)
    BY <1>2
  <2>2. \A n \in 0 .. Len(ss) : \E g \in [1 .. n -> Seq(S)] : Joins(g, ss, n)
    BY JoinExists
  <2>3. PICK g \in [1 .. Len(ss) -> Seq(S)] : Joins(g, ss, Len(ss))
    BY <2>1, <2>2
  <2>4. FlattenSeq(ss) = g[Len(ss)]
    BY <1>2, <2>3, FlattenIs
  <2> QED
    BY <2>1, <2>3, <2>4
<1> QED
  BY <1>1, <1>2

\* One sequence more to flatten.
LEMMA FlattenAppend ==
  ASSUME NEW S, NEW ss \in Seq(Seq(S)), NEW s \in Seq(S)
  PROVE  FlattenSeq(Append(ss, s)) = FlattenSeq(ss) \o s
<1> DEFINE n == Len(ss)
           tt == Append(ss, s)
<1>1. n \in Nat /\ n + 1 \in 0 .. n + 1 /\ n + 1 \in 1 .. n + 1
  OBVIOUS
<1>2. tt \in Seq(Seq(S)) /\ Len(tt) = n + 1
  BY AppendProperties
<1>3. tt[n + 1] = s
  OBVIOUS
<1>4. ASSUME NEW i \in 1 .. n PROVE tt[i] = ss[i]
  BY <1>1
<1>5. tt # <<>>
  BY <1>1, <1>2
<1> HIDE DEF n, tt
<1>6. \A m \in 0 .. Len(tt) : \E g \in [1 .. m -> Seq(S)] : Joins(g, tt, m)
  BY <1>2, JoinExists
<1>7. PICK g \in [1 .. n + 1 -> Seq(S)] : Joins(g, tt, n + 1)
  BY <1>1, <1>2, <1>6
<1>8. FlattenSeq(tt) = g[n + 1]
  BY <1>2, <1>5, <1>7, FlattenIs
<1>9. Joins(g, ss, n)
  <2>1. ASSUME NEW i \in 1 .. n
        PROVE  g[i] = IF i = 1 THEN ss[i] ELSE g[i - 1] \o ss[i]
    <3>1. i \in 1 .. n + 1
      BY <1>1
    <3>2. g[i] = IF i = 1 THEN tt[i] ELSE g[i - 1] \o tt[i]
      BY <1>7, <3>1 DEF Joins
    <3> QED
      BY <1>4, <3>2
  <2> QED
    BY <2>1 DEF Joins
<1>10. CASE n = 0
  <2>1. ss = <<>>
    BY <1>10 DEF n
  <2>2. FlattenSeq(ss) = <<>>
    BY <2>1, FlattenEmpty
  <2>3. g[n + 1] = tt[n + 1]
    <3>1. n + 1 = 1
      BY <1>10
    <3> QED
      BY <1>1, <1>7, <3>1 DEF Joins
  <2>4. <<>> \o s = s
    OBVIOUS
  <2>5. FlattenSeq(tt) = FlattenSeq(ss) \o s
    BY <1>8, <1>3, <2>2, <2>3, <2>4
  <2> QED
    BY <2>5 DEF tt
<1>11. CASE n # 0
  <2>1. ss # <<>> /\ n \in 1 .. n + 1 /\ n = Len(ss)
    BY <1>1, <1>11 DEF n
  <2>2. FlattenSeq(ss) = g[n]
    BY <1>9, <2>1, FlattenIs
  <2>3. g[n + 1] = g[n] \o tt[n + 1]
    <3>1. n + 1 # 1 /\ (n + 1) - 1 = n
      BY <1>1, <1>11
    <3> QED
      BY <1>1, <1>7, <3>1 DEF Joins
  <2> QED
    BY <1>3, <1>8, <2>2, <2>3 DEF tt
<1> QED
  BY <1>10, <1>11

\* Two lists of sequences.
LEMMA FlattenConcat ==
  ASSUME NEW S, NEW ss \in Seq(Seq(S)), NEW tt \in Seq(Seq(S))
  PROVE  FlattenSeq(ss \o tt) = FlattenSeq(ss) \o FlattenSeq(tt)
<1> DEFINE T == {n \in Nat : \A uu \in Seq(Seq(S)) : Len(uu) = n =>
                   FlattenSeq(ss \o uu) = FlattenSeq(ss) \o FlattenSeq(uu)}
<1>1. FlattenSeq(ss) \in Seq(S)
  BY FlattenType
<1>2. 0 \in T
  <2>1. ASSUME NEW uu \in Seq(Seq(S)), Len(uu) = 0
        PROVE  FlattenSeq(ss \o uu) = FlattenSeq(ss) \o FlattenSeq(uu)
    <3>1. uu = <<>> /\ ss \o uu = ss
      BY <2>1
    <3> QED
      BY <1>1, <3>1, FlattenEmpty
  <2> QED
    BY <2>1
<1>3. ASSUME NEW n \in Nat, n \in T, NEW uu \in Seq(Seq(S)), Len(uu) = n + 1
      PROVE  FlattenSeq(ss \o uu) = FlattenSeq(ss) \o FlattenSeq(uu)
  <2> DEFINE vv == [i \in 1 .. n |-> uu[i]]
             v == uu[n + 1]
  <2>1. vv \in Seq(Seq(S)) /\ Len(vv) = n /\ v \in Seq(S) /\ uu = Append(vv, v)
    BY <1>3
  <2> HIDE DEF vv, v
  <2>2. ss \o uu = Append(ss \o vv, v) /\ ss \o vv \in Seq(Seq(S))
    BY <2>1
  <2>3. FlattenSeq(ss \o vv) = FlattenSeq(ss) \o FlattenSeq(vv)
    BY <1>3, <2>1
  <2>4. FlattenSeq(ss \o uu) = (FlattenSeq(ss) \o FlattenSeq(vv)) \o v
    BY <2>1, <2>2, <2>3, FlattenAppend
  <2>5. FlattenSeq(uu) = FlattenSeq(vv) \o v /\ FlattenSeq(vv) \in Seq(S)
    BY <2>1, FlattenAppend, FlattenType
  <2>6. \A a, b, d \in Seq(S) : (a \o b) \o d = a \o (b \o d)
    BY ConcatAssociative, SMTT(30)
  <2>7. (FlattenSeq(ss) \o FlattenSeq(vv)) \o v = FlattenSeq(ss) \o (FlattenSeq(vv) \o v)
    BY <1>1, <2>1, <2>5, <2>6, Zenon
  <2> QED
    BY <2>4, <2>5, <2>7, Zenon
<1>4. ASSUME NEW n \in Nat, n \in T PROVE n + 1 \in T
  <2>1. \A uu \in Seq(Seq(S)) : Len(uu) = n + 1 =>
          FlattenSeq(ss \o uu) = FlattenSeq(ss) \o FlattenSeq(uu)
    BY <1>3, <1>4
  <2>2. n + 1 \in Nat
    OBVIOUS
  <2> QED
    BY <2>1, <2>2
<1> HIDE DEF T
<1>5. Nat \subseteq T
  BY <1>2, <1>4, Induct
<1> QED
  BY <1>5 DEF T

\* F takes what is in S to sequences over T.
Maps(F, S, T) == F \in [S -> Seq(T)]
FlatMap(F, w) == FlattenSeq([i \in DOMAIN w |-> F[w[i]]])

\* Of nothing and of one.
LEMMA FlatMapSmall ==
  ASSUME NEW S, NEW T, NEW F, Maps(F, S, T), NEW e \in S
  PROVE  FlatMap(F, <<>>) = <<>> /\ FlatMap(F, <<e>>) = F[e]
<1>1. F \in [S -> Seq(T)]
  BY DEF Maps
<1>2. [i \in DOMAIN <<>> |-> F[<<>>[i]]] = <<>>
  OBVIOUS
<1>3. [i \in DOMAIN <<e>> |-> F[<<e>>[i]]] = Append(<<>>, F[e])
  OBVIOUS
<1>4. F[e] \in Seq(T) /\ <<>> \in Seq(Seq(T))
  BY <1>1
<1>5. FlattenSeq(Append(<<>>, F[e])) = FlattenSeq(<<>>) \o F[e]
  BY <1>4, FlattenAppend
<1>6. <<>> \o F[e] = F[e]
  BY <1>4
<1> QED
  BY <1>2, <1>3, <1>5, <1>6, FlattenEmpty DEF FlatMap

\* A map, element by element.
LEMMA MapSeq ==
  ASSUME NEW S, NEW T, NEW F, Maps(F, S, T), NEW u \in Seq(S)
  PROVE  LET m == [i \in DOMAIN u |-> F[u[i]]] IN
         m \in Seq(Seq(T)) /\ Len(m) = Len(u) /\ \A i \in 1 .. Len(u) : m[i] = F[u[i]]
<1> DEFINE n == Len(u)
           m == [i \in DOMAIN u |-> F[u[i]]]
<1>1. DOMAIN u = 1 .. Len(u) /\ Len(u) \in Nat
  OBVIOUS
<1>2. ASSUME NEW i \in 1 .. Len(u) PROVE F[u[i]] \in Seq(T)
  <2>1. u[i] \in S
    OBVIOUS
  <2> QED
    BY <2>1 DEF Maps
<1>3. m = [i \in 1 .. n |-> F[u[i]]] /\ n \in Nat
  BY <1>1
<1>4. [i \in 1 .. n |-> F[u[i]]] \in Seq(Seq(T))
  BY <1>2, <1>3
<1>5. Len([i \in 1 .. n |-> F[u[i]]]) = n
  BY <1>3
<1> QED
  BY <1>3, <1>4, <1>5

\* The type of what is mapped and flattened.
LEMMA FlatMapType ==
  ASSUME NEW S, NEW T, NEW F, Maps(F, S, T), NEW v \in Seq(S)
  PROVE  FlatMap(F, v) \in Seq(T)
<1> DEFINE m == [i \in DOMAIN v |-> F[v[i]]]
<1>1. m \in Seq(Seq(T)) /\ <<>> \in Seq(T)
  BY MapSeq
<1> HIDE DEF m
<1>2. FlattenSeq(m) \in Seq(T)
  BY <1>1, FlattenType
<1> QED
  BY <1>2 DEF FlatMap, m

\* Of two sequences.
LEMMA FlatMapConcat ==
  ASSUME NEW S, NEW T, NEW F, Maps(F, S, T), NEW v \in Seq(S), NEW w \in Seq(S)
  PROVE  FlatMap(F, v \o w) = FlatMap(F, v) \o FlatMap(F, w)
<1> DEFINE M(u) == [i \in DOMAIN u |-> F[u[i]]]
<1>1. ASSUME NEW u \in Seq(S)
      PROVE  M(u) \in Seq(Seq(T)) /\ Len(M(u)) = Len(u)
             /\ \A i \in 1 .. Len(u) : M(u)[i] = F[u[i]]
  BY MapSeq
<1>2. v \o w \in Seq(S) /\ Len(v \o w) = Len(v) + Len(w)
      /\ Len(v) \in Nat /\ Len(w) \in Nat
  OBVIOUS
<1>3. /\ M(v) \in Seq(Seq(T)) /\ Len(M(v)) = Len(v)
      /\ M(w) \in Seq(Seq(T)) /\ Len(M(w)) = Len(w)
  BY <1>1
<1>4. M(v \o w) \in Seq(Seq(T)) /\ Len(M(v \o w)) = Len(v \o w)
  BY <1>1, <1>2
<1> HIDE DEF M
<1>5. M(v) \o M(w) \in Seq(Seq(T)) /\ Len(M(v) \o M(w)) = Len(v) + Len(w)
  <2>1. \A a, b \in Seq(Seq(T)) : a \o b \in Seq(Seq(T)) /\ Len(a \o b) = Len(a) + Len(b)
    BY ConcatProperties
  <2> QED
    BY <1>3, <2>1
<1>6. ASSUME NEW i \in 1 .. Len(v) + Len(w)
      PROVE  M(v \o w)[i] = (M(v) \o M(w))[i]
  <2>1. M(v \o w)[i] = F[(v \o w)[i]]
    BY <1>1, <1>2
  <2>2. (v \o w)[i] = IF i <= Len(v) THEN v[i] ELSE w[i - Len(v)]
    BY ConcatProperties
  <2>3. (M(v) \o M(w))[i] = IF i <= Len(v) THEN M(v)[i] ELSE M(w)[i - Len(v)]
    BY <1>3, ConcatProperties
  <2>4. (i <= Len(v) => i \in 1 .. Len(v))
        /\ (~(i <= Len(v)) => i - Len(v) \in 1 .. Len(w))
    BY <1>2
  <2>5. (i <= Len(v) => M(v)[i] = F[v[i]])
        /\ (~(i <= Len(v)) => M(w)[i - Len(v)] = F[w[i - Len(v)]])
    BY <1>1, <2>4
  <2> QED
    BY <2>1, <2>2, <2>3, <2>5
<1>7. M(v \o w) \in Seq(Seq(T)) /\ Len(M(v \o w)) = Len(v) + Len(w)
  BY <1>4, <1>2
<1>8. M(v \o w) = M(v) \o M(w)
  BY <1>5, <1>6, <1>7, SeqEqual
<1>9. FlattenSeq(M(v) \o M(w)) = FlattenSeq(M(v)) \o FlattenSeq(M(w))
  BY <1>1, FlattenConcat
<1>10. /\ FlatMap(F, v) = FlattenSeq(M(v)) /\ FlatMap(F, w) = FlattenSeq(M(w))
      /\ FlatMap(F, v \o w) = FlattenSeq(M(v \o w))
  BY DEF FlatMap, M
<1> QED
  BY <1>8, <1>9, <1>10, Zenon

-----------------------------------------------------------------------------
(* More about mapping and flattening *)

\* Of a sequence one longer.
LEMMA FlatMapAppend ==
  ASSUME NEW S, NEW T, NEW F, Maps(F, S, T), NEW v \in Seq(S), NEW e \in S
  PROVE  FlatMap(F, Append(v, e)) = FlatMap(F, v) \o F[e]
<1>1. Append(v, e) = v \o <<e>> /\ <<e>> \in Seq(S)
  OBVIOUS
<1>2. \A x, y \in Seq(S) : FlatMap(F, x \o y) = FlatMap(F, x) \o FlatMap(F, y)
  BY FlatMapConcat
<1>3. FlatMap(F, v \o <<e>>) = FlatMap(F, v) \o FlatMap(F, <<e>>)
  BY <1>1, <1>2, Zenon
<1>4. FlatMap(F, <<e>>) = F[e]
  BY FlatMapSmall
<1> QED
  BY <1>1, <1>3, <1>4, Zenon

\* No more comes of a map with at most one for each.
LEMMA FlatMapShort ==
  ASSUME NEW S, NEW T, NEW F, Maps(F, S, T), NEW w \in Seq(S),
         \A e \in S : Len(F[e]) <= 1
  PROVE  Len(FlatMap(F, w)) <= Len(w)
<1> DEFINE U == {n \in Nat : \A u \in Seq(S) : Len(u) = n => Len(FlatMap(F, u)) <= n}
<1>1. 0 \in U
  <2>1. ASSUME NEW u \in Seq(S), Len(u) = 0 PROVE Len(FlatMap(F, u)) <= 0
    <3>1. u = <<>>
      BY <2>1
    <3>2. [i \in DOMAIN <<>> |-> F[<<>>[i]]] = <<>>
      OBVIOUS
    <3>3. FlatMap(F, u) = <<>>
      BY <3>1, <3>2, FlattenEmpty DEF FlatMap
    <3> QED
      BY <3>3
  <2> QED
    BY <2>1
<1>2. ASSUME NEW n \in Nat, n \in U, NEW u \in Seq(S), Len(u) = n + 1
      PROVE  Len(FlatMap(F, u)) <= n + 1
  <2>1. Len(u) = n + 1
    BY <1>2
  <2> DEFINE v == [i \in 1 .. n |-> u[i]]
             e == u[n + 1]
  <2>2. v \in Seq(S) /\ Len(v) = n /\ e \in S /\ u = Append(v, e)
    BY <2>1
  <2> HIDE DEF v, e
  <2>3. FlatMap(F, u) = FlatMap(F, v) \o F[e]
    BY <2>2, FlatMapAppend
  <2>4. FlatMap(F, v) \in Seq(T) /\ F[e] \in Seq(T)
    BY <2>2, FlatMapType DEF Maps
  <2>5. Len(FlatMap(F, v)) <= n
    BY <1>2, <2>2
  <2>6. Len(FlatMap(F, v) \o F[e]) = Len(FlatMap(F, v)) + Len(F[e])
    BY <2>4, ConcatProperties
  <2>7. Len(FlatMap(F, v)) \in Nat /\ Len(F[e]) \in Nat /\ Len(F[e]) <= 1
    BY <2>2, <2>4
  <2> QED
    BY <2>3, <2>5, <2>6, <2>7
<1>3. ASSUME NEW n \in Nat, n \in U PROVE n + 1 \in U
  <2>1. \A u \in Seq(S) : Len(u) = n + 1 => Len(FlatMap(F, u)) <= n + 1
    BY <1>2, <1>3
  <2>2. n + 1 \in Nat
    OBVIOUS
  <2> QED
    BY <2>1, <2>2
<1> HIDE DEF U
<1>4. Nat \subseteq U
  BY <1>1, <1>3, Induct
<1>5. Len(w) \in Nat
  OBVIOUS
<1> QED
  BY <1>4, <1>5 DEF U

\* A map that keeps each of the elements keeps the sequence.
LEMMA FlatMapSame ==
  ASSUME NEW S, NEW T, NEW F, Maps(F, S, T), NEW R, R \subseteq S,
         NEW w \in Seq(R), \A e \in R : F[e] = <<e>>
  PROVE  FlatMap(F, w) = w
<1> DEFINE U == {n \in Nat : \A u \in Seq(R) : Len(u) = n => FlatMap(F, u) = u}
<1>1. 0 \in U
  <2>1. ASSUME NEW u \in Seq(R), Len(u) = 0 PROVE FlatMap(F, u) = u
    <3>1. u = <<>>
      BY <2>1
    <3>2. [i \in DOMAIN <<>> |-> F[<<>>[i]]] = <<>>
      OBVIOUS
    <3> QED
      BY <3>1, <3>2, FlattenEmpty DEF FlatMap
  <2> QED
    BY <2>1
<1>2. ASSUME NEW n \in Nat, n \in U, NEW u \in Seq(R), Len(u) = n + 1
      PROVE  FlatMap(F, u) = u
  <2>1. Len(u) = n + 1
    BY <1>2
  <2> DEFINE v == [i \in 1 .. n |-> u[i]]
             e == u[n + 1]
  <2>2. v \in Seq(R) /\ Len(v) = n /\ e \in R /\ u = Append(v, e)
    BY <2>1
  <2> HIDE DEF v, e
  <2>3. v \in Seq(S) /\ e \in S
    BY <2>2
  <2>4. FlatMap(F, Append(v, e)) = FlatMap(F, v) \o F[e]
    BY <2>3, FlatMapAppend
  <2>5. FlatMap(F, v) = v /\ F[e] = <<e>>
    BY <1>2, <2>2
  <2>6. v \o <<e>> = Append(v, e)
    BY <2>2
  <2> QED
    BY <2>2, <2>4, <2>5, <2>6, Zenon
<1>3. ASSUME NEW n \in Nat, n \in U PROVE n + 1 \in U
  BY <1>2, <1>3
<1> HIDE DEF U
<1>4. Nat \subseteq U
  BY <1>1, <1>3, Induct
<1>5. Len(w) \in Nat
  OBVIOUS
<1> QED
  BY <1>4, <1>5 DEF U

\* The lesser of two.
LEMMA MinTwo ==
  ASSUME NEW a \in Int, NEW b \in Int
  PROVE  Min({a, b}) = IF a <= b THEN a ELSE b
<1> DEFINE P(x) == x \in {a, b} /\ \A y \in {a, b} : x <= y
           c == IF a <= b THEN a ELSE b
<1>1. P(c)
  OBVIOUS
<1>2. \A x : P(x) => x = c
  OBVIOUS
<1>3. Min({a, b}) = CHOOSE x : P(x)
  BY Zenon DEF Min
<1> QED
  BY <1>1, <1>2, <1>3

\* The elements of a piece of a sequence.
LEMMA Piece ==
  ASSUME NEW S, NEW s \in Seq(S), NEW a \in Nat, NEW b \in Nat,
         1 <= a, a <= b + 1, b <= Len(s)
  PROVE  /\ SubSeq(s, a, b) \in Seq(S) /\ Len(SubSeq(s, a, b)) = b - a + 1
         /\ \A i \in 1 .. b - a + 1 : SubSeq(s, a, b)[i] = s[a + i - 1]
  BY SubSeqProperties

\* What stays of a sequence when its front is taken.
LEMMA PieceAfter ==
  ASSUME NEW S, NEW s \in Seq(S), NEW a \in Nat, NEW b \in Nat, a <= b, b <= Len(s)
  PROVE  /\ SubSeq(s, a + 1, b) \in Seq(S) /\ Len(SubSeq(s, a + 1, b)) = b - a
         /\ \A i \in 1 .. b - a : SubSeq(s, a + 1, b)[i] = s[a + i]
<1>1. a + 1 \in Nat /\ 1 <= a + 1 /\ a + 1 <= b + 1 /\ b - (a + 1) + 1 = b - a
  OBVIOUS
<1> DEFINE p == SubSeq(s, a + 1, b)
<1>2. /\ p \in Seq(S) /\ Len(p) = b - (a + 1) + 1
      /\ \A i \in 1 .. b - (a + 1) + 1 : p[i] = s[(a + 1) + i - 1]
  BY <1>1, Piece
<1> HIDE DEF p
<1>3. ASSUME NEW i \in 1 .. b - a PROVE p[i] = s[a + i]
  <2>1. (a + 1) + i - 1 = a + i /\ i \in 1 .. b - (a + 1) + 1
    BY <1>1
  <2>2. p[i] = s[(a + 1) + i - 1]
    BY <1>2, <2>1
  <2> QED
    BY <2>1, <2>2
<1>4. Len(p) = b - a
  BY <1>1, <1>2
<1> QED
  BY <1>2, <1>3, <1>4 DEF p

\* Sequences of numbers are put together in any grouping.
LEMMA Regroup == \A x, y, z \in Seq(Nat) : (x \o y) \o z = x \o (y \o z)
  BY ConcatAssociative, SMTT(30)

-----------------------------------------------------------------------------
(* The bytes of the frames fr *)

\* A frame, and where a byte comes from when n frames were sent.
Message == [message : Nat, index : Nat, total : Nat, bytes : Seq(Nat)]
Places(n) == (1 .. n) \X Int

\* FrameSize, WithSizeHeader, and the first n frames' bytes with their number.
SizeOf(fr, f) == Overhead + Len(fr[f].bytes)
Sent(fr, f) == [k \in 1 .. SizeBytes + SizeOf(fr, f) |-> <<f, k - SizeBytes>>]
Flat(fr, n) == FlattenSeq([f \in 1 .. n |-> Sent(fr, f)])
End(fr, n) == Len(Flat(fr, n))

\* The size of a frame.
LEMMA SizeType ==
  ASSUME NEW fr \in Seq(Message), NEW f \in 1 .. Len(fr)
  PROVE  SizeOf(fr, f) \in Nat /\ SizeOf(fr, f) > 0
<1>1. fr[f] \in Message
  OBVIOUS
<1>2. fr[f].bytes \in Seq(Nat)
  BY <1>1 DEF Message
<1>3. Len(fr[f].bytes) \in Nat
  BY <1>2
<1> QED
  BY <1>3, StreamAssumption DEF SizeOf

\* A frame with its header.
LEMMA SentType ==
  ASSUME NEW fr \in Seq(Message), NEW f \in 1 .. Len(fr)
  PROVE  /\ Sent(fr, f) \in Seq(Places(Len(fr)))
         /\ Len(Sent(fr, f)) = SizeBytes + SizeOf(fr, f)
         /\ \A k \in 1 .. SizeBytes + SizeOf(fr, f) :
              Sent(fr, f)[k] = <<f, k - SizeBytes>>
<1> DEFINE n == SizeBytes + SizeOf(fr, f)
<1>1. n \in Nat /\ SizeBytes \in Nat /\ Len(fr) \in Nat
  BY SizeType, StreamAssumption
<1> HIDE DEF n
<1>2. \A k \in 1 .. n : <<f, k - SizeBytes>> \in Places(Len(fr))
  BY <1>1 DEF Places
<1>3. [k \in 1 .. n |-> <<f, k - SizeBytes>>] \in Seq(Places(Len(fr)))
  BY <1>1, <1>2
<1>4. Len([k \in 1 .. n |-> <<f, k - SizeBytes>>]) = n
  BY <1>1
<1> QED
  BY <1>3, <1>4 DEF n, Sent

\* The bytes of no frame, and of one more.
LEMMA FlatType ==
  ASSUME NEW fr \in Seq(Message), NEW n \in 0 .. Len(fr)
  PROVE  Flat(fr, n) \in Seq(Places(Len(fr)))
<1>1. \A f \in 1 .. n : Sent(fr, f) \in Seq(Places(Len(fr)))
  BY SentType
<1> DEFINE ss == [f \in 1 .. n |-> Sent(fr, f)]
<1>2. ss \in Seq(Seq(Places(Len(fr))))
  BY <1>1
<1> HIDE DEF ss
<1>3. FlattenSeq(ss) \in Seq(Places(Len(fr)))
  BY <1>2, FlattenType
<1> QED
  BY <1>3 DEF ss, Flat

\* No frame, no bytes.
LEMMA FlatNone == ASSUME NEW fr PROVE Flat(fr, 0) = <<>>
<1>1. [f \in 1 .. 0 |-> Sent(fr, f)] = <<>>
  OBVIOUS
<1> QED
  BY <1>1, FlattenEmpty DEF Flat

\* One frame more.
LEMMA FlatStep ==
  ASSUME NEW fr \in Seq(Message), NEW n \in Nat, n < Len(fr)
  PROVE  Flat(fr, n + 1) = Flat(fr, n) \o Sent(fr, n + 1)
<1>1. \A f \in 1 .. n + 1 : Sent(fr, f) \in Seq(Places(Len(fr)))
  BY SentType
<1> DEFINE ss == [f \in 1 .. n |-> Sent(fr, f)]
           tt == [f \in 1 .. n + 1 |-> Sent(fr, f)]
<1>2. ss \in Seq(Seq(Places(Len(fr)))) /\ Len(ss) = n
  BY <1>1
<1>3. Sent(fr, n + 1) \in Seq(Places(Len(fr)))
  BY <1>1
<1>4. tt = Append(ss, Sent(fr, n + 1))
  OBVIOUS
<1> HIDE DEF ss, tt
<1>5. FlattenSeq(Append(ss, Sent(fr, n + 1))) = FlattenSeq(ss) \o Sent(fr, n + 1)
  BY <1>2, <1>3, FlattenAppend
<1> QED
  BY <1>4, <1>5, Zenon DEF ss, tt, Flat

\* Where frames end.
LEMMA EndType ==
  ASSUME NEW fr \in Seq(Message)
  PROVE  /\ \A n \in 0 .. Len(fr) : End(fr, n) \in Nat
         /\ End(fr, 0) = 0
<1>1. ASSUME NEW n \in 0 .. Len(fr) PROVE End(fr, n) \in Nat
  <2>1. Flat(fr, n) \in Seq(Places(Len(fr)))
    BY FlatType
  <2> QED
    BY <2>1 DEF End
<1>2. Flat(fr, 0) = <<>>
  BY FlatNone
<1>3. End(fr, 0) = 0
  BY <1>2 DEF End
<1> QED
  BY <1>1, <1>3

\* A frame's bytes end where the next one's begin.
LEMMA EndStep ==
  ASSUME NEW fr \in Seq(Message), NEW n \in Nat, n < Len(fr)
  PROVE  End(fr, n + 1) = End(fr, n) + SizeBytes + SizeOf(fr, n + 1)
<1>1. Flat(fr, n) \in Seq(Places(Len(fr)))
  BY FlatType
<1>2. /\ Sent(fr, n + 1) \in Seq(Places(Len(fr)))
      /\ Len(Sent(fr, n + 1)) = SizeBytes + SizeOf(fr, n + 1)
  BY SentType
<1>3. Len(Flat(fr, n) \o Sent(fr, n + 1)) = Len(Flat(fr, n)) + Len(Sent(fr, n + 1))
  BY <1>1, <1>2, ConcatProperties
<1>4. Flat(fr, n + 1) = Flat(fr, n) \o Sent(fr, n + 1)
  BY FlatStep
<1>5. End(fr, n + 1) = Len(Flat(fr, n)) + (SizeBytes + SizeOf(fr, n + 1))
  BY <1>2, <1>3, <1>4, Zenon DEF End
<1>6. SizeBytes \in Nat /\ SizeOf(fr, n + 1) \in Nat /\ Len(Flat(fr, n)) \in Nat
  BY <1>1, SizeType, StreamAssumption
<1> QED
  BY <1>5, <1>6 DEF End

\* Later frames end later, and end after their header.
LEMMA EndOrder ==
  ASSUME NEW fr \in Seq(Message), NEW m \in Nat, NEW n \in Nat, m < n, n <= Len(fr)
  PROVE  End(fr, m + 1) <= End(fr, n) /\ End(fr, m) + SizeBytes < End(fr, n)
<1> DEFINE U == {k \in Nat : m < k /\ k <= Len(fr) => End(fr, m + 1) <= End(fr, k)}
<1>1. 0 \in U
  OBVIOUS
<1>2. ASSUME NEW k \in Nat, k \in U, m < k + 1, k + 1 <= Len(fr)
      PROVE  End(fr, m + 1) <= End(fr, k + 1)
  <2>1. CASE m = k
    <3>1. End(fr, k + 1) \in Nat
      BY <1>2, EndType
    <3> QED
      BY <2>1, <3>1
  <2>2. CASE m < k
    <3>1. End(fr, m + 1) <= End(fr, k)
      BY <1>2, <2>2
    <3>2. End(fr, k + 1) = End(fr, k) + SizeBytes + SizeOf(fr, k + 1)
      BY <1>2, EndStep
    <3>3. End(fr, k) \in Nat /\ End(fr, m + 1) \in Nat
      BY <1>2, EndType
    <3>4. SizeBytes \in Nat /\ SizeOf(fr, k + 1) \in Nat
      BY <1>2, SizeType, StreamAssumption
    <3> QED
      BY <3>1, <3>2, <3>3, <3>4
  <2> QED
    BY <1>2, <2>1, <2>2
<1>3. ASSUME NEW k \in Nat, k \in U PROVE k + 1 \in U
  BY <1>2, <1>3
<1> HIDE DEF U
<1>4. Nat \subseteq U
  BY <1>1, <1>3, Induct
<1>5. End(fr, m + 1) <= End(fr, n)
  BY <1>4 DEF U
<1>6. End(fr, m + 1) = End(fr, m) + SizeBytes + SizeOf(fr, m + 1)
  BY EndStep
<1>7. SizeOf(fr, m + 1) \in Nat /\ SizeOf(fr, m + 1) > 0 /\ SizeBytes \in Nat
  BY SizeType, StreamAssumption
<1>8. End(fr, m) \in Nat /\ End(fr, n) \in Nat
  BY EndType
<1> QED
  BY <1>5, <1>6, <1>7, <1>8

\* The first m frames' bytes are the first ones of n frames.
LEMMA FlatPrefix ==
  ASSUME NEW fr \in Seq(Message), NEW m \in Nat, NEW n \in Nat, m <= n, n <= Len(fr),
         NEW i \in 1 .. End(fr, m)
  PROVE  Flat(fr, n)[i] = Flat(fr, m)[i]
<1> DEFINE U == {k \in Nat : m <= k /\ k <= Len(fr) => Flat(fr, k)[i] = Flat(fr, m)[i]}
<1>1. 0 \in U
  <2>1. m <= 0 => m = 0
    OBVIOUS
  <2> QED
    BY <2>1
<1>2. ASSUME NEW k \in Nat, k \in U, m <= k + 1, k + 1 <= Len(fr)
      PROVE  Flat(fr, k + 1)[i] = Flat(fr, m)[i]
  <2>1. CASE m = k + 1
    BY <2>1
  <2>2. CASE m # k + 1
    <3>1. m <= k /\ k < Len(fr) /\ k \in 0 .. Len(fr) /\ k + 1 \in 1 .. Len(fr)
      BY <1>2, <2>2
    <3>2. Flat(fr, k)[i] = Flat(fr, m)[i]
      BY <1>2, <3>1
    <3>3. End(fr, m) <= End(fr, k)
      <4>1. CASE m = k
        <5>1. End(fr, k) \in Nat
          BY <3>1, EndType
        <5> QED
          BY <4>1, <5>1
      <4>2. CASE m # k
        <5>1. m < k /\ k <= Len(fr) /\ m \in 0 .. Len(fr)
          BY <3>1, <4>2
        <5>2. End(fr, m) + SizeBytes < End(fr, k)
          BY <5>1, EndOrder
        <5>3. End(fr, m) \in Nat /\ End(fr, k) \in Nat /\ SizeBytes \in Nat
          BY <3>1, <5>1, EndType, StreamAssumption
        <5> QED
          BY <5>2, <5>3
      <4> QED
        BY <4>1, <4>2
    <3>4. End(fr, m) \in Nat /\ End(fr, k) \in Nat
      BY <3>1, EndType
    <3>5. Flat(fr, k) \in Seq(Places(Len(fr))) /\ Sent(fr, k + 1) \in Seq(Places(Len(fr)))
      BY <3>1, FlatType, SentType
    <3>6. i \in 1 .. Len(Flat(fr, k))
      BY <3>3, <3>4 DEF End
    <3>7. \A a, b \in Seq(Places(Len(fr))) : \A j \in 1 .. Len(a) : (a \o b)[j] = a[j]
      OBVIOUS
    <3>8. (Flat(fr, k) \o Sent(fr, k + 1))[i] = Flat(fr, k)[i]
      BY <3>5, <3>6, <3>7
    <3>9. Flat(fr, k + 1) = Flat(fr, k) \o Sent(fr, k + 1)
      BY <3>1, FlatStep
    <3> QED
      BY <3>2, <3>8, <3>9, Zenon
  <2> QED
    BY <2>1, <2>2
<1>3. ASSUME NEW k \in Nat, k \in U PROVE k + 1 \in U
  BY <1>2, <1>3
<1> HIDE DEF U
<1>4. Nat \subseteq U
  BY <1>1, <1>3, Induct
<1> QED
  BY <1>4 DEF U

\* Byte k of what is sent behind the first n frames.
LEMMA FlatAt ==
  ASSUME NEW fr \in Seq(Message), NEW n \in Nat, n < Len(fr),
         NEW k \in 1 .. SizeBytes + SizeOf(fr, n + 1)
  PROVE  Flat(fr, Len(fr))[End(fr, n) + k] = <<n + 1, k - SizeBytes>>
<1>1. n + 1 \in 1 .. Len(fr) /\ n \in 0 .. Len(fr) /\ n + 1 \in Nat /\ n + 1 <= Len(fr)
      /\ Len(fr) \in Nat /\ Len(fr) <= Len(fr)
  OBVIOUS
<1>2. End(fr, n) \in Nat /\ SizeBytes \in Nat /\ SizeOf(fr, n + 1) \in Nat
  BY <1>1, EndType, SizeType, StreamAssumption
<1>3. End(fr, n + 1) = End(fr, n) + SizeBytes + SizeOf(fr, n + 1)
  BY EndStep
<1>4. End(fr, n) + k \in 1 .. End(fr, n + 1)
  BY <1>2, <1>3
<1>5. Flat(fr, Len(fr))[End(fr, n) + k] = Flat(fr, n + 1)[End(fr, n) + k]
  BY <1>1, <1>4, FlatPrefix
<1>6. /\ Flat(fr, n) \in Seq(Places(Len(fr))) /\ Sent(fr, n + 1) \in Seq(Places(Len(fr)))
      /\ Len(Sent(fr, n + 1)) = SizeBytes + SizeOf(fr, n + 1)
      /\ Sent(fr, n + 1)[k] = <<n + 1, k - SizeBytes>>
  BY <1>1, FlatType, SentType
<1>7. \A a, b \in Seq(Places(Len(fr))) : \A j \in 1 .. Len(b) : (a \o b)[Len(a) + j] = b[j]
  OBVIOUS
<1>8. k \in 1 .. Len(Sent(fr, n + 1))
  BY <1>6
<1>9. (Flat(fr, n) \o Sent(fr, n + 1))[Len(Flat(fr, n)) + k] = Sent(fr, n + 1)[k]
  BY <1>6, <1>7, <1>8, Zenon
<1>10. Flat(fr, n + 1) = Flat(fr, n) \o Sent(fr, n + 1)
  BY FlatStep
<1> QED
  BY <1>5, <1>6, <1>9, <1>10, Zenon DEF End

\* More frames change nothing of the bytes before them.
LEMMA MoreFrames ==
  ASSUME NEW fr \in Seq(Message), NEW more \in Seq(Message), NEW n \in 0 .. Len(fr)
  PROVE  /\ \A f \in 1 .. Len(fr) : (fr \o more)[f] = fr[f]
         /\ \A f \in 1 .. Len(fr) : SizeOf(fr \o more, f) = SizeOf(fr, f)
         /\ \A f \in 1 .. Len(fr) : Sent(fr \o more, f) = Sent(fr, f)
         /\ Flat(fr \o more, n) = Flat(fr, n)
         /\ End(fr \o more, n) = End(fr, n)
<1>1. \A f \in 1 .. Len(fr) : (fr \o more)[f] = fr[f]
  OBVIOUS
<1>2. \A f \in 1 .. Len(fr) : SizeOf(fr \o more, f) = SizeOf(fr, f)
  BY <1>1 DEF SizeOf
<1>3. \A f \in 1 .. Len(fr) : Sent(fr \o more, f) = Sent(fr, f)
  BY <1>2 DEF Sent
<1>4. \A f \in 1 .. n : f \in 1 .. Len(fr)
  OBVIOUS
<1>5. [f \in 1 .. n |-> Sent(fr \o more, f)] = [f \in 1 .. n |-> Sent(fr, f)]
  BY <1>3, <1>4, Zenon
<1>6. Flat(fr \o more, n) = Flat(fr, n)
  BY <1>5, Zenon DEF Flat
<1> QED
  BY <1>1, <1>2, <1>3, <1>6, Zenon DEF End

-----------------------------------------------------------------------------
(* Which frames have ended *)

\* The frames a + 1 .. b, and those that have ended in t bytes.
Upto(a, b) == [i \in 1 .. b - a |-> a + i]
Ended(fr, h, t) ==
  /\ h \in 0 .. Len(fr) /\ End(fr, h) <= t
  /\ h < Len(fr) => t < End(fr, h + 1)

\* There is a last frame that has ended.
LEMMA EndedExists ==
  ASSUME NEW fr \in Seq(Message), NEW t \in Nat
  PROVE  \E h \in 0 .. Len(fr) : Ended(fr, h, t)
<1> DEFINE U == {n \in Nat : n <= Len(fr) /\ (n < Len(fr) => t < End(fr, n + 1))}
<1>1. Len(fr) \in U /\ U \subseteq Nat
  OBVIOUS
<1>2. U # {}
  BY <1>1
<1> HIDE DEF U
<1>3. PICK h \in U : \A k \in U : h <= k
  BY <1>1, <1>2, MinNat
<1>4. h \in Nat /\ h <= Len(fr) /\ (h < Len(fr) => t < End(fr, h + 1))
  BY <1>3 DEF U
<1>5. End(fr, h) <= t
  <2>1. CASE h = 0
    <3>1. End(fr, h) = 0
      BY <2>1, EndType
    <3> QED
      BY <3>1
  <2>2. CASE h # 0
    <3>1. h - 1 \in Nat /\ ~(h <= h - 1) /\ h - 1 <= Len(fr) /\ (h - 1) + 1 = h
      BY <1>4, <2>2
    <3>2. h - 1 \notin U
      BY <1>3, <3>1
    <3>3. ~(t < End(fr, h))
      BY <3>1, <3>2 DEF U
    <3>4. End(fr, h) \in Nat
      BY <1>4, EndType
    <3> QED
      BY <3>3, <3>4
  <2> QED
    BY <2>1, <2>2
<1> QED
  BY <1>4, <1>5 DEF Ended

\* Frames end in t bytes or do not.
LEMMA EndedIff ==
  ASSUME NEW fr \in Seq(Message), NEW t \in Nat, NEW h, Ended(fr, h, t),
         NEW f \in 1 .. Len(fr)
  PROVE  End(fr, f) <= t <=> f <= h
<1>1. h \in 0 .. Len(fr) /\ End(fr, h) <= t /\ (h < Len(fr) => t < End(fr, h + 1))
      /\ h \in Nat /\ f \in Nat /\ SizeBytes \in Nat
  BY StreamAssumption DEF Ended
<1>2. End(fr, f) \in Nat /\ End(fr, h) \in Nat
  BY <1>1, EndType
<1>3. CASE f < h
  <2>1. End(fr, f) + SizeBytes < End(fr, h)
    BY <1>1, <1>3, EndOrder
  <2> QED
    BY <1>1, <1>2, <1>3, <2>1
<1>4. CASE f = h
  BY <1>1, <1>2, <1>4
<1>5. CASE h < f
  <2>1. End(fr, h + 1) <= End(fr, f)
    BY <1>1, <1>5, EndOrder
  <2>2. h < Len(fr) /\ End(fr, h + 1) \in Nat
    BY <1>1, <1>5, EndType
  <2> QED
    BY <1>1, <1>2, <1>5, <2>1, <2>2
<1> QED
  BY <1>1, <1>3, <1>4, <1>5

\* Upto, as a sequence.
LEMMA UptoSeq ==
  ASSUME NEW a \in Nat, NEW b \in Nat, a <= b
  PROVE  /\ Upto(a, b) \in Seq(a + 1 .. b) /\ Upto(a, b) \in Seq(Nat)
         /\ Len(Upto(a, b)) = b - a
<1>1. b - a \in Nat
  OBVIOUS
<1>2. [i \in 1 .. b - a |-> a + i] \in Seq(a + 1 .. b)
  BY <1>1
<1>3. [i \in 1 .. b - a |-> a + i] \in Seq(Nat)
  BY <1>1
<1>4. Len([i \in 1 .. b - a |-> a + i]) = b - a
  BY <1>1
<1> QED
  BY <1>2, <1>3, <1>4 DEF Upto

\* No frames between a frame and itself.
LEMMA UptoNone == ASSUME NEW a \in Nat PROVE Upto(a, a) = <<>>
  BY DEF Upto

\* One frame more.
LEMMA UptoAppend ==
  ASSUME NEW a \in Nat, NEW b \in Nat, a <= b
  PROVE  Upto(a, b + 1) = Append(Upto(a, b), b + 1)
<1>1. b - a \in Nat /\ (b + 1) - a = (b - a) + 1 /\ a + ((b - a) + 1) = b + 1
  OBVIOUS
<1> DEFINE n == b - a
<1>2. [i \in 1 .. n + 1 |-> a + i] = Append([i \in 1 .. n |-> a + i], a + (n + 1))
  BY <1>1
<1> QED
  BY <1>1, <1>2 DEF Upto

\* The frames up to one in between, and those behind it.
LEMMA UptoConcat ==
  ASSUME NEW a \in Nat, NEW b \in Nat, NEW c \in Nat, a <= b, b <= c
  PROVE  Upto(a, c) = Upto(a, b) \o Upto(b, c)
<1>1. a <= c
  OBVIOUS
<1>2. Upto(a, b) \in Seq(Nat) /\ Len(Upto(a, b)) = b - a
  BY UptoSeq
<1>3. Upto(b, c) \in Seq(Nat) /\ Len(Upto(b, c)) = c - b
  BY UptoSeq
<1>4. Upto(a, c) \in Seq(Nat) /\ Len(Upto(a, c)) = c - a
  BY <1>1, UptoSeq
<1>5. Upto(a, b) \o Upto(b, c) \in Seq(Nat)
  BY <1>2, <1>3, ConcatProperties
<1>6. Len(Upto(a, b) \o Upto(b, c)) = Len(Upto(a, b)) + Len(Upto(b, c))
  BY <1>2, <1>3, ConcatProperties
<1>7. Len(Upto(a, b) \o Upto(b, c)) = c - a
  BY <1>2, <1>3, <1>6
<1>8. ASSUME NEW i \in 1 .. c - a PROVE Upto(a, c)[i] = (Upto(a, b) \o Upto(b, c))[i]
  <2>1. (Upto(a, b) \o Upto(b, c))[i] =
          IF i <= b - a THEN Upto(a, b)[i] ELSE Upto(b, c)[i - (b - a)]
    <3>1. i \in 1 .. Len(Upto(a, b)) + Len(Upto(b, c))
      BY <1>2, <1>3
    <3>2. (Upto(a, b) \o Upto(b, c))[i] =
            IF i <= Len(Upto(a, b)) THEN Upto(a, b)[i]
            ELSE Upto(b, c)[i - Len(Upto(a, b))]
      BY <1>2, <1>3, <3>1, ConcatProperties
    <3> QED
      BY <1>2, <3>2
  <2>2. i <= b - a => Upto(a, b)[i] = a + i
    BY DEF Upto
  <2>3. ~(i <= b - a) => Upto(b, c)[i - (b - a)] = a + i
    BY DEF Upto
  <2>4. Upto(a, c)[i] = a + i
    BY DEF Upto
  <2> QED
    BY <2>1, <2>2, <2>3, <2>4
<1> QED
  BY <1>4, <1>7, <1>8, <1>5, SeqEqual

\* EndingIn, of the first m frames.
Ends(fr, m, a, b) ==
  FlattenSeq([f \in 1 .. m |-> IF End(fr, f) \in a .. b THEN <<f>> ELSE <<>>])

\* The frames whose last byte is read are those up to the last that ended.
LEMMA EndsIs ==
  ASSUME NEW fr \in Seq(Message), NEW t \in Nat, NEW n \in Nat,
         NEW h, Ended(fr, h, t), NEW k, Ended(fr, k, t + n)
  PROVE  h <= k /\ Ends(fr, Len(fr), t + 1, t + n) = Upto(h, k)
<1> DEFINE F(f) == IF End(fr, f) \in t + 1 .. t + n THEN <<f>> ELSE <<>>
           S == 1 .. Len(fr)
<1>1. h \in 0 .. Len(fr) /\ k \in 0 .. Len(fr) /\ h \in Nat /\ k \in Nat
      /\ t + n \in Nat /\ Len(fr) \in Nat
  BY DEF Ended
<1>2. ASSUME NEW f \in 1 .. Len(fr)
      PROVE  End(fr, f) \in t + 1 .. t + n <=> h < f /\ f <= k
  <2>1. (End(fr, f) <= t <=> f <= h) /\ (End(fr, f) <= t + n <=> f <= k)
    BY <1>1, EndedIff
  <2>2. End(fr, f) \in Nat
    BY EndType
  <2> QED
    BY <1>1, <2>1, <2>2
<1>3. h <= k
  <2>1. CASE h = 0
    BY <1>1, <2>1
  <2>2. CASE h # 0
    <3>1. h \in 1 .. Len(fr) /\ h <= h
      BY <1>1, <2>2
    <3>2. End(fr, h) <= t /\ End(fr, h) \in Nat
      BY <3>1, EndedIff, EndType
    <3>3. End(fr, h) <= t + n
      BY <3>2
    <3> QED
      BY <1>1, <3>1, <3>3, EndedIff
  <2> QED
    BY <2>1, <2>2
<1>4. ASSUME NEW f \in 1 .. Len(fr)
      PROVE  F(f) = (IF h < f /\ f <= k THEN <<f>> ELSE <<>>) /\ F(f) \in Seq(S)
  <2>1. <<>> \in Seq(S) /\ <<f>> \in Seq(S)
    OBVIOUS
  <2>2. F(f) = (IF h < f /\ f <= k THEN <<f>> ELSE <<>>)
    BY <1>2, Zenon
  <2>3. F(f) = <<f>> \/ F(f) = <<>>
    BY Zenon
  <2> QED
    BY <2>1, <2>2, <2>3, Zenon
<1> HIDE DEF F
<1> DEFINE E(m) == FlattenSeq([f \in 1 .. m |-> F(f)])
           V(m) == IF m <= h THEN <<>> ELSE IF m <= k THEN Upto(h, m) ELSE Upto(h, k)
           U == {m \in Nat : m <= Len(fr) => E(m) = V(m)}
<1>5. 0 \in U
  <2>1. [f \in 1 .. 0 |-> F(f)] = <<>>
    OBVIOUS
  <2>2. E(0) = <<>>
    BY <2>1, FlattenEmpty
  <2> QED
    BY <1>1, <2>2
<1>6. ASSUME NEW m \in Nat, m + 1 <= Len(fr)
      PROVE  E(m + 1) = E(m) \o F(m + 1)
  <2> DEFINE ss == [f \in 1 .. m |-> F(f)]
             tt == [f \in 1 .. m + 1 |-> F(f)]
  <2>1. \A f \in 1 .. m + 1 : F(f) \in Seq(S)
    BY <1>4, <1>6
  <2>2. ss \in Seq(Seq(S)) /\ F(m + 1) \in Seq(S)
    BY <2>1
  <2>3. tt = Append(ss, F(m + 1))
    OBVIOUS
  <2> HIDE DEF ss, tt, S
  <2>4. FlattenSeq(Append(ss, F(m + 1))) = FlattenSeq(ss) \o F(m + 1)
    BY <2>2, FlattenAppend
  <2> QED
    BY <2>3, <2>4, Zenon DEF ss, tt
<1>7. ASSUME NEW m \in Nat, m + 1 <= Len(fr)
      PROVE  V(m + 1) = V(m) \o F(m + 1)
  <2>1. F(m + 1) = (IF h < m + 1 /\ m + 1 <= k THEN <<m + 1>> ELSE <<>>)
    BY <1>4, <1>7
  <2>2. CASE m + 1 <= h
    <3>1. V(m) = <<>> /\ V(m + 1) = <<>> /\ F(m + 1) = <<>>
      BY <1>1, <2>1, <2>2
    <3>2. <<>> \o <<>> = <<>>
      OBVIOUS
    <3> QED
      BY <3>1, <3>2, Zenon
  <2>3. CASE m + 1 > h /\ m + 1 <= k
    <3>1. h <= m /\ m <= k
      BY <1>1, <2>3
    <3>2. Upto(h, m + 1) = Append(Upto(h, m), m + 1) /\ Upto(h, m) \in Seq(Nat)
      BY <1>1, <3>1, UptoAppend, UptoSeq
    <3>3. V(m) = Upto(h, m)
      <4>1. CASE m <= h
        <5>1. m = h
          BY <1>1, <3>1, <4>1
        <5> QED
          BY <4>1, <5>1, UptoNone
      <4>2. CASE ~(m <= h)
        BY <3>1, <4>2
      <4> QED
        BY <4>1, <4>2
    <3>4. Append(Upto(h, m), m + 1) = Upto(h, m) \o <<m + 1>>
      BY <3>2
    <3>5. F(m + 1) = <<m + 1>> /\ V(m + 1) = Upto(h, m + 1)
      BY <1>1, <2>1, <2>3
    <3> QED
      BY <3>2, <3>3, <3>4, <3>5, Zenon
  <2>4. CASE m + 1 > h /\ m + 1 > k
    <3>1. F(m + 1) = <<>> /\ V(m + 1) = Upto(h, k)
      BY <1>1, <2>1, <2>4
    <3>2. Upto(h, k) \in Seq(Nat)
      BY <1>1, <1>3, UptoSeq
    <3>3. V(m) = Upto(h, k)
      <4>1. CASE m <= h
        <5>1. m = h /\ k = h
          BY <1>1, <1>3, <2>4, <4>1
        <5> QED
          BY <1>1, <4>1, <5>1, UptoNone
      <4>2. CASE ~(m <= h) /\ m <= k
        <5>1. m = k
          BY <1>1, <2>4, <4>2
        <5> QED
          BY <4>2, <5>1
      <4>3. CASE ~(m <= h) /\ ~(m <= k)
        BY <4>3
      <4> QED
        BY <4>1, <4>2, <4>3
    <3>4. Upto(h, k) \o <<>> = Upto(h, k)
      BY <3>2
    <3> QED
      BY <3>1, <3>3, <3>4, Zenon
  <2>5. m + 1 <= h \/ (m + 1 > h /\ m + 1 <= k) \/ (m + 1 > h /\ m + 1 > k)
    BY <1>1
  <2> QED
    BY <2>2, <2>3, <2>4, <2>5, Zenon
<1> HIDE DEF E, V
<1>8. ASSUME NEW m \in Nat, m \in U PROVE m + 1 \in U
  <2>1. ASSUME m + 1 <= Len(fr) PROVE E(m + 1) = V(m + 1)
    <3>1. E(m) = V(m)
      BY <1>1, <1>8, <2>1
    <3>2. E(m + 1) = E(m) \o F(m + 1) /\ V(m + 1) = V(m) \o F(m + 1)
      BY <1>6, <1>7, <2>1
    <3> QED
      BY <3>1, <3>2, Zenon
  <2>2. m + 1 \in Nat
    OBVIOUS
  <2> QED
    BY <2>1, <2>2
<1> HIDE DEF U
<1>9. Nat \subseteq U
  BY <1>5, <1>8, Induct
<1>10. E(Len(fr)) = V(Len(fr))
  <2>1. Len(fr) <= Len(fr) /\ Len(fr) \in U
    BY <1>1, <1>9
  <2> QED
    BY <2>1 DEF U
<1>11. V(Len(fr)) = Upto(h, k)
  <2>1. CASE Len(fr) <= h
    <3>1. h = k
      BY <1>1, <1>3, <2>1
    <3> QED
      BY <1>1, <2>1, <3>1, UptoNone DEF V
  <2>2. CASE ~(Len(fr) <= h) /\ Len(fr) <= k
    <3>1. Len(fr) = k
      BY <1>1, <2>2
    <3> QED
      BY <2>2, <3>1 DEF V
  <2>3. CASE ~(Len(fr) <= h) /\ ~(Len(fr) <= k)
    BY <2>3 DEF V
  <2> QED
    BY <2>1, <2>2, <2>3
<1>12. Ends(fr, Len(fr), t + 1, t + n) = E(Len(fr))
  BY Zenon DEF Ends, E, F
<1> QED
  BY <1>3, <1>10, <1>11, <1>12, Zenon

-----------------------------------------------------------------------------
(* What is decoded, and what a client's queue has *)

\* Decodes and HandleFrames, of the frames fr.
DecodesIn(fr, raw) ==
  /\ raw # <<>>
  /\ raw = SubSeq(Sent(fr, raw[1][1]), SizeBytes + 1, SizeBytes + SizeOf(fr, raw[1][1]))
Handled(fr, raws) ==
  FlattenSeq([i \in DOMAIN raws |->
                IF DecodesIn(fr, raws[i]) THEN <<raws[i][1][1]>> ELSE <<>>])

\* As maps.
DecodeMap(fr, n) ==
  [raw \in Seq(Places(n)) |-> IF DecodesIn(fr, raw) THEN <<raw[1][1]>> ELSE <<>>]
QueueMap(n) == [q \in 0 .. n |-> IF q = None THEN <<>> ELSE <<q>>]

\* The first byte of what decodes says which frame it is of.
LEMMA DecodeMaps ==
  ASSUME NEW fr \in Seq(Message), NEW n \in Nat
  PROVE  /\ Maps(DecodeMap(fr, n), Seq(Places(n)), 1 .. n)
         /\ \A raw \in Seq(Places(n)) : Len(DecodeMap(fr, n)[raw]) <= 1
<1>1. ASSUME NEW raw \in Seq(Places(n))
      PROVE  DecodeMap(fr, n)[raw] \in Seq(1 .. n) /\ Len(DecodeMap(fr, n)[raw]) <= 1
  <2>1. DecodeMap(fr, n)[raw] = IF DecodesIn(fr, raw) THEN <<raw[1][1]>> ELSE <<>>
    BY DEF DecodeMap
  <2>2. CASE DecodesIn(fr, raw)
    <3>1. raw # <<>>
      BY <2>2 DEF DecodesIn
    <3>2. raw[1] \in Places(n)
      BY <3>1
    <3>3. raw[1][1] \in 1 .. n
      BY <3>2 DEF Places
    <3>4. \A x \in 1 .. n : <<x>> \in Seq(1 .. n) /\ Len(<<x>>) <= 1
      OBVIOUS
    <3> QED
      BY <2>1, <2>2, <3>3, <3>4, Zenon
  <2>3. CASE ~DecodesIn(fr, raw)
    <3>1. <<>> \in Seq(1 .. n) /\ Len(<<>>) <= 1
      OBVIOUS
    <3> QED
      BY <2>1, <2>3, <3>1, Zenon
  <2> QED
    BY <2>2, <2>3
<1>2. DecodeMap(fr, n) = [raw \in Seq(Places(n)) |-> DecodeMap(fr, n)[raw]]
  BY DEF DecodeMap
<1>3. DecodeMap(fr, n) \in [Seq(Places(n)) -> Seq(1 .. n)]
  BY <1>1, <1>2
<1> QED
  BY <1>1, <1>3 DEF Maps

\* Each entry of the queue is a frame or none.
LEMMA QueueMaps ==
  ASSUME NEW n \in Nat
  PROVE  Maps(QueueMap(n), 0 .. n, 1 .. n)
<1>1. ASSUME NEW q \in 0 .. n PROVE QueueMap(n)[q] \in Seq(1 .. n)
  <2>1. QueueMap(n)[q] = IF q = None THEN <<>> ELSE <<q>>
    BY DEF QueueMap
  <2>2. CASE q = None
    <3>1. <<>> \in Seq(1 .. n)
      OBVIOUS
    <3> QED
      BY <2>1, <2>2, <3>1, Zenon
  <2>3. CASE q # None
    <3>1. q \in 1 .. n
      BY <2>3 DEF None
    <3>2. <<q>> \in Seq(1 .. n)
      BY <3>1
    <3> QED
      BY <2>1, <2>3, <3>2, Zenon
  <2> QED
    BY <2>2, <2>3
<1>2. QueueMap(n) = [q \in 0 .. n |-> QueueMap(n)[q]]
  BY DEF QueueMap
<1> QED
  BY <1>1, <1>2 DEF Maps

\* handle_frames maps each raw frame to what decodes, and flattens that.
LEMMA HandledIs ==
  ASSUME NEW fr \in Seq(Message), NEW n \in Nat, NEW raws \in Seq(Seq(Places(n)))
  PROVE  Handled(fr, raws) = FlatMap(DecodeMap(fr, n), raws)
<1>1. \A i \in DOMAIN raws : raws[i] \in Seq(Places(n))
  OBVIOUS
<1>2. \A i \in DOMAIN raws : DecodeMap(fr, n)[raws[i]]
        = IF DecodesIn(fr, raws[i]) THEN <<raws[i][1][1]>> ELSE <<>>
  BY <1>1, Zenon DEF DecodeMap
<1>3. [i \in DOMAIN raws |-> IF DecodesIn(fr, raws[i]) THEN <<raws[i][1][1]>> ELSE <<>>]
        = [i \in DOMAIN raws |-> DecodeMap(fr, n)[raws[i]]]
  BY <1>2, Zenon
<1> QED
  BY <1>3, Zenon DEF Handled, FlatMap

\* FramesIn does the same with the queue.
LEMMA QueueIs ==
  ASSUME NEW n \in Nat, NEW q \in Seq(0 .. n)
  PROVE  FramesIn(q) = FlatMap(QueueMap(n), q)
<1>1. \A i \in DOMAIN q : q[i] \in 0 .. n
  OBVIOUS
<1>2. \A i \in DOMAIN q : QueueMap(n)[q[i]] = IF q[i] = None THEN <<>> ELSE <<q[i]>>
  BY <1>1, Zenon DEF QueueMap
<1>3. [i \in DOMAIN q |-> IF q[i] = None THEN <<>> ELSE <<q[i]>>]
        = [i \in DOMAIN q |-> QueueMap(n)[q[i]]]
  BY <1>2, Zenon
<1> QED
  BY <1>3, Zenon DEF FramesIn, FlatMap

\* Frames are decoded one by one.
LEMMA HandledType ==
  ASSUME NEW fr \in Seq(Message), NEW n \in Nat, NEW raws \in Seq(Seq(Places(n)))
  PROVE  Handled(fr, raws) \in Seq(1 .. n)
<1>1. FlatMap(DecodeMap(fr, n), raws) \in Seq(1 .. n)
  BY DecodeMaps, FlatMapType
<1> QED
  BY <1>1, HandledIs, Zenon

\* No more frames are handled than are found.
LEMMA HandledShort ==
  ASSUME NEW fr \in Seq(Message), NEW n \in Nat, NEW raws \in Seq(Seq(Places(n)))
  PROVE  Len(Handled(fr, raws)) <= Len(raws)
<1>1. Len(FlatMap(DecodeMap(fr, n), raws)) <= Len(raws)
  BY DecodeMaps, FlatMapShort
<1> QED
  BY <1>1, HandledIs, Zenon

\* Nothing staged, nothing handled.
LEMMA HandledNone == ASSUME NEW fr PROVE Handled(fr, <<>>) = <<>>
<1>1. [i \in DOMAIN <<>> |-> IF DecodesIn(fr, <<>>[i]) THEN <<<<>>[i][1][1]>> ELSE <<>>] = <<>>
  OBVIOUS
<1> QED
  BY <1>1, FlattenEmpty DEF Handled

\* What is handled of two lists of raw frames.
LEMMA HandledConcat ==
  ASSUME NEW fr \in Seq(Message), NEW n \in Nat, NEW v \in Seq(Seq(Places(n))),
         NEW w \in Seq(Seq(Places(n)))
  PROVE  Handled(fr, v \o w) = Handled(fr, v) \o Handled(fr, w)
<1>1. FlatMap(DecodeMap(fr, n), v \o w)
        = FlatMap(DecodeMap(fr, n), v) \o FlatMap(DecodeMap(fr, n), w)
  BY DecodeMaps, FlatMapConcat
<1>2. v \o w \in Seq(Seq(Places(n)))
  OBVIOUS
<1>3. \A u \in Seq(Seq(Places(n))) : Handled(fr, u) = FlatMap(DecodeMap(fr, n), u)
  BY HandledIs
<1> QED
  BY <1>1, <1>2, <1>3, Zenon

\* One raw frame more.
LEMMA HandledAppend ==
  ASSUME NEW fr \in Seq(Message), NEW n \in Nat, NEW v \in Seq(Seq(Places(n))),
         NEW raw \in Seq(Places(n)), DecodesIn(fr, raw)
  PROVE  Handled(fr, Append(v, raw)) = Handled(fr, v) \o <<raw[1][1]>>
<1>1. FlatMap(DecodeMap(fr, n), Append(v, raw))
        = FlatMap(DecodeMap(fr, n), v) \o DecodeMap(fr, n)[raw]
  BY DecodeMaps, FlatMapAppend
<1>2. Append(v, raw) \in Seq(Seq(Places(n)))
  OBVIOUS
<1>3. \A u \in Seq(Seq(Places(n))) : Handled(fr, u) = FlatMap(DecodeMap(fr, n), u)
  BY HandledIs
<1>4. DecodeMap(fr, n)[raw] = <<raw[1][1]>>
  BY Zenon DEF DecodeMap
<1> QED
  BY <1>1, <1>2, <1>3, <1>4, Zenon

\* Frames that are sent later change nothing of it.
LEMMA HandledMore ==
  ASSUME NEW fr \in Seq(Message), NEW more \in Seq(Message),
         NEW raws \in Seq(Seq(Places(Len(fr))))
  PROVE  /\ \A raw \in Seq(Places(Len(fr))) :
              DecodesIn(fr \o more, raw) <=> DecodesIn(fr, raw)
         /\ Handled(fr \o more, raws) = Handled(fr, raws)
<1>1. ASSUME NEW raw \in Seq(Places(Len(fr)))
      PROVE  DecodesIn(fr \o more, raw) <=> DecodesIn(fr, raw)
  <2>1. CASE raw = <<>>
    BY <2>1 DEF DecodesIn
  <2>2. CASE raw # <<>>
    <3>1. raw[1] \in Places(Len(fr))
      BY <2>2
    <3>2. raw[1][1] \in 1 .. Len(fr)
      BY <3>1 DEF Places
    <3>3. 0 \in 0 .. Len(fr)
      OBVIOUS
    <3>4. /\ \A f \in 1 .. Len(fr) : SizeOf(fr \o more, f) = SizeOf(fr, f)
          /\ \A f \in 1 .. Len(fr) : Sent(fr \o more, f) = Sent(fr, f)
      BY <3>3, MoreFrames
    <3> QED
      BY <3>2, <3>4, Zenon DEF DecodesIn
  <2> QED
    BY <2>1, <2>2
<1>2. \A i \in DOMAIN raws : raws[i] \in Seq(Places(Len(fr)))
  OBVIOUS
<1>3. \A i \in DOMAIN raws : DecodesIn(fr \o more, raws[i]) <=> DecodesIn(fr, raws[i])
  BY <1>1, <1>2, Zenon
<1>4. [i \in DOMAIN raws |->
         IF DecodesIn(fr \o more, raws[i]) THEN <<raws[i][1][1]>> ELSE <<>>]
      = [i \in DOMAIN raws |-> IF DecodesIn(fr, raws[i]) THEN <<raws[i][1][1]>> ELSE <<>>]
  BY <1>3, Zenon
<1> QED
  BY <1>1, <1>4, Zenon DEF Handled

\* The bytes 1 .. of a frame, all of them, decode to the frame.
BytesFrom(bytes, f, k) == \A i \in 1 .. Len(bytes) : bytes[i] = <<f, i + k - 1>>

\* All bytes of a frame decode to the frame.
LEMMA WholeDecodes ==
  ASSUME NEW fr \in Seq(Message), NEW f \in 1 .. Len(fr),
         NEW raw \in Seq(Places(Len(fr))), Len(raw) = SizeOf(fr, f), BytesFrom(raw, f, 1)
  PROVE  DecodesIn(fr, raw) /\ raw[1][1] = f
<1>1. SizeOf(fr, f) \in Nat /\ SizeOf(fr, f) > 0 /\ SizeBytes \in Nat
  BY SizeType, StreamAssumption
<1>2. /\ Sent(fr, f) \in Seq(Places(Len(fr)))
      /\ Len(Sent(fr, f)) = SizeBytes + SizeOf(fr, f)
      /\ \A k \in 1 .. SizeBytes + SizeOf(fr, f) :
           Sent(fr, f)[k] = <<f, k - SizeBytes>>
  BY SentType
<1> DEFINE p == SubSeq(Sent(fr, f), SizeBytes + 1, SizeBytes + SizeOf(fr, f))
<1>3. /\ p \in Seq(Places(Len(fr)))
      /\ Len(p) = (SizeBytes + SizeOf(fr, f)) - (SizeBytes + 1) + 1
      /\ \A i \in 1 .. (SizeBytes + SizeOf(fr, f)) - (SizeBytes + 1) + 1 :
           p[i] = Sent(fr, f)[(SizeBytes + 1) + i - 1]
  BY <1>1, <1>2, Piece
<1> HIDE DEF p
<1>4. Len(p) = SizeOf(fr, f)
  BY <1>1, <1>3
<1>5. ASSUME NEW i \in 1 .. SizeOf(fr, f) PROVE raw[i] = p[i]
  <2>1. i \in Int /\ SizeBytes + i \in 1 .. SizeBytes + SizeOf(fr, f)
        /\ (SizeBytes + 1) + i - 1 = SizeBytes + i /\ (SizeBytes + i) - SizeBytes = i
        /\ i + 1 - 1 = i
        /\ i \in 1 .. (SizeBytes + SizeOf(fr, f)) - (SizeBytes + 1) + 1
    BY <1>1
  <2>2. p[i] = <<f, i>>
    BY <1>2, <1>3, <2>1
  <2>3. raw[i] = <<f, i>>
    BY <2>1 DEF BytesFrom
  <2> QED
    BY <2>2, <2>3
<1>6. raw = p
  BY <1>3, <1>4, <1>5, SeqEqual
<1>7. raw # <<>> /\ raw[1] = <<f, 1>>
  BY <1>1 DEF BytesFrom
<1>8. raw[1][1] = f
  BY <1>7
<1> QED
  BY <1>6, <1>7, <1>8, Zenon DEF DecodesIn, p

\* The frames of a queue.
LEMMA QueueType ==
  ASSUME NEW n \in Nat, NEW q \in Seq(0 .. n)
  PROVE  FramesIn(q) \in Seq(1 .. n)
<1>1. FlatMap(QueueMap(n), q) \in Seq(1 .. n)
  BY QueueMaps, FlatMapType
<1> QED
  BY <1>1, QueueIs, Zenon

\* The frames of two stretches of the output.
LEMMA QueueConcat ==
  ASSUME NEW n \in Nat, NEW q \in Seq(0 .. n), NEW s \in Seq(1 .. n)
  PROVE  FramesIn(q \o s) = FramesIn(q) \o s
<1>1. s \in Seq(0 .. n)
  OBVIOUS
<1>2. FlatMap(QueueMap(n), q \o s)
        = FlatMap(QueueMap(n), q) \o FlatMap(QueueMap(n), s)
  BY <1>1, QueueMaps, FlatMapConcat
<1>3. q \o s \in Seq(0 .. n)
  BY <1>1
<1>4. \A e \in 1 .. n : QueueMap(n)[e] = <<e>>
  BY DEF QueueMap, None
<1>5. 1 .. n \subseteq 0 .. n
  OBVIOUS
<1>6. FlatMap(QueueMap(n), s) = s
  BY <1>4, <1>5, QueueMaps, FlatMapSame
<1>7. \A u \in Seq(0 .. n) : FramesIn(u) = FlatMap(QueueMap(n), u)
  BY QueueIs
<1> QED
  BY <1>2, <1>3, <1>6, <1>7, Zenon

\* The end marker is no frame.
LEMMA QueueEnd ==
  ASSUME NEW n \in Nat, NEW q \in Seq(0 .. n)
  PROVE  FramesIn(Append(q, None)) = FramesIn(q)
<1>1. None \in 0 .. n /\ Append(q, None) \in Seq(0 .. n)
  BY DEF None
<1>2. FlatMap(QueueMap(n), Append(q, None)) = FlatMap(QueueMap(n), q) \o QueueMap(n)[None]
  BY <1>1, QueueMaps, FlatMapAppend
<1>3. QueueMap(n)[None] = <<>>
  BY <1>1 DEF QueueMap
<1>4. \A u \in Seq(0 .. n) : FramesIn(u) = FlatMap(QueueMap(n), u)
  BY QueueIs
<1>5. FlatMap(QueueMap(n), q) \in Seq(1 .. n)
  BY QueueMaps, FlatMapType
<1>6. FlatMap(QueueMap(n), q) \o <<>> = FlatMap(QueueMap(n), q)
  BY <1>5
<1> QED
  BY <1>1, <1>2, <1>3, <1>4, <1>6, Zenon

-----------------------------------------------------------------------------
(* The buffer of a stream *)

\* The buffer has what was received of t bytes behind frame g, or behind the
\* header of the next one; h frames have ended in them.
StreamAt(fr, buf, sz, fresh, t, g, h) ==
  /\ h \in 0 .. Len(fr) /\ g \in 0 .. h /\ Ended(fr, h, t)
  /\ Len(buf) <= t /\ t <= End(fr, Len(fr))
  /\ \A i \in 1 .. Len(buf) : buf[i] = Flat(fr, Len(fr))[t - Len(buf) + i]
  /\ fresh => t - Len(buf) = End(fr, g)
  /\ ~fresh => /\ g < Len(fr) /\ sz = SizeOf(fr, g + 1)
               /\ t - Len(buf) = End(fr, g) + SizeBytes

\* A message more is sent.
LEMMA StreamMore ==
  ASSUME NEW fr \in Seq(Message), NEW more \in Seq(Message), NEW S, NEW buf \in Seq(S),
         NEW sz, NEW fresh \in BOOLEAN, NEW t \in Nat, NEW g, NEW h,
         StreamAt(fr, buf, sz, fresh, t, g, h)
  PROVE  StreamAt(fr \o more, buf, sz, fresh, t, g, h)
<1> DEFINE fs == fr \o more
<1>1. fs \in Seq(Message) /\ Len(fr) \in Nat /\ Len(fs) \in Nat /\ Len(fr) <= Len(fs)
  OBVIOUS
<1>2. \A n \in 0 .. Len(fr) : Flat(fs, n) = Flat(fr, n) /\ End(fs, n) = End(fr, n)
  BY MoreFrames
<1>3. \A f \in 1 .. Len(fr) : SizeOf(fs, f) = SizeOf(fr, f)
  <2>1. 0 \in 0 .. Len(fr)
    OBVIOUS
  <2> QED
    BY <2>1, MoreFrames
<1> HIDE DEF fs
<1>4. /\ h \in 0 .. Len(fr) /\ g \in 0 .. h /\ g \in 0 .. Len(fr) /\ Ended(fr, h, t)
      /\ Len(buf) <= t /\ t <= End(fr, Len(fr))
      /\ \A i \in 1 .. Len(buf) : buf[i] = Flat(fr, Len(fr))[t - Len(buf) + i]
      /\ fresh => t - Len(buf) = End(fr, g)
      /\ ~fresh => /\ g < Len(fr) /\ sz = SizeOf(fr, g + 1)
                   /\ t - Len(buf) = End(fr, g) + SizeBytes
  BY <1>1 DEF StreamAt
<1>5. /\ End(fr, Len(fr)) \in Nat /\ End(fs, Len(fs)) \in Nat
      /\ End(fs, Len(fr)) = End(fr, Len(fr)) /\ SizeBytes \in Nat
  BY <1>1, <1>2, EndType, StreamAssumption
<1>6. Len(fr) < Len(fs) =>
        /\ End(fs, Len(fr)) + SizeBytes < End(fs, Len(fs))
        /\ End(fs, Len(fr)) + SizeBytes < End(fs, Len(fr) + 1)
        /\ End(fs, Len(fr) + 1) \in Nat
  <2>1. ASSUME Len(fr) < Len(fs)
        PROVE  End(fs, Len(fr)) + SizeBytes < End(fs, Len(fs))
    BY <1>1, <2>1, EndOrder
  <2>2. ASSUME Len(fr) < Len(fs)
        PROVE  /\ End(fs, Len(fr)) + SizeBytes < End(fs, Len(fr) + 1)
               /\ End(fs, Len(fr) + 1) \in Nat
    <3>1. Len(fr) + 1 \in Nat /\ Len(fr) < Len(fr) + 1 /\ Len(fr) + 1 <= Len(fs)
          /\ Len(fr) + 1 \in 0 .. Len(fs)
      BY <1>1, <2>2
    <3> QED
      BY <1>1, <3>1, EndOrder, EndType
  <2> QED
    BY <2>1, <2>2
<1>7. t <= End(fs, Len(fs))
  <2>1. CASE Len(fr) < Len(fs)
    BY <1>4, <1>5, <1>6, <2>1
  <2>2. CASE Len(fr) = Len(fs)
    BY <1>4, <1>5, <2>2
  <2> QED
    BY <1>1, <2>1, <2>2
<1>8. Ended(fs, h, t)
  <2>1. h \in 0 .. Len(fs) /\ End(fs, h) <= t
    BY <1>1, <1>2, <1>4 DEF Ended
  <2>2. ASSUME h < Len(fs) PROVE t < End(fs, h + 1)
    <3>1. CASE h < Len(fr)
      <4>1. h + 1 \in 0 .. Len(fr) /\ t < End(fr, h + 1)
        BY <1>1, <1>4, <3>1 DEF Ended
      <4> QED
        BY <1>2, <4>1
    <3>2. CASE h = Len(fr)
      BY <1>4, <1>5, <1>6, <2>2, <3>2
    <3> QED
      BY <1>1, <1>4, <3>1, <3>2
  <2> QED
    BY <2>1, <2>2 DEF Ended
<1>9. ASSUME NEW i \in 1 .. Len(buf)
      PROVE  buf[i] = Flat(fs, Len(fs))[t - Len(buf) + i]
  <2>1. t - Len(buf) + i \in 1 .. End(fs, Len(fr)) /\ Len(buf) \in Nat
    BY <1>4, <1>5
  <2>2. Flat(fs, Len(fs))[t - Len(buf) + i] = Flat(fs, Len(fr))[t - Len(buf) + i]
    BY <1>1, <2>1, FlatPrefix, SMTT(30)
  <2>3. Flat(fs, Len(fr)) = Flat(fr, Len(fr))
    BY <1>1, <1>2
  <2> QED
    BY <1>4, <2>2, <2>3
<1>10. h \in 0 .. Len(fs)
  BY <1>1, <1>4
<1>11. fresh => t - Len(buf) = End(fs, g)
  BY <1>2, <1>4
<1>12. ~fresh => /\ g < Len(fs) /\ sz = SizeOf(fs, g + 1)
                 /\ t - Len(buf) = End(fs, g) + SizeBytes
  <2>1. ASSUME ~fresh PROVE g + 1 \in 1 .. Len(fr) /\ g < Len(fs)
    BY <1>1, <1>4, <2>1
  <2> QED
    BY <1>2, <1>3, <1>4, <2>1
<1>13. StreamAt(fs, buf, sz, fresh, t, g, h)
  BY <1>4, <1>7, <1>8, <1>9, <1>10, <1>11, <1>12 DEF StreamAt
<1> QED
  BY <1>13 DEF fs

\* The next n bytes are received.
LEMMA StreamRead ==
  ASSUME NEW fr \in Seq(Message), NEW buf \in Seq(Places(Len(fr))),
         NEW sz, NEW fresh \in BOOLEAN, NEW t \in Nat, NEW n \in Nat, NEW g, NEW h,
         StreamAt(fr, buf, sz, fresh, t, g, h), t + n <= End(fr, Len(fr)), NEW k,
         Ended(fr, k, t + n)
  PROVE  /\ h <= k
         /\ StreamAt(fr, buf \o SubSeq(Flat(fr, Len(fr)), t + 1, t + n),
                     sz, fresh, t + n, g, k)
<1> DEFINE P == Places(Len(fr))
           all == Flat(fr, Len(fr))
           new == SubSeq(all, t + 1, t + n)
<1>1. all \in Seq(P) /\ Len(fr) \in Nat
  BY FlatType
<1>2. Len(all) = End(fr, Len(fr))
  BY DEF End
<1>3. h <= k
  BY EndsIs DEF StreamAt
<1>4. /\ h \in 0 .. Len(fr) /\ g \in 0 .. h
      /\ Len(buf) <= t /\ t <= End(fr, Len(fr))
      /\ \A i \in 1 .. Len(buf) : buf[i] = all[t - Len(buf) + i]
      /\ fresh => t - Len(buf) = End(fr, g)
      /\ ~fresh => /\ g < Len(fr) /\ sz = SizeOf(fr, g + 1)
                   /\ t - Len(buf) = End(fr, g) + SizeBytes
  BY DEF StreamAt
<1> HIDE DEF all, P
<1>5. /\ new \in Seq(P) /\ Len(new) = n
      /\ \A i \in 1 .. n : new[i] = all[t + i]
  <2>1. t + n \in Nat /\ t <= t + n /\ t + n <= Len(all) /\ (t + n) - t = n
    BY <1>2
  <2>2. ASSUME NEW u \in Nat, u = t + n
        PROVE  /\ SubSeq(all, t + 1, u) \in Seq(P) /\ Len(SubSeq(all, t + 1, u)) = u - t
               /\ \A i \in 1 .. u - t : SubSeq(all, t + 1, u)[i] = all[t + i]
    <3>1. t <= u /\ u <= Len(all)
      BY <2>1, <2>2
    <3> QED
      BY <1>1, <3>1, PieceAfter
  <2> QED
    BY <2>1, <2>2
<1> HIDE DEF new
<1> DEFINE b == buf \o new
<1>6. buf \in Seq(P) /\ Len(buf) \in Nat
  BY DEF P
<1>7. b \in Seq(P) /\ Len(b) = Len(buf) + n
  BY <1>5, <1>6, ConcatProperties
<1>8. ASSUME NEW i \in 1 .. Len(buf) + n PROVE b[i] = all[(t + n) - (Len(buf) + n) + i]
  <2>1. b[i] = IF i <= Len(buf) THEN buf[i] ELSE new[i - Len(buf)]
    BY <1>5, <1>6, ConcatProperties
  <2>2. (t + n) - (Len(buf) + n) + i = t - Len(buf) + i
    BY <1>6
  <2>3. CASE i <= Len(buf)
    <3>1. i \in 1 .. Len(buf)
      BY <1>6, <2>3
    <3> QED
      BY <1>4, <2>1, <2>2, <2>3, <3>1
  <2>4. CASE ~(i <= Len(buf))
    <3>1. i - Len(buf) \in 1 .. n /\ t + (i - Len(buf)) = t - Len(buf) + i
      BY <1>6, <2>4
    <3> QED
      BY <1>5, <2>1, <2>2, <2>4, <3>1
  <2> QED
    BY <2>3, <2>4
<1> HIDE DEF b
<1>9. k \in 0 .. Len(fr) /\ g \in 0 .. k
  BY <1>1, <1>3, <1>4 DEF Ended
<1>10. (t + n) - Len(b) = t - Len(buf) /\ Len(b) <= t + n
  BY <1>4, <1>6, <1>7
<1>11. StreamAt(fr, b, sz, fresh, t + n, g, k)
  <2>1. \A i \in 1 .. Len(b) : b[i] = Flat(fr, Len(fr))[(t + n) - Len(b) + i]
    BY <1>7, <1>8 DEF all
  <2> QED
    BY <1>4, <1>9, <1>10, <2>1 DEF StreamAt
<1> QED
  BY <1>3, <1>11 DEF b, new, all

\* A connection begins behind frame f.
LEMMA StreamJoin ==
  ASSUME NEW fr \in Seq(Message), NEW f \in 0 .. Len(fr), NEW sz
  PROVE  StreamAt(fr, <<>>, sz, TRUE, End(fr, f), f, f)
<1>1. Len(fr) \in Nat /\ End(fr, f) \in Nat /\ End(fr, Len(fr)) \in Nat
      /\ f \in Nat /\ SizeBytes \in Nat
  BY EndType, StreamAssumption
<1>2. ASSUME f < Len(fr)
      PROVE  End(fr, f) < End(fr, f + 1) /\ End(fr, f) < End(fr, Len(fr))
  <2>1. f < f + 1 /\ f + 1 <= Len(fr) /\ f + 1 \in Nat /\ f + 1 \in 0 .. Len(fr)
    BY <1>1, <1>2
  <2>2. End(fr, f) + SizeBytes < End(fr, f + 1)
    BY <1>1, <2>1, EndOrder
  <2>3. End(fr, f) + SizeBytes < End(fr, Len(fr))
    BY <1>1, <1>2, EndOrder
  <2>4. End(fr, f + 1) \in Nat
    BY <2>1, EndType
  <2> QED
    BY <1>1, <2>2, <2>3, <2>4
<1>3. Ended(fr, f, End(fr, f)) /\ End(fr, f) <= End(fr, Len(fr))
  <2>1. f = Len(fr) \/ f < Len(fr)
    BY <1>1
  <2> QED
    BY <1>1, <1>2, <2>1 DEF Ended
<1>4. Len(<<>>) = 0 /\ f \in 0 .. f
  BY <1>1
<1> QED
  BY <1>1, <1>3, <1>4 DEF StreamAt

\* A header is at the front of the buffer.
LEMMA StreamHeader ==
  ASSUME NEW fr \in Seq(Message), NEW buf \in Seq(Places(Len(fr))), NEW sz,
         NEW t \in Nat, NEW g, NEW h, StreamAt(fr, buf, sz, TRUE, t, g, h),
         SizeBytes <= Len(buf)
  PROVE  /\ g + 1 \in 1 .. Len(fr)
         /\ \A i \in 1 .. SizeBytes : buf[i] = <<g + 1, i - SizeBytes>>
         /\ StreamAt(fr, SubSeq(buf, SizeBytes + 1, Len(buf)), SizeOf(fr, g + 1),
                     FALSE, t, g, h)
<1>1. /\ h \in 0 .. Len(fr) /\ g \in 0 .. h /\ Ended(fr, h, t)
      /\ Len(buf) <= t /\ t <= End(fr, Len(fr))
      /\ \A i \in 1 .. Len(buf) : buf[i] = Flat(fr, Len(fr))[t - Len(buf) + i]
      /\ t - Len(buf) = End(fr, g)
  BY DEF StreamAt
<1>2. /\ SizeBytes \in Nat /\ SizeBytes > 0 /\ Len(fr) \in Nat /\ Len(buf) \in Nat
      /\ g \in Nat /\ g \in 0 .. Len(fr)
  BY <1>1, StreamAssumption
<1>3. End(fr, Len(fr)) \in Nat /\ End(fr, g) \in Nat
  BY <1>2, EndType
<1>4. g # Len(fr)
  BY <1>1, <1>2, <1>3
<1>5. g < Len(fr) /\ g + 1 \in 1 .. Len(fr)
  BY <1>2, <1>4
<1>6. SizeOf(fr, g + 1) \in Nat
  BY <1>5, SizeType
<1>7. ASSUME NEW i \in 1 .. SizeBytes PROVE buf[i] = <<g + 1, i - SizeBytes>>
  <2>1. i \in 1 .. Len(buf) /\ i \in 1 .. SizeBytes + SizeOf(fr, g + 1)
    BY <1>2, <1>6
  <2>2. Flat(fr, Len(fr))[End(fr, g) + i] = <<g + 1, i - SizeBytes>>
    BY <1>2, <1>5, <2>1, FlatAt
  <2> QED
    BY <1>1, <2>1, <2>2
<1> DEFINE b == SubSeq(buf, SizeBytes + 1, Len(buf))
<1>8. /\ b \in Seq(Places(Len(fr))) /\ Len(b) = Len(buf) - SizeBytes
      /\ \A i \in 1 .. Len(buf) - SizeBytes : b[i] = buf[SizeBytes + i]
  <2>1. Len(buf) <= Len(buf)
    BY <1>2
  <2> QED
    BY <1>2, <2>1, PieceAfter
<1> HIDE DEF b
<1>9. ASSUME NEW i \in 1 .. Len(b) PROVE b[i] = Flat(fr, Len(fr))[t - Len(b) + i]
  <2>1. SizeBytes + i \in 1 .. Len(buf) /\ t - Len(buf) + (SizeBytes + i) = t - Len(b) + i
        /\ i \in 1 .. Len(buf) - SizeBytes
    BY <1>2, <1>8
  <2> QED
    BY <1>1, <1>8, <2>1
<1>10. Len(b) <= t /\ t - Len(b) = End(fr, g) + SizeBytes
  BY <1>1, <1>2, <1>3, <1>8
<1>11. StreamAt(fr, b, SizeOf(fr, g + 1), FALSE, t, g, h)
  BY <1>1, <1>5, <1>9, <1>10 DEF StreamAt
<1> QED
  BY <1>5, <1>7, <1>11 DEF b

\* There is no whole header or frame: every frame that has ended was found.
LEMMA StreamShort ==
  ASSUME NEW fr \in Seq(Message), NEW S, NEW buf \in Seq(S), NEW sz,
         NEW fresh \in BOOLEAN, NEW t \in Nat, NEW g, NEW h,
         StreamAt(fr, buf, sz, fresh, t, g, h),
         IF fresh THEN Len(buf) < SizeBytes ELSE Len(buf) < sz
  PROVE  h = g
<1>1. /\ h \in 0 .. Len(fr) /\ g \in 0 .. h /\ Ended(fr, h, t)
      /\ Len(buf) <= t /\ t <= End(fr, Len(fr))
      /\ fresh => t - Len(buf) = End(fr, g)
      /\ ~fresh => /\ g < Len(fr) /\ sz = SizeOf(fr, g + 1)
                   /\ t - Len(buf) = End(fr, g) + SizeBytes
  BY DEF StreamAt
<1>2. /\ SizeBytes \in Nat /\ Len(fr) \in Nat /\ Len(buf) \in Nat
      /\ g \in Nat /\ g \in 0 .. Len(fr) /\ h \in Nat
  BY <1>1, StreamAssumption
<1>3. SUFFICES ASSUME g < h PROVE FALSE
  BY <1>1, <1>2
<1>4. g + 1 \in 1 .. Len(fr) /\ g < Len(fr) /\ g + 1 <= h
  BY <1>1, <1>2, <1>3
<1>5. End(fr, g + 1) <= t
  BY <1>1, <1>4, EndedIff
<1>6. End(fr, g + 1) = End(fr, g) + SizeBytes + SizeOf(fr, g + 1)
  BY <1>2, <1>4, EndStep
<1>7. SizeOf(fr, g + 1) \in Nat /\ End(fr, g) \in Nat
  BY <1>2, <1>4, SizeType, EndType
<1> QED
  BY <1>1, <1>2, <1>5, <1>6, <1>7

\* A frame leaves the buffer.
LEMMA StreamFrame ==
  ASSUME NEW fr \in Seq(Message), NEW buf \in Seq(Places(Len(fr))), NEW sz,
         NEW t \in Nat, NEW g, NEW h, StreamAt(fr, buf, sz, FALSE, t, g, h),
         sz <= Len(buf)
  PROVE  /\ g + 1 \in 1 .. Len(fr) /\ g + 1 <= h
         /\ DecodesIn(fr, SubSeq(buf, 1, sz)) /\ SubSeq(buf, 1, sz)[1][1] = g + 1
         /\ StreamAt(fr, SubSeq(buf, sz + 1, Len(buf)), sz, TRUE, t, g + 1, h)
<1>1. /\ h \in 0 .. Len(fr) /\ g \in 0 .. h /\ Ended(fr, h, t)
      /\ Len(buf) <= t /\ t <= End(fr, Len(fr))
      /\ \A i \in 1 .. Len(buf) : buf[i] = Flat(fr, Len(fr))[t - Len(buf) + i]
      /\ g < Len(fr) /\ sz = SizeOf(fr, g + 1)
      /\ t - Len(buf) = End(fr, g) + SizeBytes
  BY DEF StreamAt
<1>2. /\ SizeBytes \in Nat /\ Len(fr) \in Nat /\ Len(buf) \in Nat
      /\ g \in Nat /\ g \in 0 .. Len(fr) /\ h \in Nat /\ g + 1 \in 1 .. Len(fr)
  BY <1>1, StreamAssumption
<1>3. sz \in Nat /\ sz > 0 /\ End(fr, g) \in Nat
  BY <1>1, <1>2, SizeType, EndType
<1>4. End(fr, g + 1) = End(fr, g) + SizeBytes + sz
  BY <1>1, <1>2, EndStep
<1>5. End(fr, g + 1) <= t /\ t - (Len(buf) - sz) = End(fr, g + 1)
  BY <1>1, <1>2, <1>3, <1>4
<1>6. g + 1 <= h
  BY <1>1, <1>2, <1>5, EndedIff
<1> DEFINE raw == SubSeq(buf, 1, sz)
           b == SubSeq(buf, sz + 1, Len(buf))
<1>7. /\ raw \in Seq(Places(Len(fr))) /\ Len(raw) = sz
      /\ \A i \in 1 .. sz : raw[i] = buf[i]
  <2>1. 1 \in Nat /\ 1 <= 1 /\ 1 <= sz + 1 /\ sz - 1 + 1 = sz
    BY <1>3
  <2>2. /\ raw \in Seq(Places(Len(fr))) /\ Len(raw) = sz - 1 + 1
        /\ \A i \in 1 .. sz - 1 + 1 : raw[i] = buf[1 + i - 1]
    BY <1>3, <2>1, Piece
  <2>3. \A i \in Int : 1 + i - 1 = i
    OBVIOUS
  <2> QED
    BY <2>1, <2>2, <2>3
<1>8. /\ b \in Seq(Places(Len(fr))) /\ Len(b) = Len(buf) - sz
      /\ \A i \in 1 .. Len(buf) - sz : b[i] = buf[sz + i]
  <2>1. Len(buf) <= Len(buf)
    BY <1>2
  <2> QED
    BY <1>2, <1>3, <2>1, PieceAfter
<1> HIDE DEF raw, b
<1>9. BytesFrom(raw, g + 1, 1)
  <2>1. ASSUME NEW i \in 1 .. sz PROVE raw[i] = <<g + 1, i + 1 - 1>>
    <3>1. sz = SizeOf(fr, g + 1)
      BY <1>1
    <3>2. i \in 1 .. Len(buf) /\ SizeBytes + i \in 1 .. SizeBytes + SizeOf(fr, g + 1)
      BY <1>2, <1>3, <3>1
    <3>3. t - Len(buf) = End(fr, g) + SizeBytes
      BY <1>1
    <3>4. t - Len(buf) + i = End(fr, g) + (SizeBytes + i)
      BY <1>2, <1>3, <3>3
    <3>5. (SizeBytes + i) - SizeBytes = i + 1 - 1
      BY <1>2
    <3>6. i \in 1 .. Len(buf) /\ SizeBytes + i \in 1 .. SizeBytes + SizeOf(fr, g + 1)
          /\ t - Len(buf) + i = End(fr, g) + (SizeBytes + i)
          /\ (SizeBytes + i) - SizeBytes = i + 1 - 1
      BY <3>2, <3>4, <3>5
    <3>7. Flat(fr, Len(fr))[End(fr, g) + (SizeBytes + i)]
            = <<g + 1, (SizeBytes + i) - SizeBytes>>
      BY <1>1, <1>2, <3>6, FlatAt
    <3> QED
      BY <1>1, <1>7, <3>6, <3>7
  <2> QED
    BY <1>7, <2>1 DEF BytesFrom
<1>10. DecodesIn(fr, raw) /\ raw[1][1] = g + 1
  BY <1>1, <1>2, <1>7, <1>9, WholeDecodes
<1>11. ASSUME NEW i \in 1 .. Len(b) PROVE b[i] = Flat(fr, Len(fr))[t - Len(b) + i]
  <2>1. sz + i \in 1 .. Len(buf) /\ t - Len(buf) + (sz + i) = t - Len(b) + i
        /\ i \in 1 .. Len(buf) - sz
    BY <1>2, <1>3, <1>8, SMTT(30)
  <2> QED
    BY <1>1, <1>8, <2>1
<1>12. Len(b) <= t /\ t - Len(b) = End(fr, g + 1) /\ g + 1 \in 0 .. h
  BY <1>1, <1>2, <1>3, <1>5, <1>6, <1>8, SMTT(30)
<1>13. StreamAt(fr, b, sz, TRUE, t, g + 1, h)
  BY <1>1, <1>11, <1>12 DEF StreamAt
<1> QED
  BY <1>2, <1>6, <1>10, <1>13 DEF raw, b

-----------------------------------------------------------------------------
(* Types *)

TypeOK ==
  /\ transport \in {"tcp", "udp", "websocket", "file"}
  /\ limit \in Nat /\ (limit # NoLimit => transport = "file")
  /\ lengths \in Seq(Nat) /\ frames \in Seq(Message)
  /\ conn \in {"open", "dead", "closed"}
  /\ taken \in Nat /\ datagrams \in Nat
  /\ arrived \in Seq(1 .. Len(frames))
  /\ buffer \in Seq(Places(Len(frames)))
  /\ size \in Nat /\ stale \in BOOLEAN /\ torn \in BOOLEAN
  /\ staged \in Seq(Seq(Places(Len(frames))))
  /\ output \in Seq(0 .. Len(frames))
  /\ pc \in {"idle", "recv", "size", "frame", "handle"}
  /\ pc = "frame" => size <= Len(buffer)
  /\ starts \in Nat /\ stopping \in BOOLEAN

\* The model's names for what is defined here for any frames.
LEMMA Names ==
  /\ \A f : FrameSize(f) = SizeOf(frames, f)
  /\ \A f : WithSizeHeader(f) = Sent(frames, f)
  /\ \A f : BytesUpTo(f) = End(frames, f)
  /\ \A raw : Decodes(raw) <=> DecodesIn(frames, raw)
  /\ \A raws : HandleFrames(raws) = Handled(frames, raws)
<1>1. \A f : FrameSize(f) = SizeOf(frames, f)
  BY Zenon DEF FrameSize, SizeOf
<1>2. \A f : WithSizeHeader(f) = Sent(frames, f)
  BY Zenon DEF FrameSize, SizeOf, WithSizeHeader, Sent
<1>3. \A f : BytesUpTo(f) = End(frames, f)
  BY Zenon DEF FrameSize, SizeOf, WithSizeHeader, Sent, BytesUpTo, End, Flat
<1>4. \A raw : Decodes(raw) <=> DecodesIn(frames, raw)
  BY <1>1, <1>2, Zenon DEF Decodes, DecodesIn
<1>5. \A raws : HandleFrames(raws) = Handled(frames, raws)
  BY Zenon DEF HandleFrames, Handled, Decodes, DecodesIn, FrameSize, SizeOf,
     WithSizeHeader, Sent
<1> QED
  BY <1>1, <1>2, <1>3, <1>4, <1>5, Zenon

\* The bytes of a frame name the frame.
LEMMA BytesName ==
  ASSUME frames \in Seq(Message)
  PROVE  /\ Bytes = Flat(frames, Len(frames))
         /\ Len(Bytes) = End(frames, Len(frames))
         /\ \A a, b : EndingIn(a, b) = Ends(frames, Len(frames), a, b)
<1>1. DOMAIN frames = 1 .. Len(frames)
  OBVIOUS
<1>2. Bytes = Flat(frames, Len(frames))
  BY <1>1, Zenon DEF Bytes, Flat, FrameSize, SizeOf, WithSizeHeader, Sent
<1>3. ASSUME NEW a, NEW b PROVE EndingIn(a, b) = Ends(frames, Len(frames), a, b)
  BY <1>1, Zenon DEF EndingIn, Ends, BytesUpTo, End, Flat, FrameSize, SizeOf,
     WithSizeHeader, Sent
<1> QED
  BY <1>2, <1>3, Zenon DEF End

\* Products and quotients.
LEMMA Quotient ==
  ASSUME NEW a \in Nat, NEW b \in Nat \ {0}
  PROVE  a \div b \in Nat /\ b * (a \div b) <= a /\ a < b * (a \div b) + b
  OBVIOUS

\* So many frames take the whole message and one less does not.
LEMMA RequiredIs ==
  ASSUME NEW length \in Nat, NEW room \in Nat \ {0}
  PROVE  /\ FramesRequired(length, room) \in Nat
         /\ length <= FramesRequired(length, room) * room
         /\ \A i \in Nat : i < FramesRequired(length, room) =>
              i * room < length /\ i * room \in Nat
<1> DEFINE t == (length + room - 1) \div room
<1>1. length + room - 1 \in Nat
  OBVIOUS
<1>2. /\ t \in Nat /\ room * t <= length + room - 1
      /\ length + room - 1 < room * t + room
  BY <1>1, Quotient
<1> HIDE DEF t
<1>3. room * t = t * room /\ t * room \in Nat
  BY <1>2
<1>4. length <= t * room
  BY <1>2, <1>3
<1>5. ASSUME NEW i \in Nat, i < t PROVE i * room < length /\ i * room \in Nat
  <2>1. i + 1 <= t /\ i + 1 \in Nat
    BY <1>2, <1>5
  <2>2. (i + 1) * room <= t * room
    BY <1>2, <2>1
  <2>3. (i + 1) * room = i * room + room /\ i * room \in Nat
    OBVIOUS
  <2> QED
    BY <1>2, <1>3, <2>2, <2>3
<1>6. FramesRequired(length, room) = t
  BY DEF FramesRequired, t
<1> QED
  BY <1>2, <1>4, <1>5, <1>6

\* A fragment, as a sequence.
LEMMA FragmentIs ==
  ASSUME NEW length \in Nat, NEW room \in Nat \ {0}, NEW i \in Nat,
         i < FramesRequired(length, room)
  PROVE  /\ Fragment(length, room, i) \in Seq(Nat)
         /\ Len(Fragment(length, room, i)) =
              (IF room <= length - i * room THEN room ELSE length - i * room)
         /\ Len(Fragment(length, room, i)) <= room
<1>1. i * room < length /\ i * room \in Nat
  BY RequiredIs
<1> DEFINE n == IF room <= length - i * room THEN room ELSE length - i * room
<1>2. Min({room, length - i * room}) = n
  BY <1>1, MinTwo
<1>3. n \in Nat /\ n <= room
  BY <1>1
<1> HIDE DEF n
<1>4. [k \in 1 .. n |-> i * room + k] \in Seq(Nat)
  BY <1>1, <1>3
<1>5. Len([k \in 1 .. n |-> i * room + k]) = n
  BY <1>3
<1>6. Fragment(length, room, i) = [k \in 1 .. n |-> i * room + k]
  BY <1>2 DEF Fragment
<1> QED
  BY <1>3, <1>4, <1>5, <1>6 DEF n

\* The bytes of a fragment are those of its place in the message.
LEMMA FragmentAt ==
  ASSUME NEW length \in Nat, NEW room \in Nat \ {0}, NEW i \in Nat,
         i < FramesRequired(length, room), NEW k \in 1 .. Len(Fragment(length, room, i))
  PROVE  Fragment(length, room, i)[k] = i * room + k
<1> DEFINE n == Min({room, length - i * room})
<1>1. i * room < length /\ i * room \in Nat
  BY RequiredIs
<1>2. n \in Nat
  BY <1>1, MinTwo
<1> HIDE DEF n
<1>3. Fragment(length, room, i) = [j \in 1 .. n |-> i * room + j]
  BY Zenon DEF Fragment, n
<1>4. Len([j \in 1 .. n |-> i * room + j]) = n
  BY <1>2
<1>5. k \in 1 .. n
  BY <1>3, <1>4, Zenon
<1>6. [j \in 1 .. n |-> i * room + j][k] = i * room + k
  BY <1>5, Zenon
<1> QED
  BY <1>3, <1>6, Zenon

\* The frames of a message.
LEMMA SerializeIs ==
  ASSUME NEW m \in Nat, NEW length \in Nat, NEW mtu \in SenderMtus
  PROVE  LET room == mtu - Overhead
             total == FramesRequired(length, room)
         IN  /\ room \in Nat \ {0} /\ total \in Nat
             /\ Serialize(m, length, mtu) \in Seq(Message)
             /\ Len(Serialize(m, length, mtu)) = total
             /\ \A f \in 1 .. total : Serialize(m, length, mtu)[f] =
                  MessageFrame(m, f - 1, total, Fragment(length, room, f - 1))
<1> DEFINE room == mtu - Overhead
           total == FramesRequired(length, room)
<1>1. room \in Nat \ {0}
  BY StreamAssumption
<1> HIDE DEF room
<1>2. total \in Nat
  BY <1>1, RequiredIs
<1> HIDE DEF total
<1>3. ASSUME NEW f \in 1 .. total
      PROVE  MessageFrame(m, f - 1, total, Fragment(length, room, f - 1)) \in Message
  <2>1. f - 1 \in Nat /\ f - 1 < total
    BY <1>2
  <2>2. Fragment(length, room, f - 1) \in Seq(Nat)
    BY <1>1, <2>1, FragmentIs DEF total
  <2> QED
    BY <1>2, <2>1, <2>2 DEF MessageFrame, Message
<1> DEFINE s == [f \in 1 .. total |->
                   MessageFrame(m, f - 1, total, Fragment(length, room, f - 1))]
<1>4. s \in Seq(Message) /\ Len(s) = total
  BY <1>2, <1>3
<1>5. \A f \in 1 .. total :
        s[f] = MessageFrame(m, f - 1, total, Fragment(length, room, f - 1))
  BY Zenon
<1>6. Serialize(m, length, mtu) = s
  BY Zenon DEF Serialize, room, total
<1> QED
  BY <1>1, <1>2, <1>4, <1>5, <1>6, Zenon DEF room, total

\* Frames that are sent leave the types as they are.
LEMMA MoreTypes ==
  ASSUME NEW n \in Nat, NEW m \in Nat, n <= m
  PROVE  /\ Seq(1 .. n) \subseteq Seq(1 .. m) /\ Seq(0 .. n) \subseteq Seq(0 .. m)
         /\ Seq(Places(n)) \subseteq Seq(Places(m))
         /\ Seq(Seq(Places(n))) \subseteq Seq(Seq(Places(m)))
<1>1. 1 .. n \subseteq 1 .. m /\ 0 .. n \subseteq 0 .. m
  OBVIOUS
<1>2. Places(n) \subseteq Places(m)
  BY <1>1 DEF Places
<1>3. \A S, T : S \subseteq T => Seq(S) \subseteq Seq(T)
  OBVIOUS
<1> QED
  BY <1>1, <1>2, <1>3, Zenon

\* Types hold at the start,
LEMMA TypeInit == ASSUME Init PROVE TypeOK
<1>1. Len(<<>>) = 0
  OBVIOUS
<1>2. \A S : <<>> \in Seq(S)
  OBVIOUS
<1>3. limit \in Nat /\ (limit # NoLimit => transport = "file")
  BY StreamAssumption DEF Init, NoLimit
<1>4. /\ transport \in {"tcp", "udp", "websocket", "file"}
      /\ conn \in {"open", "dead", "closed"}
  BY StreamAssumption DEF Init
<1>5. lengths = <<>> /\ frames = <<>> /\ arrived = <<>> /\ buffer = <<>>
      /\ staged = <<>> /\ output = <<>>
  BY DEF Init
<1>6. lengths \in Seq(Nat) /\ frames \in Seq(Message) /\ arrived \in Seq(1 .. Len(frames))
      /\ buffer \in Seq(Places(Len(frames)))
      /\ staged \in Seq(Seq(Places(Len(frames)))) /\ output \in Seq(0 .. Len(frames))
  BY <1>2, <1>5, Zenon
<1> QED
  BY <1>3, <1>4, <1>6 DEF Init, TypeOK

\* and after every step of the sender,
LEMMA TypeSend ==
  ASSUME TypeOK, NEW n \in Lengths, NEW mtu \in SenderMtus, SendMessage(n, mtu)
  PROVE  TypeOK'
<1> DEFINE more == Serialize(Len(lengths) + 1, n, mtu)
<1>1. n \in Nat /\ Len(lengths) + 1 \in Nat /\ lengths \in Seq(Nat)
  BY StreamAssumption DEF TypeOK
<1>2. more \in Seq(Message)
  BY <1>1, SerializeIs
<1> HIDE DEF more
<1>3. frames' = frames \o more /\ frames \in Seq(Message)
  BY DEF SendMessage, TypeOK, more
<1>4. frames' \in Seq(Message) /\ Len(frames) \in Nat /\ Len(frames') \in Nat
      /\ Len(frames) <= Len(frames')
  BY <1>2, <1>3
<1>5. lengths' \in Seq(Nat)
  BY <1>1 DEF SendMessage
<1>6. /\ Seq(1 .. Len(frames)) \subseteq Seq(1 .. Len(frames'))
      /\ Seq(0 .. Len(frames)) \subseteq Seq(0 .. Len(frames'))
      /\ Seq(Places(Len(frames))) \subseteq Seq(Places(Len(frames')))
      /\ Seq(Seq(Places(Len(frames)))) \subseteq Seq(Seq(Places(Len(frames'))))
  BY <1>4, MoreTypes
<1>7. UNCHANGED <<transport, limit, network, processor, staged, output, pc, daemon>>
  BY DEF SendMessage
<1>8. /\ arrived' \in Seq(1 .. Len(frames')) /\ buffer' \in Seq(Places(Len(frames')))
      /\ staged' \in Seq(Seq(Places(Len(frames')))) /\ output' \in Seq(0 .. Len(frames'))
  BY <1>6, <1>7, Zenon DEF TypeOK, network, processor
<1> QED
  BY <1>4, <1>5, <1>7, <1>8 DEF TypeOK, network, processor, daemon

\* of the client's thread,
LEMMA TypeClient ==
  ASSUME TypeOK, Start \/ Stop \/ Stopped \/ Disconnected \/ EndOfFile
  PROVE  TypeOK'
<1>1. CASE Start
  <2>1. taken' \in Nat /\ torn' \in BOOLEAN /\ conn' \in {"open", "dead", "closed"}
    <3>1. CASE Connect
      <4>1. \A f \in 0 .. Len(frames) : BytesUpTo(f) \in Nat
        BY Names, EndType DEF TypeOK
      <4> QED
        BY <3>1, <4>1 DEF Connect, TypeOK
    <3>2. CASE Reuse
      BY <3>2 DEF Reuse, TypeOK
    <3> QED
      BY <1>1, <3>1, <3>2, Zenon DEF Start
  <2>2. UNCHANGED <<transport, limit, lengths, frames, datagrams, arrived, buffer, size,
                    stale, staged, output, stopping>>
        /\ pc' = "recv" /\ starts' = starts + 1
    BY <1>1 DEF Start, sender
  <2> QED
    BY <2>1, <2>2 DEF TypeOK
<1>2. CASE Stop
  <2>1. None \in 0 .. Len(frames)
    BY DEF None, TypeOK
  <2>2. output \in Seq(0 .. Len(frames)) /\ Append(output, None) \in Seq(0 .. Len(frames))
    BY <2>1 DEF TypeOK
  <2>3. output' \in Seq(0 .. Len(frames))
    BY <1>2, <2>2, Zenon DEF Stop
  <2> QED
    BY <1>2, <2>3 DEF Stop, TypeOK, sender, network, processor
<1>3. CASE Stopped
  BY <1>3 DEF Stopped, Loop, TypeOK, sender, processor
<1>4. CASE Disconnected
  BY <1>4 DEF Disconnected, TypeOK, sender, processor, daemon
<1>5. CASE EndOfFile
  <2>1. None \in 0 .. Len(frames)
    BY DEF None, TypeOK
  <2>2. output' \in Seq(0 .. Len(frames))
    BY <1>5, <2>1 DEF EndOfFile, TypeOK
  <2> QED
    BY <1>5, <2>2 DEF EndOfFile, TypeOK, sender, network, processor
<1> QED
  BY <1>1, <1>2, <1>3, <1>4, <1>5

\* of recv,
LEMMA TypeProcess ==
  ASSUME TypeOK, NEW new \in Seq(Places(Len(frames))), Process(new),
         arrived' \in Seq(1 .. Len(frames)), taken' \in Nat, datagrams' \in Nat
  PROVE  TypeOK'
<1>1. buffer' \in Seq(Places(Len(frames)))
  BY DEF Process, TypeOK
<1> QED
  BY <1>1 DEF Process, TypeOK, sender, daemon

\* Bytes of a stream, read.
LEMMA TypeRead ==
  ASSUME TypeOK, NEW n \in Nat, Read(n)
  PROVE  TypeOK'
<1>1. frames \in Seq(Message) /\ taken \in Nat /\ Len(frames) \in Nat
      /\ arrived \in Seq(1 .. Len(frames)) /\ datagrams \in Nat
  BY DEF TypeOK
<1>2. Bytes = Flat(frames, Len(frames)) /\ Len(Bytes) = End(frames, Len(frames))
  BY <1>1, BytesName
<1>3. Bytes \in Seq(Places(Len(frames)))
  BY <1>1, <1>2, FlatType
<1>4. taken + n \in Nat /\ taken <= taken + n /\ taken + n <= Len(Bytes)
  BY <1>1 DEF Read
<1>5. SubSeq(Bytes, taken + 1, taken + n) \in Seq(Places(Len(frames)))
  BY <1>1, <1>3, <1>4, PieceAfter
<1>6. EndingIn(taken + 1, taken + n) \in Seq(1 .. Len(frames))
  <2>1. PICK h \in 0 .. Len(frames) : Ended(frames, h, taken)
    BY <1>1, EndedExists
  <2>2. PICK k \in 0 .. Len(frames) : Ended(frames, k, taken + n)
    BY <1>1, <1>4, EndedExists
  <2>3. frames \in Seq(Message) /\ taken \in Nat
    BY <1>1
  <2>4. h <= k
    BY <2>1, <2>2, <2>3, EndsIs
  <2>5. Ends(frames, Len(frames), taken + 1, taken + n) = Upto(h, k)
    BY <2>1, <2>2, <2>3, EndsIs
  <2>6. h <= k /\ Ends(frames, Len(frames), taken + 1, taken + n) = Upto(h, k)
    BY <2>4, <2>5
  <2>7. h \in Nat /\ k \in Nat
    BY <1>1
  <2>8. Upto(h, k) \in Seq(h + 1 .. k)
    BY <2>6, <2>7, UptoSeq
  <2>9. h + 1 .. k \subseteq 1 .. Len(frames)
    BY <1>1
  <2>10. Upto(h, k) \in Seq(1 .. Len(frames))
    BY <2>8, <2>9
  <2> QED
    BY <1>1, <2>6, <2>10, BytesName, Zenon
<1>7. arrived' \in Seq(1 .. Len(frames))
  <2>1. arrived' = arrived \o EndingIn(taken + 1, taken + n)
    BY DEF Read
  <2>2. arrived \o EndingIn(taken + 1, taken + n) \in Seq(1 .. Len(frames))
    BY <1>1, <1>6, ConcatProperties
  <2> QED
    BY <2>1, <2>2, Zenon
<1>8. taken' \in Nat /\ datagrams' \in Nat
      /\ Process(SubSeq(Bytes, taken + 1, taken + n))
  BY <1>1, <1>4 DEF Read
<1> QED
  BY <1>5, <1>7, <1>8, TypeProcess

\* A file's read is a read of some bytes.
LEMMA ReadFileRead ==
  ASSUME TypeOK, ReadFile
  PROVE  \E n \in Nat : Read(n)
<1>1. frames \in Seq(Message) /\ taken \in Nat /\ taken < Len(Bytes)
  BY DEF TypeOK, ReadFile
<1>2. Len(Bytes) \in Nat
  BY <1>1, BytesName, EndType
<1>3. RecvMax \in Nat
  BY StreamAssumption DEF RecvMax
<1>4. Min({RecvMax, Len(Bytes) - taken}) \in Nat
  BY <1>1, <1>2, <1>3, MinTwo
<1> QED
  BY <1>4, Zenon DEF ReadFile

\* A datagram, received.
LEMMA TypeDatagram ==
  ASSUME TypeOK, NEW f \in DOMAIN frames, RecvUdp(f) \/ RecvWebsocket(f)
  PROVE  TypeOK'
<1>1. frames \in Seq(Message) /\ f \in 1 .. Len(frames) /\ datagrams \in Nat
      /\ arrived \in Seq(1 .. Len(frames)) /\ taken \in Nat /\ f \in 0 .. Len(frames)
  BY DEF TypeOK
<1>2. Sent(frames, f) \in Seq(Places(Len(frames)))
      /\ Len(Sent(frames, f)) = SizeBytes + SizeOf(frames, f)
  BY <1>1, SentType
<1>3. SizeBytes + SizeOf(frames, f) \in Nat /\ RecvMax \in Nat
  BY <1>1, SizeType, StreamAssumption DEF RecvMax
<1>4. Arrives(f) => arrived' \in Seq(1 .. Len(frames))
  <2>1. Append(arrived, f) \in Seq(1 .. Len(frames))
    BY <1>1
  <2> QED
    BY <1>1, <2>1, Zenon DEF Arrives
<1>5. CASE RecvUdp(f)
  <2> DEFINE n == Min({Len(WithSizeHeader(f)), RecvMax})
             new == SubSeq(WithSizeHeader(f), 1, n)
  <2>1. WithSizeHeader(f) = Sent(frames, f)
    BY Names
  <2>2. n \in Nat /\ n <= Len(Sent(frames, f))
    BY <1>2, <1>3, <2>1, MinTwo
  <2> HIDE DEF n
  <2>3. new \in Seq(Places(Len(frames)))
    BY <1>2, <2>1, <2>2, Piece
  <2>4. Process(new) /\ Arrives(f) /\ datagrams' = datagrams + 1 /\ taken' = taken
    BY <1>5 DEF RecvUdp, n
  <2> HIDE DEF new
  <2>5. datagrams' \in Nat /\ taken' \in Nat
    BY <1>1, <2>4
  <2> QED
    BY <1>4, <2>3, <2>4, <2>5, TypeProcess
<1>6. CASE RecvWebsocket(f)
  <2>1. WithSizeHeader(f) \in Seq(Places(Len(frames)))
    BY <1>2, Names
  <2>2. Process(WithSizeHeader(f)) /\ Arrives(f) /\ datagrams' = datagrams
        /\ taken' = BytesUpTo(f)
    BY <1>6 DEF RecvWebsocket
  <2>3. BytesUpTo(f) \in Nat
    BY <1>1, Names, EndType
  <2>4. datagrams' \in Nat /\ taken' \in Nat
    BY <1>1, <2>2, <2>3
  <2> QED
    BY <1>4, <2>1, <2>2, <2>4, TypeProcess
<1> QED
  BY <1>5, <1>6

\* and of the frame processor.
LEMMA HeaderType ==
  ASSUME TypeOK, SizeBytes <= Len(buffer),
         NEW n \in HeaderValue(SubSeq(buffer, 1, SizeBytes))
  PROVE  n \in Nat
<1> DEFINE b == SubSeq(buffer, 1, SizeBytes)
<1>1. SizeBytes \in Nat /\ 1 <= SizeBytes /\ buffer \in Seq(Places(Len(frames)))
  BY StreamAssumption DEF TypeOK
<1>2. b \in Seq(Places(Len(frames))) /\ Len(b) = SizeBytes
  BY <1>1, Piece
<1>3. b[1] \in Places(Len(frames))
  BY <1>1, <1>2
<1>4. b[1][1] \in 1 .. Len(frames)
  BY <1>3 DEF Places
<1>5. FrameSize(b[1][1]) \in Nat
  BY <1>4, Names, SizeType DEF TypeOK
<1>6. \A i \in Sizes : i \in Nat
  BY DEF Sizes
<1> HIDE DEF b
<1>7. n \in HeaderValue(b)
  BY DEF b
<1>8. n = FrameSize(b[1][1]) \/ n \in Sizes
  BY <1>7, Zenon DEF HeaderValue
<1> QED
  BY <1>5, <1>6, <1>8

\* What read_size leaves behind, however it ends.
LEMMA TypeContinue ==
  ASSUME TypeOK, NEW n \in Nat, NEW unread \in Seq(Places(Len(frames))),
         NEW known \in BOOLEAN, Continue(n, unread, known),
         UNCHANGED <<transport, limit, sender, network, torn, staged, output, daemon>>
  PROVE  TypeOK'
<1>1. <<>> \in Seq(Places(Len(frames)))
  OBVIOUS
<1>2. buffer' \in Seq(Places(Len(frames))) /\ size' \in Nat /\ stale' \in BOOLEAN
  BY <1>1 DEF Continue
<1>3. pc' \in {"frame", "handle"} /\ (pc' = "frame" => size' <= Len(buffer'))
  BY DEF Continue
<1> QED
  BY <1>2, <1>3 DEF TypeOK, sender, network, daemon

\* A frame's size, read.
LEMMA TypeReadSize == ASSUME TypeOK, ReadSize PROVE TypeOK'
<1>1. UNCHANGED <<transport, limit, sender, network, torn, staged, output, daemon>>
  BY DEF ReadSize
<1>2. buffer \in Seq(Places(Len(frames))) /\ size \in Nat /\ stale \in BOOLEAN
      /\ SizeBytes \in Nat
  BY StreamAssumption DEF TypeOK
<1>3. CASE stale /\ Len(buffer) >= SizeBytes
  <2>1. PICK n \in HeaderValue(SubSeq(buffer, 1, SizeBytes)) :
          Continue(n, SubSeq(buffer, SizeBytes + 1, Len(buffer)), TRUE)
    BY <1>3 DEF ReadSize
  <2>2. n \in Nat
    BY <1>2, <1>3, HeaderType
  <2>3. SubSeq(buffer, SizeBytes + 1, Len(buffer)) \in Seq(Places(Len(frames)))
    BY <1>2, <1>3, PieceAfter
  <2> QED
    BY <1>1, <2>1, <2>2, <2>3, TypeContinue
<1>4. CASE ~(stale /\ Len(buffer) >= SizeBytes)
  <2>1. Continue(size, buffer, ~stale) /\ (~stale) \in BOOLEAN
    BY <1>4 DEF ReadSize
  <2> QED
    BY <1>1, <1>2, <2>1, TypeContinue
<1> QED
  BY <1>3, <1>4

\* A frame, read.
LEMMA TypeReadFrame == ASSUME TypeOK, ReadFrame PROVE TypeOK'
<1>1. /\ buffer \in Seq(Places(Len(frames))) /\ size \in Nat /\ size <= Len(buffer)
      /\ staged \in Seq(Seq(Places(Len(frames)))) /\ Len(buffer) \in Nat
  BY DEF TypeOK, ReadFrame
<1>2. SubSeq(buffer, 1, size) \in Seq(Places(Len(frames)))
  BY <1>1, Piece
<1>3. SubSeq(buffer, size + 1, Len(buffer)) \in Seq(Places(Len(frames)))
  BY <1>1, PieceAfter
<1>4. Append(staged, SubSeq(buffer, 1, size)) \in Seq(Seq(Places(Len(frames))))
  BY <1>1, <1>2
<1>5. staged' = Append(staged, SubSeq(buffer, 1, size))
      /\ buffer' = SubSeq(buffer, size + 1, Len(buffer))
  BY DEF ReadFrame, ReadBytes
<1>6. staged' \in Seq(Seq(Places(Len(frames)))) /\ buffer' \in Seq(Places(Len(frames)))
  BY <1>3, <1>4, <1>5, Zenon
<1>7. UNCHANGED <<transport, limit, sender, network, size, torn, output, daemon>>
      /\ stale' = TRUE /\ pc' = "size"
  BY DEF ReadFrame
<1> QED
  BY <1>6, <1>7 DEF TypeOK, sender, network, daemon

\* Some of the frames that were found are handled.
LEMMA TypeHandle ==
  ASSUME TypeOK, NEW i \in 0 .. Len(staged),
         output' = output \o HandleFrames(SubSeq(staged, 1, i)),
         staged' \in Seq(Seq(Places(Len(frames)))), NEW goes_on, Loop(goes_on),
         UNCHANGED <<transport, limit, sender, taken, datagrams, arrived, processor,
                     starts>>
  PROVE  TypeOK'
<1>1. /\ frames \in Seq(Message) /\ Len(frames) \in Nat /\ i \in Nat
      /\ staged \in Seq(Seq(Places(Len(frames)))) /\ output \in Seq(0 .. Len(frames))
  BY DEF TypeOK
<1>2. SubSeq(staged, 1, i) \in Seq(Seq(Places(Len(frames))))
  BY <1>1, Piece
<1>3. Handled(frames, SubSeq(staged, 1, i)) \in Seq(1 .. Len(frames))
  BY <1>1, <1>2, HandledType
<1>4. HandleFrames(SubSeq(staged, 1, i)) \in Seq(0 .. Len(frames))
  <2>1. Seq(1 .. Len(frames)) \subseteq Seq(0 .. Len(frames))
    BY <1>1
  <2> QED
    BY <1>3, <2>1, Names, Zenon
<1>5. output' \in Seq(0 .. Len(frames))
  BY <1>1, <1>4, ConcatProperties
<1> QED
  BY <1>5 DEF TypeOK, Loop, sender, processor

\* The number of frames that are processed at once.
LEMMA CountType ==
  ASSUME TypeOK, limit # NoLimit => Len(FramesIn(output)) <= limit
  PROVE  /\ Count \in 0 .. Len(staged)
         /\ limit # NoLimit => Count <= limit - Len(FramesIn(output))
<1>1. Len(staged) \in Nat /\ limit \in Nat /\ Len(frames) \in Nat
      /\ output \in Seq(0 .. Len(frames))
  BY DEF TypeOK
<1>2. FramesIn(output) \in Seq(1 .. Len(frames))
  BY <1>1, QueueType
<1>3. Len(FramesIn(output)) \in Nat
  BY <1>2
<1> QED
  BY <1>1, <1>3, MinTwo DEF Count

-----------------------------------------------------------------------------
(* The inductive invariant *)

\* What was put out, and what has been found behind it.
Found(fr, out, raws) == FramesIn(out) \o Handled(fr, raws)

\* A file client's limit.
WithinLimit == limit # NoLimit => Len(FramesIn(output)) <= limit

\* Tcp and file clients read what was sent with their own mtu.
SizesFit ==
  transport \in {"tcp", "file"} =>
    \A f \in 1 .. Len(frames) : SizeOf(frames, f) <= Mtu

\* What is staged are frames.
StagedWhole ==
  ~torn => \A i \in 1 .. Len(staged) : DecodesIn(frames, staged[i])

\* Of a stream, the frames g + 1 .. h wait in the buffer.
StreamWaits(g, h) ==
  /\ StreamAt(frames, buffer, size, stale, taken, g, h)
  /\ arrived = Found(frames, output, staged) \o Upto(g, h)
  /\ pc \notin {"size", "frame"} => h = g

StreamOK ==
  transport \in {"tcp", "file"} /\ ~torn =>
    /\ \E h \in 0 .. Len(frames) : \E g \in 0 .. h : StreamWaits(g, h)
    /\ size <= Mtu
    /\ pc = "frame" => ~stale

\* Nothing of a datagram is left when it has been processed.
Emptied(buf, fresh, arr, fnd) == buf = <<>> /\ fresh /\ arr = fnd

\* A datagram f waits in the buffer.
DatagramWaits(fr, buf, arr, fnd, f) ==
  /\ SizeBytes <= Len(buf) /\ BytesFrom(buf, f, 1 - SizeBytes)
  /\ IF SizeOf(fr, f) <= Mtu
       THEN Len(buf) = SizeBytes + SizeOf(fr, f) /\ arr = Append(fnd, f)
       ELSE arr = fnd

\* The frame f of a datagram waits in the buffer.
FrameWaits(fr, buf, sz, arr, fnd, f) ==
  /\ sz = SizeOf(fr, f) /\ Len(buf) = sz /\ BytesFrom(buf, f, 1)
  /\ arr = Append(fnd, f)

DatagramOK ==
  transport \in {"udp", "websocket"} =>
    /\ ~torn
    /\ pc \in {"idle", "recv", "handle"} =>
         Emptied(buffer, stale, arrived, Found(frames, output, staged))
    /\ pc = "size" =>
         /\ stale
         /\ \/ Emptied(buffer, stale, arrived, Found(frames, output, staged))
            \/ \E f \in 1 .. Len(frames) :
                 DatagramWaits(frames, buffer, arrived, Found(frames, output, staged), f)
    /\ pc = "frame" =>
         \E f \in 1 .. Len(frames) :
           FrameWaits(frames, buffer, size, arrived, Found(frames, output, staged), f)

\* A new connection is only torn from an old one; a file has none.
TornOK == transport = "file" => ~torn

\* The frames of message m are those after frame b, with fragments of r bytes.
CutAt(fr, ls, m, b, r) ==
  /\ b + FramesRequired(ls[m], r) <= Len(fr)
  /\ \A f \in 1 .. Len(fr) :
       fr[f].message = m <=> f \in b + 1 .. b + FramesRequired(ls[m], r)
  /\ \A i \in 1 .. FramesRequired(ls[m], r) :
       fr[b + i] = MessageFrame(m, i - 1, FramesRequired(ls[m], r),
                                Fragment(ls[m], r, i - 1))

MessagesCut(fr, ls) ==
  /\ \A f \in 1 .. Len(fr) : fr[f].message <= Len(ls)
  /\ \A m \in 1 .. Len(ls) :
       \E b \in 0 .. Len(fr) : \E r \in Nat \ {0} : CutAt(fr, ls, m, b, r)

IInv ==
  /\ TypeOK /\ WithinLimit /\ SizesFit /\ StagedWhole /\ TornOK
  /\ StreamOK /\ DatagramOK /\ MessagesCut(frames, lengths)

\* What the thread has found is a sequence of frames.
LEMMA FoundType ==
  ASSUME TypeOK
  PROVE  /\ Found(frames, output, staged) \in Seq(1 .. Len(frames))
         /\ FramesIn(output) \in Seq(1 .. Len(frames))
         /\ Handled(frames, staged) \in Seq(1 .. Len(frames))
<1>1. /\ frames \in Seq(Message) /\ Len(frames) \in Nat
      /\ staged \in Seq(Seq(Places(Len(frames)))) /\ output \in Seq(0 .. Len(frames))
  BY DEF TypeOK
<1>2. FramesIn(output) \in Seq(1 .. Len(frames))
  BY <1>1, QueueType
<1>3. Handled(frames, staged) \in Seq(1 .. Len(frames))
  BY <1>1, HandledType
<1>4. FramesIn(output) \o Handled(frames, staged) \in Seq(1 .. Len(frames))
  BY <1>2, <1>3, ConcatProperties
<1> QED
  BY <1>2, <1>3, <1>4, Zenon DEF Found

\* The invariant holds at the start.
LEMMA InvInit == ASSUME Init PROVE IInv
<1>1. TypeOK
  BY TypeInit
<1>2. lengths = <<>> /\ frames = <<>> /\ arrived = <<>> /\ buffer = <<>>
      /\ staged = <<>> /\ output = <<>> /\ torn = FALSE /\ stale = TRUE
      /\ taken = 0 /\ size = 0 /\ pc = "idle"
  BY DEF Init
<1>3. Len(<<>>) = 0
  OBVIOUS
<1>4. FramesIn(<<>>) = <<>>
  <2>1. [i \in DOMAIN <<>> |-> IF <<>>[i] = None THEN <<>> ELSE <<<<>>[i]>>] = <<>>
    OBVIOUS
  <2> QED
    BY <2>1, FlattenEmpty DEF FramesIn
<1>5. Handled(frames, <<>>) = <<>>
  BY HandledNone
<1>6. <<>> \o <<>> = <<>>
  OBVIOUS
<1>7. Found(frames, output, staged) = <<>>
  BY <1>2, <1>4, <1>5, <1>6, Zenon DEF Found
<1>8. WithinLimit
  BY <1>1, <1>2, <1>3, <1>4 DEF WithinLimit, TypeOK
<1>9. SizesFit /\ StagedWhole /\ TornOK
  BY <1>2, <1>3 DEF SizesFit, StagedWhole, TornOK
<1>10. StreamOK
  <2>1. frames \in Seq(Message) /\ 0 \in 0 .. Len(frames) /\ 0 \in 0 .. 0
    BY <1>1 DEF TypeOK
  <2>2. StreamAt(frames, <<>>, size, TRUE, End(frames, 0), 0, 0)
    BY <2>1, StreamJoin
  <2>3. End(frames, 0) = 0
    BY <2>1, EndType
  <2>4. StreamAt(frames, buffer, size, stale, taken, 0, 0)
    BY <1>2, <2>2, <2>3, Zenon
  <2>5. Upto(0, 0) = <<>>
    BY UptoNone
  <2>6. arrived = Found(frames, output, staged) \o Upto(0, 0)
    BY <1>2, <1>6, <1>7, <2>5, Zenon
  <2>7. size <= Mtu
    BY <1>2, StreamAssumption
  <2> QED
    BY <1>2, <2>1, <2>4, <2>6, <2>7 DEF StreamOK, StreamWaits
<1>11. DatagramOK
  BY <1>2, <1>7 DEF DatagramOK, Emptied
<1>12. MessagesCut(frames, lengths)
  BY <1>2, <1>3 DEF MessagesCut
<1> QED
  BY <1>1, <1>8, <1>9, <1>10, <1>11, <1>12 DEF IInv

\* Between two recv, or while what was found is handled, all that has arrived has
\* been found; steps that change neither keep the invariant.
LEMMA Settled ==
  ASSUME IInv, TypeOK', WithinLimit', StagedWhole',
         UNCHANGED <<transport, limit, lengths, frames, taken, arrived, buffer, size,
                     stale, torn>>,
         ~torn => Found(frames, output', staged') = Found(frames, output, staged),
         \/ pc' = pc
         \/ pc \in {"idle", "recv", "handle"} /\ pc' \in {"idle", "recv", "handle"}
  PROVE  IInv'
<1>1. SizesFit' /\ TornOK' /\ MessagesCut(frames, lengths)'
  BY DEF IInv, SizesFit, TornOK
<1>2. StreamOK'
  <2>1. SUFFICES ASSUME transport \in {"tcp", "file"}, ~torn PROVE StreamOK'
    BY DEF StreamOK
  <2>2. PICK h \in 0 .. Len(frames) : \E g \in 0 .. h : StreamWaits(g, h)
    BY <2>1 DEF IInv, StreamOK
  <2>3. PICK g \in 0 .. h : StreamWaits(g, h)
    BY <2>2
  <2>4. StreamAt(frames, buffer, size, stale, taken, g, h)'
    BY <2>3, Zenon DEF StreamWaits
  <2>5. arrived' = Found(frames', output', staged') \o Upto(g, h)
    BY <2>1, <2>3, Zenon DEF StreamWaits
  <2>6. pc' \notin {"size", "frame"} => h = g
    BY <2>3 DEF StreamWaits
  <2>7. size' <= Mtu /\ (pc' = "frame" => ~stale')
    BY <2>1 DEF IInv, StreamOK
  <2>8. h \in 0 .. Len(frames') /\ g \in 0 .. h
    OBVIOUS
  <2> QED
    BY <2>4, <2>5, <2>6, <2>7, <2>8 DEF StreamOK, StreamWaits
<1>3. DatagramOK'
  BY DEF IInv, DatagramOK
<1> QED
  BY <1>1, <1>2, <1>3 DEF IInv

\* Steps of the client's thread that find nothing.
LEMMA InvClient ==
  ASSUME IInv, Stop \/ Stopped \/ Disconnected \/ EndOfFile \/ (Start /\ Reuse)
  PROVE  IInv'
<1>1. TypeOK /\ TypeOK'
  BY TypeClient DEF IInv
<1>2. UNCHANGED <<transport, limit, lengths, frames, taken, arrived, buffer, size,
                  stale, torn, staged>>
  BY DEF Stop, Stopped, Disconnected, EndOfFile, Start, Reuse, sender, network, processor
<1>3. output' = output \/ output' = Append(output, None)
  BY DEF Stop, Stopped, Disconnected, EndOfFile, Start
<1>4. FramesIn(output') = FramesIn(output)
  <2>1. Len(frames) \in Nat /\ output \in Seq(0 .. Len(frames))
    BY <1>1 DEF TypeOK
  <2>2. FramesIn(Append(output, None)) = FramesIn(output)
    BY <2>1, QueueEnd
  <2> QED
    BY <1>3, <2>2, Zenon
<1>5. Found(frames, output', staged') = Found(frames, output, staged)
  BY <1>2, <1>4, Zenon DEF Found
<1>6. WithinLimit'
  BY <1>2, <1>4 DEF IInv, WithinLimit
<1>7. StagedWhole'
  BY <1>2 DEF IInv, StagedWhole
<1>8. \/ pc' = pc
      \/ pc \in {"idle", "recv", "handle"} /\ pc' \in {"idle", "recv", "handle"}
  BY DEF Stop, Stopped, Disconnected, EndOfFile, Start, Loop
<1> QED
  BY <1>1, <1>2, <1>5, <1>6, <1>7, <1>8, Settled

\* A new connection.
LEMMA InvConnect == ASSUME IInv, Start, Connect, Reconnects PROVE IInv'
<1>1. TypeOK /\ TypeOK'
  BY TypeClient DEF IInv
<1>2. UNCHANGED <<transport, limit, lengths, frames, datagrams, arrived, buffer, size,
                  stale, staged, output>>
      /\ pc = "idle" /\ pc' = "recv"
  BY DEF Start, sender
<1>3. torn' = (torn \/ buffer # <<>> \/ ~stale) /\ transport # "file"
  BY DEF Connect, Reconnects
<1>4. PICK f \in 0 .. Len(frames) : taken' = End(frames, f)
  BY Names DEF Connect
<1>5. WithinLimit' /\ SizesFit' /\ StagedWhole' /\ TornOK'
      /\ MessagesCut(frames, lengths)'
  BY <1>1, <1>2, <1>3 DEF IInv, WithinLimit, SizesFit, StagedWhole, TornOK, TypeOK
<1>6. StreamOK'
  <2>1. SUFFICES ASSUME transport \in {"tcp", "file"}, ~torn' PROVE StreamOK'
    BY <1>2 DEF StreamOK
  <2>2. ~torn /\ buffer = <<>> /\ stale = TRUE
    BY <1>1, <1>3, <2>1 DEF TypeOK
  <2>3. PICK h \in 0 .. Len(frames) : \E g \in 0 .. h : StreamWaits(g, h)
    BY <2>1, <2>2 DEF IInv, StreamOK
  <2>4. PICK g \in 0 .. h : StreamWaits(g, h)
    BY <2>3
  <2>5. h = g /\ arrived = Found(frames, output, staged) \o Upto(g, h)
    BY <1>2, <2>4 DEF StreamWaits
  <2>6. Upto(g, h) = <<>> /\ Upto(f, f) = <<>>
    BY <1>1, <2>5, UptoNone DEF TypeOK
  <2>7. arrived = Found(frames, output, staged) \o Upto(f, f)
    BY <2>5, <2>6, Zenon
  <2>8. frames \in Seq(Message)
    BY <1>1 DEF TypeOK
  <2>9. StreamAt(frames, <<>>, size, TRUE, End(frames, f), f, f)
    BY <2>8, StreamJoin
  <2>10. StreamAt(frames, buffer, size, stale, taken, f, f)'
    BY <1>2, <1>4, <2>2, <2>9, Zenon
  <2>11. StreamWaits(f, f)'
    BY <1>2, <2>7, <2>10 DEF StreamWaits
  <2>12. f \in 0 .. Len(frames') /\ f \in 0 .. f
    BY <1>2, <2>8
  <2>13. size' <= Mtu /\ pc' # "frame"
    BY <1>2, <2>1, <2>2 DEF IInv, StreamOK
  <2> QED
    BY <2>11, <2>12, <2>13 DEF StreamOK
<1>7. DatagramOK'
  BY <1>2, <1>3 DEF IInv, DatagramOK, Emptied
<1> QED
  BY <1>1, <1>5, <1>6, <1>7 DEF IInv

\* Frames that were found are handled, and others stay.
LEMMA FoundSplit ==
  ASSUME TypeOK, NEW i \in 0 .. Len(staged)
  PROVE  /\ FramesIn(output \o HandleFrames(SubSeq(staged, 1, i)))
              = FramesIn(output) \o Handled(frames, SubSeq(staged, 1, i))
         /\ Found(frames, output \o HandleFrames(SubSeq(staged, 1, i)),
                  SubSeq(staged, i + 1, Len(staged)))
              = Found(frames, output, staged)
<1> DEFINE n == Len(frames)
           a == SubSeq(staged, 1, i)
           b == SubSeq(staged, i + 1, Len(staged))
<1>1. /\ frames \in Seq(Message) /\ n \in Nat /\ i \in Nat /\ Len(staged) \in Nat
      /\ staged \in Seq(Seq(Places(n))) /\ output \in Seq(0 .. n) /\ i <= Len(staged)
  BY DEF TypeOK
<1>2. /\ a \in Seq(Seq(Places(n))) /\ Len(a) = i
      /\ \A j \in 1 .. i : a[j] = staged[j]
  <2>1. 0 \in Nat /\ 0 <= i /\ 0 + 1 = 1 /\ i - 0 = i
    BY <1>1
  <2>2. /\ SubSeq(staged, 0 + 1, i) \in Seq(Seq(Places(n)))
        /\ Len(SubSeq(staged, 0 + 1, i)) = i - 0
        /\ \A j \in 1 .. i - 0 : SubSeq(staged, 0 + 1, i)[j] = staged[0 + j]
    BY <1>1, <2>1, PieceAfter
  <2> QED
    BY <2>1, <2>2
<1>3. /\ b \in Seq(Seq(Places(n))) /\ Len(b) = Len(staged) - i
      /\ \A j \in 1 .. Len(staged) - i : b[j] = staged[i + j]
  BY <1>1, PieceAfter
<1> HIDE DEF a, b, n
<1>4. staged = a \o b
  <2>1. a \o b \in Seq(Seq(Places(n)))
    BY <1>2, <1>3, ConcatProperties
  <2>2. Len(a \o b) = Len(a) + Len(b)
    BY <1>2, <1>3, ConcatProperties
  <2>3. Len(a) = i /\ Len(b) = Len(staged) - i /\ i \in Nat /\ Len(staged) \in Nat
    BY <1>1, <1>2, <1>3
  <2>4. Len(a \o b) = Len(staged)
    BY <2>2, <2>3
  <2>5. ASSUME NEW j \in 1 .. Len(staged) PROVE staged[j] = (a \o b)[j]
    <3>1. (a \o b)[j] = IF j <= i THEN a[j] ELSE b[j - i]
      <4>1. j \in 1 .. Len(a) + Len(b)
        BY <2>3
      <4>2. (a \o b)[j] = IF j <= Len(a) THEN a[j] ELSE b[j - Len(a)]
        BY <1>2, <1>3, <4>1, ConcatProperties
      <4> QED
        BY <2>3, <4>2
    <3>2. CASE j <= i
      BY <1>1, <1>2, <3>1, <3>2
    <3>3. CASE ~(j <= i)
      <4>1. j - i \in 1 .. Len(staged) - i /\ i + (j - i) = j
        BY <1>1, <3>3
      <4> QED
        BY <1>3, <3>1, <3>3, <4>1
    <3> QED
      BY <3>2, <3>3
  <2> QED
    BY <1>1, <2>1, <2>4, <2>5, SeqEqual
<1>5. Handled(frames, a \o b) = Handled(frames, a) \o Handled(frames, b)
  BY <1>1, <1>2, <1>3, HandledConcat
<1>6. Handled(frames, a) \in Seq(1 .. n) /\ Handled(frames, b) \in Seq(1 .. n)
  BY <1>1, <1>2, <1>3, HandledType
<1>7. FramesIn(output \o Handled(frames, a)) = FramesIn(output) \o Handled(frames, a)
  BY <1>1, <1>6, QueueConcat
<1>8. FramesIn(output) \in Seq(1 .. n)
  BY <1>1, QueueType
<1>9. \A x, y, z \in Seq(1 .. n) : (x \o y) \o z = x \o (y \o z)
  BY ConcatAssociative, SMTT(30)
<1>10. (FramesIn(output) \o Handled(frames, a)) \o Handled(frames, b)
        = FramesIn(output) \o (Handled(frames, a) \o Handled(frames, b))
  BY <1>6, <1>8, <1>9, Zenon
<1>11. HandleFrames(a) = Handled(frames, a)
  BY Names
<1>12. FramesIn(output \o HandleFrames(a)) = FramesIn(output) \o Handled(frames, a)
  BY <1>7, <1>11, Zenon
<1>13. Found(frames, output \o HandleFrames(a), b) = Found(frames, output, staged)
  BY <1>4, <1>5, <1>10, <1>12, Zenon DEF Found
<1> QED
  BY <1>12, <1>13, Zenon DEF a, b

\* Frames found are put out, up to the limit.
LEMMA InvProcess == ASSUME IInv, ProcessRawFrames PROVE IInv'
<1> DEFINE i == Count
<1>1. TypeOK /\ WithinLimit
  BY DEF IInv
<1>2. i \in 0 .. Len(staged) /\ (limit # NoLimit => i <= limit - Len(FramesIn(output)))
  BY <1>1, CountType DEF WithinLimit
<1>3. /\ output' = output \o HandleFrames(SubSeq(staged, 1, i))
      /\ staged' = SubSeq(staged, i + 1, Len(staged))
      /\ Loop(limit = NoLimit \/ Len(FramesIn(output')) < limit)
      /\ UNCHANGED <<transport, limit, sender, taken, datagrams, arrived, processor,
                     starts>>
      /\ pc = "handle"
  BY DEF ProcessRawFrames
<1> HIDE DEF i
<1>4. /\ staged \in Seq(Seq(Places(Len(frames)))) /\ frames \in Seq(Message)
      /\ Len(staged) \in Nat /\ i \in Nat /\ i <= Len(staged) /\ Len(frames) \in Nat
      /\ limit \in Nat
  BY <1>1, <1>2 DEF TypeOK
<1>5. /\ SubSeq(staged, i + 1, Len(staged)) \in Seq(Seq(Places(Len(frames))))
      /\ Len(SubSeq(staged, i + 1, Len(staged))) = Len(staged) - i
      /\ \A j \in 1 .. Len(staged) - i :
           SubSeq(staged, i + 1, Len(staged))[j] = staged[i + j]
  BY <1>4, PieceAfter
<1>6. TypeOK'
  <2>1. staged' \in Seq(Seq(Places(Len(frames))))
    BY <1>3, <1>5, Zenon
  <2> QED
    BY <1>1, <1>2, <1>3, <2>1, TypeHandle
<1>7. FramesIn(output') = FramesIn(output) \o Handled(frames, SubSeq(staged, 1, i))
  BY <1>1, <1>2, <1>3, FoundSplit, Zenon
<1>8. Found(frames, output', staged') = Found(frames, output, staged)
  BY <1>1, <1>2, <1>3, FoundSplit, Zenon
<1>9. WithinLimit'
  <2>1. SubSeq(staged, 1, i) \in Seq(Seq(Places(Len(frames)))) /\ Len(SubSeq(staged, 1, i)) = i
    BY <1>4, Piece
  <2>2. Len(Handled(frames, SubSeq(staged, 1, i))) <= i
    BY <1>4, <2>1, HandledShort
  <2>3. Handled(frames, SubSeq(staged, 1, i)) \in Seq(1 .. Len(frames))
    BY <1>4, <2>1, HandledType
  <2>4. FramesIn(output) \in Seq(1 .. Len(frames))
    BY <1>1, FoundType
  <2>5. Len(FramesIn(output) \o Handled(frames, SubSeq(staged, 1, i)))
          = Len(FramesIn(output)) + Len(Handled(frames, SubSeq(staged, 1, i)))
    BY <2>3, <2>4, ConcatProperties
  <2>6. Len(FramesIn(output)) \in Nat /\ Len(Handled(frames, SubSeq(staged, 1, i))) \in Nat
    BY <2>3, <2>4
  <2>7. Len(FramesIn(output')) = Len(FramesIn(output)) + Len(Handled(frames, SubSeq(staged, 1, i)))
    BY <1>7, <2>5, Zenon
  <2>8. limit' = limit
    BY <1>3
  <2> QED
    BY <1>2, <1>4, <2>2, <2>6, <2>7, <2>8 DEF WithinLimit
<1>10. UNCHANGED <<transport, limit, lengths, frames, taken, arrived, buffer, size,
                   stale, torn>>
  BY <1>3 DEF sender, processor
<1>11. StagedWhole'
  <2>1. SUFFICES ASSUME ~torn, NEW j \in 1 .. Len(staged')
                 PROVE  DecodesIn(frames', staged'[j])
    BY <1>10 DEF StagedWhole
  <2>2. j \in 1 .. Len(staged) - i /\ staged'[j] = staged[i + j]
    BY <1>3, <1>5
  <2>3. i + j \in 1 .. Len(staged)
    BY <1>4, <2>2
  <2>4. DecodesIn(frames, staged[i + j])
    BY <2>1, <2>3 DEF IInv, StagedWhole
  <2> QED
    BY <1>10, <2>2, <2>4, Zenon
<1>12. pc \in {"idle", "recv", "handle"} /\ pc' \in {"idle", "recv", "handle"}
  BY <1>3 DEF Loop
<1> QED
  BY <1>6, <1>8, <1>9, <1>10, <1>11, <1>12, Settled

\* decode_frame raises on what is no frame, which only a torn stream has.
LEMMA InvRaises == ASSUME IInv, DecodeRaises PROVE IInv'
<1>1. PICK i \in DOMAIN staged : ~Decodes(staged[i])
        /\ output' = output \o HandleFrames(SubSeq(staged, 1, i - 1))
  BY DEF DecodeRaises
<1>2. TypeOK /\ staged \in Seq(Seq(Places(Len(frames))))
  BY DEF IInv, TypeOK
<1>3. i \in 1 .. Len(staged) /\ i - 1 \in 0 .. Len(staged)
  BY <1>2
<1>4. torn
  BY <1>1, <1>3, Names DEF IInv, StagedWhole
<1>5. /\ staged' = <<>> /\ Loop(FALSE) /\ pc = "handle"
      /\ UNCHANGED <<transport, limit, sender, taken, datagrams, arrived, processor,
                     starts>>
  BY DEF DecodeRaises
<1>6. <<>> \in Seq(Seq(Places(Len(frames))))
  OBVIOUS
<1>7. staged' \in Seq(Seq(Places(Len(frames))))
  BY <1>5, <1>6, Zenon
<1>8. TypeOK'
  BY <1>1, <1>2, <1>3, <1>5, <1>7, TypeHandle
<1>9. UNCHANGED <<transport, limit, lengths, frames, taken, arrived, buffer, size,
                  stale, torn>>
  BY <1>5 DEF sender, processor
<1>10. WithinLimit' /\ StagedWhole'
  BY <1>2, <1>4, <1>9 DEF IInv, WithinLimit, StagedWhole, TornOK, TypeOK
<1>11. pc \in {"idle", "recv", "handle"} /\ pc' \in {"idle", "recv", "handle"}
  BY <1>5 DEF Loop
<1> QED
  BY <1>4, <1>8, <1>9, <1>10, <1>11, Settled

\* A message is cut into frames.
LEMMA CutMore ==
  ASSUME NEW fr \in Seq(Message), NEW ls \in Seq(Nat), NEW more \in Seq(Message),
         NEW length \in Nat, NEW r \in Nat \ {0}, MessagesCut(fr, ls),
         Len(more) = FramesRequired(length, r),
         \A i \in 1 .. Len(more) : more[i] =
           MessageFrame(Len(ls) + 1, i - 1, FramesRequired(length, r),
                        Fragment(length, r, i - 1))
  PROVE  MessagesCut(fr \o more, Append(ls, length))
<1> DEFINE fs == fr \o more
           ms == Append(ls, length)
           n == Len(fr)
           u == Len(more)
           l == Len(ls)
<1>1. n \in Nat /\ u \in Nat /\ l \in Nat
  OBVIOUS
<1>2. Len(fs) = n + u
  BY ConcatProperties
<1>3. Len(ms) = l + 1
  BY AppendProperties
<1>4. ms[l + 1] = length /\ \A m \in 1 .. l : ms[m] = ls[m]
  OBVIOUS
<1>5. Len(fs) = n + u /\ Len(ms) = l + 1 /\ ms[l + 1] = length
      /\ \A m \in 1 .. l : ms[m] = ls[m]
  BY <1>2, <1>3, <1>4, Zenon
<1>6. (\A f \in 1 .. n : fs[f] = fr[f]) /\ \A i \in 1 .. u : fs[n + i] = more[i]
  OBVIOUS
<1>7. \A i \in 1 .. u : more[i].message = l + 1
  BY DEF MessageFrame
<1>8. \A f \in 1 .. n : fr[f].message <= l
  BY DEF MessagesCut
<1>9. \A f \in 1 .. n : fr[f].message \in Nat
  <2>1. \A f \in 1 .. n : fr[f] \in Message
    OBVIOUS
  <2> QED
    BY <2>1 DEF Message
<1>10. \A f \in 1 .. n + u : f \in 1 .. n \/ (f - n \in 1 .. u /\ n + (f - n) = f)
  BY <1>1
<1> HIDE DEF fs, ms, n, u, l
<1>11. \A f \in 1 .. n : fs[f].message \in Nat /\ fs[f].message <= l
  BY <1>6, <1>8, <1>9
<1>12. \A f \in 1 .. n + u : f \notin 1 .. n => fs[f].message = l + 1
  BY <1>6, <1>7, <1>10
<1>13. \A f \in 1 .. Len(fs) : fs[f].message <= Len(ms)
  BY <1>1, <1>5, <1>11, <1>12, SMTT(30)
<1>14. ASSUME NEW m \in 1 .. l
       PROVE  \E b \in 0 .. Len(fs) : \E q \in Nat \ {0} : CutAt(fs, ms, m, b, q)
  <2>1. PICK b \in 0 .. n : \E q \in Nat \ {0} : CutAt(fr, ls, m, b, q)
    BY DEF MessagesCut, l, n
  <2>2. PICK q \in Nat \ {0} : CutAt(fr, ls, m, b, q)
    BY <2>1
  <2> DEFINE t == FramesRequired(ls[m], q)
  <2>3. t \in Nat
    <3>1. ls[m] \in Nat
      BY DEF l
    <3> QED
      BY <3>1, RequiredIs
  <2> HIDE DEF t
  <2>4. /\ b + t <= n
        /\ \A f \in 1 .. n : fr[f].message = m <=> f \in b + 1 .. b + t
        /\ \A i \in 1 .. t :
             fr[b + i] = MessageFrame(m, i - 1, t, Fragment(ls[m], q, i - 1))
    BY <2>2 DEF CutAt, t, n
  <2>5. b + t <= Len(fs)
    BY <1>1, <1>5, <2>3, <2>4, SMTT(30)
  <2>6. ASSUME NEW f \in 1 .. Len(fs)
        PROVE  fs[f].message = m <=> f \in b + 1 .. b + t
    <3>1. CASE f \in 1 .. n
      BY <1>6, <2>4, <3>1
    <3>2. CASE f \notin 1 .. n
      <4>1. fs[f].message = l + 1
        BY <1>5, <1>12, <3>2
      <4>2. f \notin b + 1 .. b + t
        BY <1>1, <2>3, <2>4, <3>2
      <4> QED
        BY <1>1, <4>1, <4>2
    <3> QED
      BY <3>1, <3>2
  <2>7. ASSUME NEW i \in 1 .. t
        PROVE  fs[b + i] = MessageFrame(m, i - 1, t, Fragment(ls[m], q, i - 1))
    <3>1. b + i \in 1 .. n
      BY <1>1, <2>3, <2>4, SMTT(30)
    <3> QED
      BY <1>6, <2>4, <3>1
  <2>8. ms[m] = ls[m]
    BY <1>5
  <2>9. CutAt(fs, ms, m, b, q)
    BY <2>5, <2>6, <2>7, <2>8 DEF CutAt, t
  <2>10. b \in 0 .. Len(fs)
    BY <1>1, <1>5
  <2> QED
    BY <2>9, <2>10
<1>15. CutAt(fs, ms, l + 1, n, r)
  <2>1. FramesRequired(ms[l + 1], r) = u
    BY <1>5 DEF u
  <2>2. n + u <= Len(fs)
    BY <1>1, <1>5
  <2>3. ASSUME NEW f \in 1 .. Len(fs)
        PROVE  fs[f].message = l + 1 <=> f \in n + 1 .. n + u
    <3>1. CASE f \in 1 .. n
      BY <1>1, <1>11, <3>1
    <3>2. CASE f \notin 1 .. n
      <4>1. fs[f].message = l + 1
        BY <1>5, <1>12, <3>2
      <4>2. f \in n + 1 .. n + u
        BY <1>1, <1>5, <3>2
      <4> QED
        BY <4>1, <4>2
    <3> QED
      BY <3>1, <3>2
  <2>4. ASSUME NEW i \in 1 .. u
        PROVE  fs[n + i] = MessageFrame(l + 1, i - 1, u, Fragment(ms[l + 1], r, i - 1))
    BY <1>5, <1>6 DEF u, l
  <2> QED
    BY <2>1, <2>2, <2>3, <2>4 DEF CutAt
<1>16. ASSUME NEW m \in 1 .. Len(ms)
       PROVE  \E b \in 0 .. Len(fs) : \E q \in Nat \ {0} : CutAt(fs, ms, m, b, q)
  <2>1. m \in 1 .. l \/ m = l + 1
    BY <1>1, <1>5
  <2>2. n \in 0 .. Len(fs)
    BY <1>1, <1>5
  <2> QED
    BY <1>14, <1>15, <2>1, <2>2
<1> QED
  BY <1>13, <1>16 DEF MessagesCut, fs, ms

\* A message is sent.
LEMMA InvSend ==
  ASSUME IInv, NEW n \in Lengths, NEW mtu \in SenderMtus, SendMessage(n, mtu)
  PROVE  IInv'
<1> DEFINE more == Serialize(Len(lengths) + 1, n, mtu)
           r == mtu - Overhead
           total == FramesRequired(n, r)
<1>1. TypeOK /\ TypeOK'
  BY TypeSend DEF IInv
<1>2. /\ frames \in Seq(Message) /\ lengths \in Seq(Nat) /\ n \in Nat
      /\ Len(lengths) + 1 \in Nat /\ Len(frames) \in Nat
  <2>1. n \in Nat
    BY StreamAssumption
  <2>2. frames \in Seq(Message) /\ lengths \in Seq(Nat)
    BY <1>1 DEF TypeOK
  <2>3. Len(lengths) \in Nat /\ Len(frames) \in Nat
    BY <2>2, LenProperties
  <2> QED
    BY <2>1, <2>2, <2>3
<1>3. /\ r \in Nat \ {0} /\ total \in Nat /\ more \in Seq(Message) /\ Len(more) = total
      /\ \A f \in 1 .. total :
           more[f] = MessageFrame(Len(lengths) + 1, f - 1, total, Fragment(n, r, f - 1))
  BY <1>2, SerializeIs
<1>4. /\ lengths' = Append(lengths, n) /\ frames' = frames \o more
      /\ UNCHANGED <<transport, limit, network, processor, staged, output, pc, daemon>>
      /\ (transport \in {"tcp", "file"} => mtu <= Mtu)
  BY DEF SendMessage
<1>5. UNCHANGED <<transport, limit, taken, arrived, buffer, size, stale, torn, staged,
                  output, pc>>
  BY <1>4 DEF network, processor
<1> HIDE DEF more, r, total
<1>6. MessagesCut(frames', lengths')
  <2>1. \A i \in 1 .. Len(more) : more[i] =
          MessageFrame(Len(lengths) + 1, i - 1, FramesRequired(n, r), Fragment(n, r, i - 1))
    BY <1>3 DEF total
  <2>2. MessagesCut(frames, lengths)
    BY DEF IInv
  <2>3. Len(more) = FramesRequired(n, r)
    BY <1>3 DEF total
  <2>4. MessagesCut(frames \o more, Append(lengths, n))
    BY <1>2, <1>3, <2>1, <2>2, <2>3, CutMore
  <2> QED
    BY <1>4, <2>4, Zenon
<1>7. SizesFit'
  <2>1. SUFFICES ASSUME transport \in {"tcp", "file"}, NEW f \in 1 .. Len(frames')
                 PROVE  SizeOf(frames', f) <= Mtu
    BY <1>5 DEF SizesFit
  <2>2. CASE f \in 1 .. Len(frames)
    <3>1. 0 \in 0 .. Len(frames)
      BY <1>2
    <3>2. SizeOf(frames \o more, f) = SizeOf(frames, f)
      BY <1>2, <1>3, <2>2, <3>1, MoreFrames
    <3>3. SizeOf(frames, f) <= Mtu
      BY <2>1, <2>2 DEF IInv, SizesFit
    <3> QED
      BY <1>4, <3>2, <3>3
  <2>3. CASE f \notin 1 .. Len(frames)
    <3> DEFINE i == f - Len(frames)
    <3>1. i \in 1 .. total /\ frames'[f] = more[i]
      BY <1>2, <1>3, <1>4, <2>3
    <3>2. i - 1 \in Nat /\ i - 1 < total
      BY <1>3, <3>1
    <3> HIDE DEF i
    <3>3. frames'[f].bytes = Fragment(n, r, i - 1)
      BY <1>3, <3>1 DEF MessageFrame
    <3>4. Len(Fragment(n, r, i - 1)) <= r /\ Fragment(n, r, i - 1) \in Seq(Nat)
      BY <1>2, <1>3, <3>2, FragmentIs DEF total
    <3>5. SizeOf(frames', f) = Overhead + Len(Fragment(n, r, i - 1))
      BY <3>3 DEF SizeOf
    <3>6. Len(Fragment(n, r, i - 1)) \in Nat /\ Overhead \in Nat /\ mtu \in Nat /\ Mtu \in Nat
      BY <3>4, StreamAssumption
    <3>7. r = mtu - Overhead /\ mtu <= Mtu
      BY <1>4, <2>1 DEF r
    <3> QED
      BY <3>4, <3>5, <3>6, <3>7
  <2> QED
    BY <2>2, <2>3
<1>8. Handled(frames', staged) = Handled(frames, staged)
  BY <1>1, <1>2, <1>3, <1>4, HandledMore DEF TypeOK
<1>9. Found(frames', output', staged') = Found(frames, output, staged)
  BY <1>5, <1>8, Zenon DEF Found
<1>10. StagedWhole'
  <2>1. SUFFICES ASSUME ~torn, NEW i \in 1 .. Len(staged)
                 PROVE  DecodesIn(frames', staged[i])
    BY <1>5 DEF StagedWhole
  <2>2. staged[i] \in Seq(Places(Len(frames))) /\ staged \in Seq(Seq(Places(Len(frames))))
    <3>1. staged \in Seq(Seq(Places(Len(frames))))
      BY <1>1, Zenon DEF TypeOK
    <3> QED
      BY <3>1
  <2>3. DecodesIn(frames, staged[i])
    BY <2>1 DEF IInv, StagedWhole
  <2>4. DecodesIn(frames \o more, staged[i]) <=> DecodesIn(frames, staged[i])
    BY <1>2, <1>3, <2>2, HandledMore
  <2> QED
    BY <1>4, <2>3, <2>4, Zenon
<1>11. WithinLimit' /\ TornOK'
  BY <1>5 DEF IInv, WithinLimit, TornOK
<1>12. Len(frames') \in Nat /\ Len(frames) <= Len(frames')
  BY <1>2, <1>3, <1>4
<1>13. StreamOK'
  <2>1. SUFFICES ASSUME transport \in {"tcp", "file"}, ~torn PROVE StreamOK'
    BY <1>5 DEF StreamOK
  <2>2. PICK h \in 0 .. Len(frames) : \E g \in 0 .. h : StreamWaits(g, h)
    BY <2>1 DEF IInv, StreamOK
  <2>3. PICK g \in 0 .. h : StreamWaits(g, h)
    BY <2>2
  <2>4. /\ buffer \in Seq(Places(Len(frames))) /\ stale \in BOOLEAN /\ taken \in Nat
        /\ StreamAt(frames, buffer, size, stale, taken, g, h)
    BY <1>1, <2>3 DEF TypeOK, StreamWaits
  <2>5. StreamAt(frames \o more, buffer, size, stale, taken, g, h)
    BY <1>2, <1>3, <2>4, StreamMore
  <2>6. StreamAt(frames, buffer, size, stale, taken, g, h)'
    BY <1>4, <1>5, <2>5, Zenon
  <2>7. StreamWaits(g, h)'
    BY <1>5, <1>9, <2>3, <2>6 DEF StreamWaits
  <2>8. h \in 0 .. Len(frames') /\ g \in 0 .. h
    BY <1>2, <1>12
  <2>9. size' <= Mtu /\ (pc' = "frame" => ~stale')
    BY <1>5, <2>1 DEF IInv, StreamOK
  <2> QED
    BY <2>7, <2>8, <2>9 DEF StreamOK
<1>14. DatagramOK'
  <2>1. SUFFICES ASSUME transport \in {"udp", "websocket"} PROVE DatagramOK'
    BY <1>5 DEF DatagramOK
  <2> DEFINE fnd == Found(frames, output, staged)
  <2>2. \A f \in 1 .. Len(frames) : f \in 1 .. Len(frames')
    BY <1>2, <1>12
  <2>3. \A f \in 1 .. Len(frames) : SizeOf(frames', f) = SizeOf(frames, f)
    <3>1. 0 \in 0 .. Len(frames)
      BY <1>2
    <3> QED
      BY <1>2, <1>3, <1>4, <3>1, MoreFrames
  <2>4. Found(frames', output', staged') = fnd
    BY <1>9
  <2> HIDE DEF fnd
  <2>5. ~torn'
    BY <1>5, <2>1 DEF IInv, DatagramOK
  <2>6. pc' \in {"idle", "recv", "handle"} =>
          Emptied(buffer', stale', arrived', fnd)
    BY <1>5, <2>1 DEF IInv, DatagramOK, Emptied, fnd
  <2>7. ASSUME pc' = "size"
        PROVE  /\ stale'
               /\ \/ Emptied(buffer', stale', arrived', fnd)
                  \/ \E f \in 1 .. Len(frames') :
                       DatagramWaits(frames', buffer', arrived', fnd, f)
    BY <1>5, <2>1, <2>2, <2>3, <2>7 DEF IInv, DatagramOK, Emptied, DatagramWaits, fnd
  <2>8. ASSUME pc' = "frame"
        PROVE  \E f \in 1 .. Len(frames') :
                 FrameWaits(frames', buffer', size', arrived', fnd, f)
    BY <1>5, <2>1, <2>2, <2>3, <2>8 DEF IInv, DatagramOK, FrameWaits, fnd
  <2> QED
    BY <2>4, <2>5, <2>6, <2>7, <2>8 DEF DatagramOK
<1> QED
  BY <1>1, <1>6, <1>7, <1>10, <1>11, <1>13, <1>14 DEF IInv

\* The next bytes of a stream.
LEMMA InvRead ==
  ASSUME IInv, NEW n \in Nat, Read(n), transport \in {"tcp", "file"}
  PROVE  IInv'
<1>1. TypeOK /\ TypeOK'
  BY TypeRead DEF IInv
<1>2. /\ frames \in Seq(Message) /\ taken \in Nat /\ Len(frames) \in Nat
      /\ buffer \in Seq(Places(Len(frames))) /\ stale \in BOOLEAN
  BY <1>1 DEF TypeOK
<1>3. UNCHANGED <<transport, limit, lengths, frames, size, stale, torn, staged, output>>
      /\ pc' = "size"
  BY DEF Read, Process, sender
<1>4. WithinLimit' /\ SizesFit' /\ StagedWhole' /\ TornOK'
      /\ MessagesCut(frames, lengths)'
  BY <1>3 DEF IInv, WithinLimit, SizesFit, StagedWhole, TornOK
<1>5. DatagramOK'
  BY <1>3 DEF DatagramOK
<1>6. StreamOK'
  <2>1. SUFFICES ASSUME ~torn PROVE StreamOK'
    BY <1>3 DEF StreamOK
  <2>2. PICK h \in 0 .. Len(frames) : \E g \in 0 .. h : StreamWaits(g, h)
    BY <2>1 DEF IInv, StreamOK
  <2>3. PICK g \in 0 .. h : StreamWaits(g, h)
    BY <2>2
  <2>4. taken + n \in Nat /\ taken + n <= End(frames, Len(frames))
    BY <1>2, BytesName DEF Read
  <2>5. PICK k \in 0 .. Len(frames) : Ended(frames, k, taken + n)
    BY <1>2, <2>4, EndedExists
  <2>6. StreamAt(frames, buffer, size, stale, taken, g, h) /\ Ended(frames, h, taken)
    BY <2>3 DEF StreamWaits, StreamAt
  <2> DEFINE b == buffer \o SubSeq(Flat(frames, Len(frames)), taken + 1, taken + n)
  <2>7. h <= k /\ StreamAt(frames, b, size, stale, taken + n, g, k)
    BY <1>2, <2>4, <2>5, <2>6, StreamRead
  <2>8. frames \in Seq(Message) /\ taken \in Nat /\ Ended(frames, h, taken)
    BY <1>2, <2>6
  <2>9. Ends(frames, Len(frames), taken + 1, taken + n) = Upto(h, k)
    BY <2>5, <2>8, EndsIs
  <2>10. buffer' = b /\ taken' = taken + n /\ arrived' = arrived \o EndingIn(taken + 1, taken + n)
    BY <1>2, BytesName DEF Read, Process
  <2> HIDE DEF b
  <2>11. EndingIn(taken + 1, taken + n) = Upto(h, k)
    BY <1>2, <2>9, BytesName, Zenon
  <2>12. g \in Nat /\ h \in Nat /\ k \in Nat /\ g <= h /\ g \in 0 .. k
    BY <1>2, <2>7
  <2>13. Upto(g, k) = Upto(g, h) \o Upto(h, k)
    BY <2>7, <2>12, UptoConcat
  <2> DEFINE fnd == Found(frames, output, staged)
  <2>14. fnd \in Seq(Nat)
    <3>1. fnd \in Seq(1 .. Len(frames))
      BY <1>1, FoundType
    <3>2. Seq(1 .. Len(frames)) \subseteq Seq(Nat)
      BY <1>2
    <3> QED
      BY <3>1, <3>2, Zenon
  <2>15. Upto(g, h) \in Seq(Nat)
    BY <2>12, UptoSeq
  <2>16. Upto(h, k) \in Seq(Nat)
    BY <2>7, <2>12, UptoSeq
  <2>17. arrived = fnd \o Upto(g, h)
    BY <2>3 DEF StreamWaits
  <2> HIDE DEF fnd
  <2>18. (fnd \o Upto(g, h)) \o Upto(h, k) = fnd \o (Upto(g, h) \o Upto(h, k))
    BY <2>14, <2>15, <2>16, Regroup, Zenon
  <2>19. arrived' = fnd \o Upto(g, k)
    BY <2>10, <2>11, <2>13, <2>17, <2>18, Zenon
  <2>20. arrived' = Found(frames', output', staged') \o Upto(g, k)
    BY <1>3, <2>19, Zenon DEF fnd
  <2>21. StreamAt(frames', buffer', size', stale', taken', g, k)
    BY <1>3, <2>7, <2>10, Zenon
  <2>22. StreamWaits(g, k)'
    BY <1>3, <2>20, <2>21 DEF StreamWaits
  <2>23. size' <= Mtu /\ pc' # "frame"
    BY <1>3, <2>1 DEF IInv, StreamOK
  <2>24. k \in 0 .. Len(frames') /\ g \in 0 .. k
    BY <1>3, <2>12
  <2> QED
    BY <2>22, <2>23, <2>24 DEF StreamOK
<1> QED
  BY <1>1, <1>4, <1>5, <1>6 DEF IInv

\* A datagram, or as much of it as there is room for.
LEMMA InvArrives ==
  ASSUME IInv, TypeOK', transport \in {"udp", "websocket"}, NEW f \in 1 .. Len(frames),
         NEW new \in Seq(Places(Len(frames))), Process(new), Arrives(f),
         SizeBytes <= Len(new), Len(new) <= SizeBytes + SizeOf(frames, f),
         SizeOf(frames, f) <= Mtu => Len(new) = SizeBytes + SizeOf(frames, f),
         \A i \in 1 .. Len(new) : new[i] = Sent(frames, f)[i]
  PROVE  IInv'
<1>1. TypeOK /\ frames \in Seq(Message)
  BY DEF IInv, TypeOK
<1>2. UNCHANGED <<transport, limit, lengths, frames, size, stale, torn, staged, output>>
      /\ pc = "recv" /\ pc' = "size"
  BY DEF Process, sender
<1>3. WithinLimit' /\ SizesFit' /\ StagedWhole' /\ TornOK'
      /\ MessagesCut(frames, lengths)'
  BY <1>2 DEF IInv, WithinLimit, SizesFit, StagedWhole, TornOK
<1>4. StreamOK'
  BY <1>2 DEF StreamOK
<1> DEFINE fnd == Found(frames, output, staged)
<1>5. buffer = <<>> /\ stale /\ arrived = fnd /\ ~torn
  BY <1>2 DEF IInv, DatagramOK, Emptied
<1>6. buffer' = new
  BY <1>5 DEF Process
<1>7. BytesFrom(new, f, 1 - SizeBytes)
  <2>1. ASSUME NEW i \in 1 .. Len(new) PROVE new[i] = <<f, i + (1 - SizeBytes) - 1>>
    <3>1. SizeBytes \in Nat /\ SizeOf(frames, f) \in Nat
      BY <1>1, SizeType, StreamAssumption
    <3>2. i \in 1 .. SizeBytes + SizeOf(frames, f)
          /\ i + (1 - SizeBytes) - 1 = i - SizeBytes
      BY <3>1
    <3>3. Sent(frames, f)[i] = <<f, i - SizeBytes>>
      BY <1>1, <3>2, SentType
    <3> QED
      BY <3>2, <3>3
  <2> QED
    BY <2>1 DEF BytesFrom
<1>8. arrived' = IF SizeOf(frames, f) <= Mtu THEN Append(fnd, f) ELSE fnd
  BY <1>5, Names, Zenon DEF Arrives
<1>9. Found(frames', output', staged') = fnd
  BY <1>2
<1> HIDE DEF fnd
<1>10. DatagramWaits(frames', buffer', arrived', fnd, f)
  BY <1>2, <1>6, <1>7, <1>8 DEF DatagramWaits
<1>11. DatagramOK'
  BY <1>2, <1>5, <1>9, <1>10 DEF DatagramOK
<1> QED
  BY <1>3, <1>4, <1>11 DEF IInv

\* A datagram, received.
LEMMA InvDatagram ==
  ASSUME IInv, NEW f \in DOMAIN frames, RecvUdp(f) \/ RecvWebsocket(f)
  PROVE  IInv'
<1>1. TypeOK /\ TypeOK'
  BY TypeDatagram DEF IInv
<1>2. frames \in Seq(Message) /\ f \in 1 .. Len(frames)
  <2>1. frames \in Seq(Message)
    BY <1>1, Zenon DEF TypeOK
  <2> QED
    BY <2>1
<1>3. /\ Sent(frames, f) \in Seq(Places(Len(frames)))
      /\ Len(Sent(frames, f)) = SizeBytes + SizeOf(frames, f)
  BY <1>2, SentType
<1>4. SizeBytes \in Nat /\ SizeOf(frames, f) \in Nat /\ Mtu \in Nat
      /\ RecvMax = Mtu + SizeBytes
  BY <1>2, SizeType, StreamAssumption DEF RecvMax
<1>5. WithSizeHeader(f) = Sent(frames, f)
  BY Names
<1>6. CASE RecvUdp(f)
  <2> DEFINE n == Min({Len(Sent(frames, f)), RecvMax})
             new == SubSeq(Sent(frames, f), 1, n)
  <2>1. /\ n = IF SizeBytes + SizeOf(frames, f) <= Mtu + SizeBytes
                 THEN SizeBytes + SizeOf(frames, f) ELSE Mtu + SizeBytes
    <3>1. SizeBytes + SizeOf(frames, f) \in Int /\ Mtu + SizeBytes \in Int
      BY <1>4
    <3>2. Min({SizeBytes + SizeOf(frames, f), Mtu + SizeBytes})
            = IF SizeBytes + SizeOf(frames, f) <= Mtu + SizeBytes
                THEN SizeBytes + SizeOf(frames, f) ELSE Mtu + SizeBytes
      BY <3>1, MinTwo
    <3> QED
      BY <1>3, <1>4, <3>2, Zenon
  <2>2. Process(new) /\ Arrives(f) /\ transport = "udp"
    BY <1>5, <1>6, Zenon DEF RecvUdp
  <2> HIDE DEF n
  <2>3. n \in Nat /\ SizeBytes <= n /\ n <= SizeBytes + SizeOf(frames, f)
        /\ (SizeOf(frames, f) <= Mtu => n = SizeBytes + SizeOf(frames, f))
    BY <1>4, <2>1
  <2>4. /\ new \in Seq(Places(Len(frames))) /\ Len(new) = n
        /\ \A i \in 1 .. n : new[i] = Sent(frames, f)[i]
    <3>1. 1 \in Nat /\ 1 <= 1 /\ 1 <= n + 1 /\ n <= Len(Sent(frames, f)) /\ n - 1 + 1 = n
      BY <1>3, <2>3
    <3>2. /\ new \in Seq(Places(Len(frames))) /\ Len(new) = n - 1 + 1
          /\ \A i \in 1 .. n - 1 + 1 : new[i] = Sent(frames, f)[1 + i - 1]
      BY <1>3, <2>3, <3>1, Piece
    <3>3. \A i \in Int : 1 + i - 1 = i
      OBVIOUS
    <3> QED
      BY <3>1, <3>2, <3>3
  <2> HIDE DEF new
  <2> QED
    BY <1>1, <1>2, <2>2, <2>3, <2>4, InvArrives
<1>7. CASE RecvWebsocket(f)
  <2>1. Process(Sent(frames, f)) /\ Arrives(f) /\ transport = "websocket"
    BY <1>5, <1>7, Zenon DEF RecvWebsocket
  <2>2. SizeBytes <= Len(Sent(frames, f))
        /\ Len(Sent(frames, f)) <= SizeBytes + SizeOf(frames, f)
    BY <1>3, <1>4
  <2> QED
    BY <1>1, <1>2, <1>3, <2>1, <2>2, InvArrives
<1> QED
  BY <1>6, <1>7

\* What a header says.
LEMMA HeaderIs ==
  ASSUME TypeOK, NEW f \in 1 .. Len(frames), SizeBytes <= Len(buffer),
         \A i \in 1 .. SizeBytes : buffer[i] = <<f, i - SizeBytes>>
  PROVE  HeaderValue(SubSeq(buffer, 1, SizeBytes)) = {SizeOf(frames, f)}
<1> DEFINE b == SubSeq(buffer, 1, SizeBytes)
           c == SubSeq(Sent(frames, f), 1, SizeBytes)
<1>1. /\ frames \in Seq(Message) /\ buffer \in Seq(Places(Len(frames)))
      /\ SizeBytes \in Nat /\ 1 <= SizeBytes
  BY StreamAssumption DEF TypeOK
<1>2. /\ Sent(frames, f) \in Seq(Places(Len(frames)))
      /\ Len(Sent(frames, f)) = SizeBytes + SizeOf(frames, f)
      /\ \A k \in 1 .. SizeBytes + SizeOf(frames, f) :
           Sent(frames, f)[k] = <<f, k - SizeBytes>>
  BY <1>1, SentType
<1>3. SizeOf(frames, f) \in Nat
  BY <1>1, SizeType
<1>4. 1 \in Nat /\ 1 <= 1 /\ 1 <= SizeBytes + 1 /\ SizeBytes - 1 + 1 = SizeBytes
      /\ SizeBytes <= Len(Sent(frames, f))
  BY <1>1, <1>2, <1>3
<1>5. /\ b \in Seq(Places(Len(frames))) /\ Len(b) = SizeBytes - 1 + 1
      /\ \A i \in 1 .. SizeBytes - 1 + 1 : b[i] = buffer[1 + i - 1]
  BY <1>1, <1>4, Piece, SMTT(20)
<1>6. /\ c \in Seq(Places(Len(frames))) /\ Len(c) = SizeBytes - 1 + 1
      /\ \A i \in 1 .. SizeBytes - 1 + 1 : c[i] = Sent(frames, f)[1 + i - 1]
  BY <1>1, <1>2, <1>4, Piece
<1> HIDE DEF b, c
<1>7. Len(b) = SizeBytes /\ Len(c) = SizeBytes
  BY <1>4, <1>5, <1>6
<1>8. ASSUME NEW i \in 1 .. SizeBytes
      PROVE  b[i] = <<f, i - SizeBytes>> /\ c[i] = <<f, i - SizeBytes>>
  <2>1. i \in 1 .. SizeBytes - 1 + 1 /\ 1 + i - 1 = i
        /\ i \in 1 .. SizeBytes + SizeOf(frames, f)
    BY <1>1, <1>3
  <2> QED
    BY <1>2, <1>5, <1>6, <2>1
<1>9. b = c
  BY <1>5, <1>6, <1>7, <1>8, SeqEqual
<1>10. b[1][1] = f
  BY <1>1, <1>8
<1>11. HeaderValue(b) = {SizeOf(frames, f)}
  BY <1>9, <1>10, Names, Zenon DEF HeaderValue, c
<1> QED
  BY <1>11 DEF b

\* The size of a frame, read or waited for.
LEMMA InvReadSize == ASSUME IInv, ReadSize PROVE IInv'
<1>1. TypeOK /\ TypeOK'
  BY TypeReadSize DEF IInv
<1>2. UNCHANGED <<transport, limit, lengths, frames, taken, arrived, torn, staged, output>>
      /\ pc = "size"
  BY DEF ReadSize, sender, network
<1>3. WithinLimit' /\ SizesFit' /\ StagedWhole' /\ TornOK'
      /\ MessagesCut(frames, lengths)'
  BY <1>2 DEF IInv, WithinLimit, SizesFit, StagedWhole, TornOK
<1>4. /\ frames \in Seq(Message) /\ taken \in Nat /\ Len(frames) \in Nat
      /\ buffer \in Seq(Places(Len(frames))) /\ stale \in BOOLEAN /\ size \in Nat
      /\ SizeBytes \in Nat /\ SizeBytes > 0 /\ Len(buffer) \in Nat /\ Mtu \in Nat
  <2>1. frames \in Seq(Message) /\ buffer \in Seq(Places(Len(frames)))
    BY <1>1, Zenon DEF TypeOK
  <2>2. taken \in Nat /\ stale \in BOOLEAN /\ size \in Nat
    BY <1>1, Zenon DEF TypeOK
  <2>3. Len(frames) \in Nat /\ Len(buffer) \in Nat
    BY <2>1, LenProperties
  <2>4. SizeBytes \in Nat /\ SizeBytes > 0 /\ Mtu \in Nat
    BY StreamAssumption
  <2> QED
    BY <2>1, <2>2, <2>3, <2>4, Zenon
<1> DEFINE unread == SubSeq(buffer, SizeBytes + 1, Len(buffer))
<1>5. StreamOK'
  <2>1. SUFFICES ASSUME transport \in {"tcp", "file"}, ~torn PROVE StreamOK'
    BY <1>2 DEF StreamOK
  <2>2. PICK h \in 0 .. Len(frames) : \E g \in 0 .. h : StreamWaits(g, h)
    BY <2>1 DEF IInv, StreamOK
  <2>3. PICK g \in 0 .. h : StreamWaits(g, h)
    BY <2>2
  <2>4. /\ StreamAt(frames, buffer, size, stale, taken, g, h)
        /\ arrived = Found(frames, output, staged) \o Upto(g, h)
    BY <2>3 DEF StreamWaits
  <2>5. size <= Mtu
    BY <2>1 DEF IInv, StreamOK
  <2>6. /\ StreamAt(frames', buffer', size', stale', taken', g, h)
        /\ size' <= Mtu /\ (pc' = "frame" => ~stale')
        /\ pc' \notin {"size", "frame"} => h = g
    <3>1. CASE stale /\ Len(buffer) >= SizeBytes
      <4>1. stale = TRUE /\ SizeBytes <= Len(buffer)
        BY <1>4, <3>1
      <4>2. StreamAt(frames, buffer, size, TRUE, taken, g, h)
        BY <2>4, <4>1
      <4>3. /\ g + 1 \in 1 .. Len(frames)
            /\ \A i \in 1 .. SizeBytes : buffer[i] = <<g + 1, i - SizeBytes>>
            /\ StreamAt(frames, unread, SizeOf(frames, g + 1), FALSE, taken, g, h)
        BY <1>4, <4>1, <4>2, StreamHeader
      <4>4. HeaderValue(SubSeq(buffer, 1, SizeBytes)) = {SizeOf(frames, g + 1)}
        BY <1>1, <4>1, <4>3, HeaderIs
      <4>5. Continue(SizeOf(frames, g + 1), unread, TRUE)
        BY <3>1, <4>4 DEF ReadSize
      <4>6. SizeOf(frames, g + 1) <= Mtu /\ SizeOf(frames, g + 1) \in Nat
        BY <1>4, <2>1, <4>3, SizeType DEF IInv, SizesFit
      <4>7. unread \in Seq(Places(Len(frames)))
        BY <1>4, <4>1, PieceAfter
      <4> HIDE DEF unread
      <4>8. /\ size' = SizeOf(frames, g + 1) /\ buffer' = unread /\ stale' = FALSE
            /\ pc' = IF SizeOf(frames, g + 1) <= Len(unread) THEN "frame" ELSE "handle"
        BY <4>5, <4>6 DEF Continue, Reasonable
      <4>9. StreamAt(frames', buffer', size', stale', taken', g, h)
        BY <1>2, <4>3, <4>8, Zenon
      <4>10. ASSUME pc' \notin {"size", "frame"} PROVE h = g
        <5>1. Len(unread) < SizeOf(frames, g + 1)
          BY <4>6, <4>7, <4>8, <4>10
        <5> QED
          BY <1>4, <4>3, <4>7, <5>1, StreamShort
      <4> QED
        BY <4>6, <4>8, <4>9, <4>10
    <3>2. CASE ~(stale /\ Len(buffer) >= SizeBytes)
      <4>1. Continue(size, buffer, ~stale)
        BY <3>2 DEF ReadSize
      <4>2. /\ size' = size /\ buffer' = buffer /\ stale' = stale
            /\ pc' = IF ~stale /\ size <= Len(buffer) THEN "frame" ELSE "handle"
        BY <1>4, <2>5, <4>1 DEF Continue, Reasonable
      <4>3. StreamAt(frames', buffer', size', stale', taken', g, h)
        BY <1>2, <2>4, <4>2, Zenon
      <4>4. ASSUME pc' \notin {"size", "frame"} PROVE h = g
        <5>1. IF stale THEN Len(buffer) < SizeBytes ELSE Len(buffer) < size
          BY <1>4, <3>2, <4>2, <4>4
        <5>2. CASE stale
          <6>1. StreamAt(frames, buffer, size, TRUE, taken, g, h) /\ Len(buffer) < SizeBytes
            BY <1>4, <2>4, <5>1, <5>2
          <6> QED
            BY <1>4, <6>1, StreamShort
        <5>3. CASE ~stale
          <6>1. StreamAt(frames, buffer, size, FALSE, taken, g, h) /\ Len(buffer) < size
            BY <1>4, <2>4, <5>1, <5>3
          <6> QED
            BY <1>4, <6>1, StreamShort
        <5> QED
          BY <5>2, <5>3
      <4>5. pc' = "frame" => ~stale'
        BY <4>2
      <4> QED
        BY <2>5, <4>2, <4>3, <4>4, <4>5
    <3> QED
      BY <3>1, <3>2
  <2>7. arrived' = Found(frames', output', staged') \o Upto(g, h)
    BY <1>2, <2>4, Zenon
  <2>8. StreamWaits(g, h)'
    BY <2>6, <2>7 DEF StreamWaits
  <2>9. h \in 0 .. Len(frames') /\ g \in 0 .. h
    BY <1>2
  <2> QED
    BY <2>6, <2>8, <2>9 DEF StreamOK
<1>6. DatagramOK'
  <2>1. SUFFICES ASSUME transport \in {"udp", "websocket"} PROVE DatagramOK'
    BY <1>2 DEF DatagramOK
  <2> DEFINE fnd == Found(frames, output, staged)
  <2>2. ~torn' /\ Found(frames', output', staged') = fnd /\ stale
    BY <1>2, <2>1 DEF IInv, DatagramOK
  <2>3. \/ Emptied(buffer, stale, arrived, fnd)
        \/ \E f \in 1 .. Len(frames) : DatagramWaits(frames, buffer, arrived, fnd, f)
    BY <1>2, <2>1 DEF IInv, DatagramOK
  <2> HIDE DEF fnd
  <2>4. CASE Emptied(buffer, stale, arrived, fnd)
    <3>1. buffer = <<>> /\ arrived = fnd /\ Len(buffer) < SizeBytes
      BY <1>4, <2>4 DEF Emptied
    <3>2. ~(Len(buffer) >= SizeBytes)
      BY <1>4, <3>1
    <3>3. Continue(size, buffer, ~stale)
      BY <3>2, Zenon DEF ReadSize
    <3>4. buffer' = <<>> /\ stale' /\ pc' = "handle"
      BY <2>2, <3>1, <3>3 DEF Continue
    <3>5. Emptied(buffer', stale', arrived', fnd)
      BY <1>2, <3>1, <3>4 DEF Emptied
    <3> QED
      BY <2>2, <3>4, <3>5 DEF DatagramOK
  <2>5. ASSUME NEW f \in 1 .. Len(frames), DatagramWaits(frames, buffer, arrived, fnd, f)
        PROVE  DatagramOK'
    <3>1. /\ SizeBytes <= Len(buffer) /\ BytesFrom(buffer, f, 1 - SizeBytes)
          /\ SizeOf(frames, f) <= Mtu =>
               Len(buffer) = SizeBytes + SizeOf(frames, f) /\ arrived = Append(fnd, f)
          /\ ~(SizeOf(frames, f) <= Mtu) => arrived = fnd
      BY <2>5 DEF DatagramWaits
    <3>2. ASSUME NEW i \in 1 .. Len(buffer) PROVE buffer[i] = <<f, i - SizeBytes>>
      <4>1. i + (1 - SizeBytes) - 1 = i - SizeBytes
        BY <1>4
      <4> QED
        BY <3>1, <4>1 DEF BytesFrom
    <3>3. \A i \in 1 .. SizeBytes : i \in 1 .. Len(buffer)
      BY <1>4, <3>1
    <3>4. HeaderValue(SubSeq(buffer, 1, SizeBytes)) = {SizeOf(frames, f)}
      BY <1>1, <3>1, <3>2, <3>3, HeaderIs
    <3>5. Continue(SizeOf(frames, f), unread, TRUE)
      BY <1>4, <2>2, <3>1, <3>4 DEF ReadSize
    <3>6. SizeOf(frames, f) \in Nat
      BY <1>4, SizeType
    <3>7. /\ unread \in Seq(Places(Len(frames))) /\ Len(unread) = Len(buffer) - SizeBytes
          /\ \A i \in 1 .. Len(buffer) - SizeBytes : unread[i] = buffer[SizeBytes + i]
      <4>1. Len(buffer) <= Len(buffer)
        BY <1>4
      <4> QED
        BY <1>4, <3>1, <4>1, PieceAfter
    <3> HIDE DEF unread
    <3>8. CASE SizeOf(frames, f) <= Mtu
      <4>1. Len(unread) = SizeOf(frames, f) /\ arrived = Append(fnd, f)
        BY <1>4, <3>1, <3>6, <3>7, <3>8
      <4>2. size' = SizeOf(frames, f) /\ buffer' = unread /\ pc' = "frame"
        BY <3>5, <3>6, <3>8, <4>1 DEF Continue, Reasonable
      <4>3. BytesFrom(unread, f, 1)
        <5>1. ASSUME NEW i \in 1 .. Len(unread) PROVE unread[i] = <<f, i + 1 - 1>>
          <6>1. SizeBytes + i \in 1 .. Len(buffer) /\ (SizeBytes + i) - SizeBytes = i + 1 - 1
                /\ i \in 1 .. Len(buffer) - SizeBytes
            BY <1>4, <3>7
          <6> QED
            BY <3>2, <3>7, <6>1
        <5> QED
          BY <5>1 DEF BytesFrom
      <4>4. FrameWaits(frames', buffer', size', arrived', fnd, f)
        BY <1>2, <4>1, <4>2, <4>3 DEF FrameWaits
      <4> QED
        BY <1>2, <2>2, <4>2, <4>4 DEF DatagramOK
    <3>9. CASE ~(SizeOf(frames, f) <= Mtu)
      <4>1. buffer' = <<>> /\ stale' /\ pc' = "handle"
        BY <3>5, <3>9 DEF Continue, Reasonable
      <4>2. Emptied(buffer', stale', arrived', fnd)
        BY <1>2, <3>1, <3>9, <4>1 DEF Emptied
      <4> QED
        BY <2>2, <4>1, <4>2 DEF DatagramOK
    <3> QED
      BY <3>8, <3>9
  <2> QED
    BY <2>3, <2>4, <2>5
<1> QED
  BY <1>1, <1>3, <1>5, <1>6 DEF IInv

\* A frame is found.
LEMMA InvReadFrame == ASSUME IInv, ReadFrame PROVE IInv'
<1> DEFINE raw == SubSeq(buffer, 1, size)
           rest == SubSeq(buffer, size + 1, Len(buffer))
           fnd == Found(frames, output, staged)
<1>1. TypeOK /\ TypeOK'
  BY TypeReadFrame DEF IInv
<1>2. /\ UNCHANGED <<transport, limit, lengths, frames, taken, arrived, size, torn, output>>
      /\ staged' = Append(staged, raw) /\ buffer' = rest
      /\ pc = "frame" /\ stale' = TRUE /\ pc' = "size"
  BY DEF ReadFrame, ReadBytes, sender, network
<1>3. /\ frames \in Seq(Message) /\ taken \in Nat /\ Len(frames) \in Nat
      /\ buffer \in Seq(Places(Len(frames))) /\ size \in Nat
      /\ staged \in Seq(Seq(Places(Len(frames)))) /\ size <= Len(buffer)
      /\ Len(buffer) \in Nat /\ stale \in BOOLEAN /\ Len(staged) \in Nat
  BY <1>1, <1>2 DEF TypeOK
<1>4. raw \in Seq(Places(Len(frames)))
  BY <1>3, Piece
<1>5. WithinLimit' /\ SizesFit' /\ TornOK' /\ MessagesCut(frames, lengths)'
  BY <1>2 DEF IInv, WithinLimit, SizesFit, TornOK
<1>6. fnd \in Seq(1 .. Len(frames)) /\ FramesIn(output) \in Seq(1 .. Len(frames))
      /\ Handled(frames, staged) \in Seq(1 .. Len(frames))
  BY <1>1, FoundType
<1> HIDE DEF raw, rest, fnd
<1>7. ASSUME NEW f \in 1 .. Len(frames), DecodesIn(frames, raw), raw[1][1] = f
      PROVE  /\ Found(frames', output', staged') = fnd \o <<f>>
             /\ StagedWhole'
  <2>1. Handled(frames, Append(staged, raw)) = Handled(frames, staged) \o <<f>>
    BY <1>3, <1>4, <1>7, HandledAppend
  <2>2. <<f>> \in Seq(1 .. Len(frames))
    OBVIOUS
  <2>3. \A x, y, z \in Seq(1 .. Len(frames)) : (x \o y) \o z = x \o (y \o z)
    BY ConcatAssociative, SMTT(30)
  <2>4. FramesIn(output) \o (Handled(frames, staged) \o <<f>>)
          = (FramesIn(output) \o Handled(frames, staged)) \o <<f>>
    BY <1>6, <2>2, <2>3, Zenon
  <2>5. Found(frames', output', staged') = fnd \o <<f>>
    BY <1>2, <2>1, <2>4, Zenon DEF Found, fnd
  <2>6. StagedWhole'
    <3>1. SUFFICES ASSUME ~torn, NEW i \in 1 .. Len(staged')
                   PROVE  DecodesIn(frames', staged'[i])
      BY <1>2 DEF StagedWhole
    <3>2. Len(Append(staged, raw)) = Len(staged) + 1
      BY <1>3, <1>4, AppendProperties
    <3>3. i \in 1 .. Len(staged) \/ i = Len(staged) + 1
      BY <1>2, <1>3, <3>2
    <3>4. CASE i \in 1 .. Len(staged)
      <4>1. Append(staged, raw)[i] = staged[i]
        BY <1>3, <1>4, <3>4
      <4>2. DecodesIn(frames, staged[i])
        BY <3>1, <3>4 DEF IInv, StagedWhole
      <4> QED
        BY <1>2, <4>1, <4>2, Zenon
    <3>5. CASE i = Len(staged) + 1
      <4>1. Append(staged, raw)[i] = raw
        BY <1>3, <1>4, <3>5
      <4> QED
        BY <1>2, <1>7, <4>1, Zenon
    <3> QED
      BY <3>3, <3>4, <3>5
  <2> QED
    BY <2>5, <2>6
<1>8. CASE transport \in {"tcp", "file"} /\ ~torn
  <2>1. PICK h \in 0 .. Len(frames) : \E g \in 0 .. h : StreamWaits(g, h)
    BY <1>8 DEF IInv, StreamOK
  <2>2. PICK g \in 0 .. h : StreamWaits(g, h)
    BY <2>1
  <2>3. /\ StreamAt(frames, buffer, size, FALSE, taken, g, h)
        /\ arrived = fnd \o Upto(g, h)
    BY <1>2, <1>3, <1>8, <2>2 DEF StreamWaits, IInv, StreamOK, fnd
  <2>4. /\ g + 1 \in 1 .. Len(frames) /\ g + 1 <= h
        /\ DecodesIn(frames, raw) /\ raw[1][1] = g + 1
        /\ StreamAt(frames, rest, size, TRUE, taken, g + 1, h)
    BY <1>3, <2>3, StreamFrame DEF raw, rest
  <2>5. Found(frames', output', staged') = fnd \o <<g + 1>> /\ StagedWhole'
    BY <1>7, <2>4
  <2>6. g \in Nat /\ h \in Nat /\ g + 1 \in Nat /\ g <= g + 1 /\ g <= g /\ g + 1 \in 0 .. h
    BY <1>3, <2>4
  <2>7. Upto(g, h) = <<g + 1>> \o Upto(g + 1, h)
    <3>1. Upto(g, g + 1) = Append(Upto(g, g), g + 1)
      BY <2>6, UptoAppend
    <3>2. Upto(g, g) = <<>>
      BY <2>6, UptoNone
    <3>3. Append(<<>>, g + 1) = <<g + 1>>
      OBVIOUS
    <3>4. Upto(g, h) = Upto(g, g + 1) \o Upto(g + 1, h)
      BY <2>4, <2>6, UptoConcat
    <3> QED
      BY <3>1, <3>2, <3>3, <3>4, Zenon
  <2>8. fnd \in Seq(Nat)
    <3>1. Seq(1 .. Len(frames)) \subseteq Seq(Nat)
      BY <1>3
    <3> QED
      BY <1>6, <3>1, Zenon
  <2>9. <<g + 1>> \in Seq(Nat)
    BY <2>6
  <2>10. Upto(g + 1, h) \in Seq(Nat)
    BY <2>4, <2>6, UptoSeq
  <2>11. (fnd \o <<g + 1>>) \o Upto(g + 1, h) = fnd \o (<<g + 1>> \o Upto(g + 1, h))
    BY <2>8, <2>9, <2>10, Regroup, Zenon
  <2>12. arrived' = Found(frames', output', staged') \o Upto(g + 1, h)
    BY <1>2, <2>3, <2>5, <2>7, <2>11, Zenon
  <2>13. StreamAt(frames', buffer', size', stale', taken', g + 1, h)
    BY <1>2, <2>4, Zenon
  <2>14. StreamWaits(g + 1, h)'
    BY <1>2, <2>12, <2>13 DEF StreamWaits
  <2>15. size' <= Mtu /\ pc' # "frame"
    BY <1>2, <1>8 DEF IInv, StreamOK
  <2>16. h \in 0 .. Len(frames')
    BY <1>2
  <2>17. StreamOK'
    BY <2>6, <2>14, <2>15, <2>16 DEF StreamOK
  <2>18. DatagramOK'
    BY <1>2, <1>8 DEF DatagramOK
  <2> QED
    BY <1>1, <1>5, <2>5, <2>17, <2>18 DEF IInv
<1>9. CASE transport \in {"tcp", "file"} /\ torn
  <2>1. StreamOK' /\ DatagramOK' /\ StagedWhole'
    BY <1>2, <1>9 DEF StreamOK, DatagramOK, StagedWhole
  <2> QED
    BY <1>1, <1>5, <2>1 DEF IInv
<1>10. CASE transport \in {"udp", "websocket"}
  <2>1. PICK f \in 1 .. Len(frames) : FrameWaits(frames, buffer, size, arrived, fnd, f)
    BY <1>2, <1>10 DEF IInv, DatagramOK, fnd
  <2>2. /\ size = SizeOf(frames, f) /\ Len(buffer) = size /\ BytesFrom(buffer, f, 1)
        /\ arrived = Append(fnd, f)
    BY <2>1 DEF FrameWaits
  <2>3. raw = buffer
    <3>1. /\ Len(raw) = size - 1 + 1
          /\ \A i \in 1 .. size - 1 + 1 : raw[i] = buffer[1 + i - 1]
      BY <1>3, Piece DEF raw
    <3>2. size - 1 + 1 = size /\ \A i \in Int : 1 + i - 1 = i
      BY <1>3
    <3>3. Len(raw) = size
      BY <3>1, <3>2
    <3>4. \A i \in 1 .. size : raw[i] = buffer[i]
      BY <3>1, <3>2
    <3> QED
      BY <1>3, <1>4, <2>2, <3>3, <3>4, SeqEqual
  <2>4. DecodesIn(frames, raw) /\ raw[1][1] = f
    BY <1>3, <2>2, <2>3, WholeDecodes
  <2>5. Found(frames', output', staged') = fnd \o <<f>> /\ StagedWhole'
    BY <1>7, <2>4
  <2>6. Append(fnd, f) = fnd \o <<f>>
    BY <1>6
  <2>7. arrived' = Found(frames', output', staged')
    BY <1>2, <2>2, <2>5, <2>6, Zenon
  <2>8. rest = <<>>
    <3>1. size + 1 \in Int /\ Len(buffer) \in Int /\ Len(buffer) < size + 1
      BY <1>3, <2>2
    <3> QED
      BY <3>1, SubSeqEmpty DEF rest
  <2>9. Emptied(buffer', stale', arrived', Found(frames', output', staged'))
    BY <1>2, <2>7, <2>8 DEF Emptied
  <2>10. DatagramOK'
    BY <1>2, <1>10, <2>9 DEF IInv, DatagramOK
  <2>11. StreamOK'
    BY <1>2, <1>10 DEF StreamOK
  <2> QED
    BY <1>1, <1>5, <2>5, <2>10, <2>11 DEF IInv
<1> QED
  BY <1>1, <1>8, <1>9, <1>10 DEF TypeOK

\* Every step keeps the invariant.
LEMMA InvNext == ASSUME IInv, [Next]_vars PROVE IInv'
<1>1. TypeOK
  BY DEF IInv
<1>2. CASE \E n \in Lengths, mtu \in SenderMtus : SendMessage(n, mtu)
  BY <1>2, InvSend
<1>3. CASE Start
  BY <1>3, InvClient, InvConnect DEF Start
<1>4. CASE Stop \/ Stopped \/ Disconnected \/ EndOfFile
  BY <1>4, InvClient
<1>5. CASE \E n \in 1 .. RecvMax : RecvTcp(n)
  <2>1. PICK n \in 1 .. RecvMax : RecvTcp(n)
    BY <1>5
  <2>2. n \in Nat /\ Read(n) /\ transport = "tcp"
    BY <2>1 DEF RecvTcp
  <2> QED
    BY <2>2, InvRead
<1>6. CASE ReadFile
  <2>1. PICK n \in Nat : Read(n)
    BY <1>1, <1>6, ReadFileRead
  <2>2. transport = "file"
    BY <1>6 DEF ReadFile
  <2> QED
    BY <2>1, <2>2, InvRead
<1>7. CASE \E f \in DOMAIN frames : RecvUdp(f) \/ RecvWebsocket(f)
  BY <1>7, InvDatagram
<1>8. CASE ReadSize
  BY <1>8, InvReadSize
<1>9. CASE ReadFrame
  BY <1>9, InvReadFrame
<1>10. CASE ProcessRawFrames
  BY <1>10, InvProcess
<1>11. CASE DecodeRaises
  BY <1>11, InvRaises
<1>12. CASE UNCHANGED vars
  <2>1. UNCHANGED <<transport, limit, lengths, frames, conn, taken, datagrams, arrived,
                    buffer, size, stale, torn, staged, output, pc, starts, stopping>>
    BY <1>12 DEF vars, sender, network, processor, daemon
  <2>2. TypeOK' /\ WithinLimit' /\ StagedWhole'
    BY <2>1 DEF IInv, TypeOK, WithinLimit, StagedWhole
  <2>3. Found(frames, output', staged') = Found(frames, output, staged)
    BY <2>1
  <2> QED
    BY <2>1, <2>2, <2>3, Settled
<1> QED
  BY <1>2, <1>3, <1>4, <1>5, <1>6, <1>7, <1>8, <1>9, <1>10, <1>11, <1>12 DEF Next

\* IInv, the inductive invariant: where in the stream of frames the buffer, the
\* size and what process() has found stand, for every transport.
LEMMA Invariant == Spec => []IInv
<1>1. Init => IInv
  BY InvInit
<1>2. IInv /\ [Next]_vars => IInv'
  BY InvNext
<1> QED
  BY <1>1, <1>2, PTL DEF Spec

\* TypeOK: every byte in FrameProcessor's buffer, and in what it has found, is a
\* byte of a frame that was sent, and only such frames reach the client's queue.
THEOREM TypeCorrect == Spec => []TypeOK
<1>1. IInv => TypeOK
  BY DEF IInv
<1> QED
  BY <1>1, Invariant, PTL

\* ProcessExact, for every mtu, header size, message length and limit: however
\* recv divides a stream of frames, FrameProcessor.process finds exactly those
\* that have arrived completely, in their order, over restarts of the client, as
\* long as no connection was torn; and process_raw_frames of a file client never
\* puts out more frames than max_frames.
THEOREM ProcessedExactly == Spec => []ProcessExact
<1>1. ASSUME IInv PROVE ProcessExact
  <2>1. TypeOK
    BY <1>1 DEF IInv
  <2> DEFINE fnd == Found(frames, output, staged)
  <2>2. fnd \in Seq(1 .. Len(frames)) /\ transport \in {"tcp", "udp", "websocket", "file"}
    BY <2>1, FoundType DEF TypeOK
  <2>3. Decoded \o HandleFrames(staged) = fnd
    BY Names, Zenon DEF Decoded, Found
  <2> HIDE DEF fnd
  <2>4. ASSUME pc \in {"recv", "idle"}, ~torn PROVE fnd = arrived
    <3>1. CASE transport \in {"tcp", "file"}
      <4>1. PICK h \in 0 .. Len(frames) : \E g \in 0 .. h : StreamWaits(g, h)
        BY <1>1, <2>4, <3>1 DEF IInv, StreamOK
      <4>2. PICK g \in 0 .. h : StreamWaits(g, h)
        BY <4>1
      <4>3. h = g /\ arrived = fnd \o Upto(g, h)
        BY <2>4, <4>2 DEF StreamWaits, fnd
      <4>4. Upto(g, h) = <<>>
        BY <2>1, <4>3, UptoNone DEF TypeOK
      <4>5. fnd \o <<>> = fnd
        BY <2>2
      <4> QED
        BY <4>3, <4>4, <4>5, Zenon
    <3>2. CASE transport \in {"udp", "websocket"}
      BY <1>1, <2>4, <3>2 DEF IInv, DatagramOK, Emptied, fnd
    <3> QED
      BY <2>2, <3>1, <3>2
  <2>5. limit # NoLimit => Len(Decoded) <= limit
    BY <1>1 DEF IInv, WithinLimit, Decoded
  <2> QED
    BY <2>3, <2>4, <2>5, Zenon DEF ProcessExact
<1> QED
  BY <1>1, Invariant, PTL

-----------------------------------------------------------------------------
(* Messages are put together again *)

\* The numbers 1 .. n in their order.
Count1(n) == [k \in 1 .. n |-> k]

\* The fragments of a message, one behind the other, are the message.
LEMMA FragmentsJoin ==
  ASSUME NEW length \in Nat, NEW room \in Nat \ {0}
  PROVE  FlattenSeq([i \in 1 .. FramesRequired(length, room) |->
                       Fragment(length, room, i - 1)]) = Count1(length)
<1> DEFINE t == FramesRequired(length, room)
           F(i) == Fragment(length, room, i - 1)
           E(j) == FlattenSeq([i \in 1 .. j |-> F(i)])
           L(j) == IF j * room <= length THEN j * room ELSE length
           U == {j \in Nat : j <= t => E(j) = Count1(L(j))}
<1>1. t \in Nat /\ length <= t * room /\ t * room \in Nat
      /\ \A i \in Nat : i < t => i * room < length /\ i * room \in Nat
  BY RequiredIs
<1>2. 0 \in U
  <2>1. [i \in 1 .. 0 |-> F(i)] = <<>>
    OBVIOUS
  <2>2. E(0) = <<>>
    BY <2>1, FlattenEmpty
  <2>3. L(0) = 0
    OBVIOUS
  <2>4. Count1(0) = <<>>
    BY DEF Count1
  <2> HIDE DEF E, L
  <2> QED
    BY <2>2, <2>3, <2>4
<1>3. ASSUME NEW j \in Nat, j < t
      PROVE  /\ F(j + 1) \in Seq(Nat)
             /\ Len(F(j + 1)) = (IF room <= length - j * room THEN room ELSE length - j * room)
             /\ \A k \in 1 .. Len(F(j + 1)) : F(j + 1)[k] = j * room + k
  <2>1. j < FramesRequired(length, room)
    BY <1>3
  <2>2. (j + 1) - 1 = j
    OBVIOUS
  <2>3. F(j + 1) = Fragment(length, room, j)
    BY <2>2
  <2> HIDE DEF F, t
  <2>4. Fragment(length, room, j) \in Seq(Nat)
    BY <2>1, FragmentIs
  <2>5. Len(Fragment(length, room, j)) =
          (IF room <= length - j * room THEN room ELSE length - j * room)
    BY <2>1, FragmentIs
  <2>6. \A k \in 1 .. Len(Fragment(length, room, j)) :
          Fragment(length, room, j)[k] = j * room + k
    BY <2>1, FragmentAt
  <2> QED
    BY <2>3, <2>4, <2>5, <2>6, Zenon
<1> HIDE DEF F, t
<1>4. ASSUME NEW j \in Nat, j < t PROVE E(j + 1) = E(j) \o F(j + 1)
  <2> DEFINE ss == [i \in 1 .. j |-> F(i)]
             tt == [i \in 1 .. j + 1 |-> F(i)]
  <2>1. \A i \in 1 .. j + 1 : F(i) \in Seq(Nat)
    <3>1. ASSUME NEW i \in 1 .. j + 1 PROVE F(i) \in Seq(Nat)
      <4>1. i - 1 \in Nat /\ i - 1 < t /\ (i - 1) + 1 = i
        BY <1>1, <1>4
      <4>2. F((i - 1) + 1) \in Seq(Nat)
        BY <1>3, <4>1
      <4> QED
        BY <4>1, <4>2
    <3> QED
      BY <3>1
  <2>2. ss \in Seq(Seq(Nat)) /\ F(j + 1) \in Seq(Nat)
    BY <2>1
  <2>3. tt = Append(ss, F(j + 1))
    OBVIOUS
  <2> HIDE DEF ss, tt
  <2>4. FlattenSeq(Append(ss, F(j + 1))) = FlattenSeq(ss) \o F(j + 1)
    BY <2>2, FlattenAppend
  <2> QED
    BY <2>3, <2>4, Zenon DEF ss, tt
<1>5. ASSUME NEW j \in Nat, j < t PROVE Count1(L(j + 1)) = Count1(L(j)) \o F(j + 1)
  <2> DEFINE a == j * room
             c == Len(F(j + 1))
  <2>1. a \in Nat /\ a < length
    BY <1>1, <1>5
  <2>2. (j + 1) * room = a + room
    OBVIOUS
  <2>3. c = (IF room <= length - a THEN room ELSE length - a) /\ F(j + 1) \in Seq(Nat)
        /\ \A k \in 1 .. c : F(j + 1)[k] = a + k
    BY <1>3, <1>5
  <2>4. L(j) = a /\ L(j + 1) = IF a + room <= length THEN a + room ELSE length
    BY <2>1, <2>2
  <2> HIDE DEF a, c, L
  <2>5. L(j + 1) = a + c /\ c \in Nat
    BY <2>1, <2>3, <2>4
  <2>6. /\ Count1(a) \in Seq(Nat) /\ Len(Count1(a)) = a
        /\ Count1(a + c) \in Seq(Nat) /\ Len(Count1(a + c)) = a + c
    BY <2>1, <2>5 DEF Count1
  <2>7. Count1(a) \o F(j + 1) \in Seq(Nat)
    BY <2>3, <2>6, ConcatProperties
  <2>8. Len(Count1(a) \o F(j + 1)) = Len(Count1(a)) + Len(F(j + 1))
    BY <2>3, <2>6, ConcatProperties
  <2>9. Len(Count1(a) \o F(j + 1)) = a + c
    BY <2>6, <2>8 DEF c
  <2>10. ASSUME NEW k \in 1 .. a + c PROVE Count1(a + c)[k] = (Count1(a) \o F(j + 1))[k]
    <3>1. (Count1(a) \o F(j + 1))[k] = IF k <= Len(Count1(a)) THEN Count1(a)[k]
                                       ELSE F(j + 1)[k - Len(Count1(a))]
      <4>1. k \in 1 .. Len(Count1(a)) + Len(F(j + 1))
        BY <2>6 DEF c
      <4> QED
        BY <2>3, <2>6, <4>1, ConcatProperties
    <3>2. Count1(a + c)[k] = k
      BY DEF Count1
    <3>3. CASE k <= a
      <4>1. Count1(a)[k] = k
        BY <2>1, <3>3 DEF Count1
      <4> QED
        BY <2>6, <3>1, <3>2, <3>3, <4>1
    <3>4. CASE ~(k <= a)
      <4>1. k - a \in 1 .. c /\ a + (k - a) = k
        BY <2>1, <2>5, <3>4
      <4>2. F(j + 1)[k - a] = k
        BY <2>3, <4>1
      <4> QED
        BY <2>6, <3>1, <3>2, <3>4, <4>2
    <3> QED
      BY <3>3, <3>4
  <2>11. Count1(a + c) = Count1(a) \o F(j + 1)
    BY <2>6, <2>7, <2>9, <2>10, SeqEqual
  <2> QED
    BY <2>4, <2>5, <2>11, Zenon
<1> HIDE DEF E, L
<1>6. ASSUME NEW j \in Nat, j \in U PROVE j + 1 \in U
  <2>1. ASSUME j + 1 <= t PROVE E(j + 1) = Count1(L(j + 1))
    <3>1. j < t /\ j <= t
      BY <1>1, <2>1
    <3>2. E(j) = Count1(L(j))
      BY <1>6, <3>1
    <3>3. E(j + 1) = E(j) \o F(j + 1)
      BY <1>4, <3>1
    <3>4. Count1(L(j + 1)) = Count1(L(j)) \o F(j + 1)
      BY <1>5, <3>1
    <3> QED
      BY <3>2, <3>3, <3>4, Zenon
  <2>2. j + 1 \in Nat
    OBVIOUS
  <2> QED
    BY <2>1, <2>2
<1> HIDE DEF U
<1>7. Nat \subseteq U
  BY <1>2, <1>6, Induct
<1>8. E(t) = Count1(L(t))
  <2>1. t \in U /\ t <= t
    BY <1>1, <1>7
  <2> QED
    BY <2>1 DEF U
<1>9. L(t) = length
  BY <1>1 DEF L
<1>10. E(t) = FlattenSeq([i \in 1 .. t |-> Fragment(length, room, i - 1)])
  BY Zenon DEF E, F
<1> QED
  BY <1>8, <1>9, <1>10, Zenon DEF t

\* The fragments of a message are told apart by their index.
LEMMA IndexUnique ==
  ASSUME NEW fr \in Seq(Message), NEW ls, NEW m, NEW b \in Nat, NEW r,
         CutAt(fr, ls, m, b, r), NEW t \in Nat, t = FramesRequired(ls[m], r),
         NEW i \in 1 .. t
  PROVE  (CHOOSE f \in b + 1 .. b + t : fr[f].index = i - 1) = b + i
<1>1. ASSUME NEW j \in 1 .. t PROVE fr[b + j].index = j - 1
  <2>1. fr[b + j] = MessageFrame(m, j - 1, t, Fragment(ls[m], r, j - 1))
    BY Zenon DEF CutAt
  <2> QED
    BY <2>1 DEF MessageFrame
<1>2. \A f \in b + 1 .. b + t : f - b \in 1 .. t /\ b + (f - b) = f
  OBVIOUS
<1>3. \A f \in b + 1 .. b + t : fr[f].index = (f - b) - 1
  BY <1>1, <1>2
<1>4. b + i \in b + 1 .. b + t /\ fr[b + i].index = i - 1
  BY <1>1
<1>5. \A f \in b + 1 .. b + t : fr[f].index = i - 1 => f = b + i
  BY <1>3
<1> QED
  BY <1>4, <1>5

\* MessagesWhole, for every length and mtu: serialize_message cuts a message so
\* that, when as many fragments have arrived as each says there are, the content
\* of a client's message cache is the message, byte by byte.
THEOREM MessagesPutTogether == Spec => []MessagesWhole
<1>1. ASSUME IInv, NEW m \in DOMAIN lengths, NEW f \in Arrived(m),
             frames[f].total = Cardinality(Arrived(m))
      PROVE  Content(m) = [k \in 1 .. lengths[m] |-> k]
  <2>1. TypeOK /\ MessagesCut(frames, lengths)
    BY <1>1 DEF IInv
  <2>2. /\ frames \in Seq(Message) /\ lengths \in Seq(Nat) /\ m \in 1 .. Len(lengths)
        /\ lengths[m] \in Nat /\ Len(frames) \in Nat
    BY <2>1 DEF TypeOK
  <2>3. PICK b \in 0 .. Len(frames) : \E r \in Nat \ {0} : CutAt(frames, lengths, m, b, r)
    BY <2>1, <2>2 DEF MessagesCut
  <2>4. PICK r \in Nat \ {0} : CutAt(frames, lengths, m, b, r)
    BY <2>3
  <2> DEFINE t == FramesRequired(lengths[m], r)
             A == Arrived(m)
             B == b + 1 .. b + t
  <2>5. t \in Nat
    BY <2>2, RequiredIs
  <2>6. t \in Nat /\ b \in Nat
    BY <2>2, <2>5
  <2>7. \A g \in 1 .. Len(frames) : frames[g].message = m <=> g \in B
    BY <2>4 DEF CutAt
  <2>8. \A i \in 1 .. t :
          frames[b + i] = MessageFrame(m, i - 1, t, Fragment(lengths[m], r, i - 1))
    BY <2>4 DEF CutAt
  <2>9. A \subseteq B
    <3>1. Decoded \in Seq(1 .. Len(frames))
      BY <2>1, FoundType DEF Decoded
    <3>2. Range(Decoded) \subseteq 1 .. Len(frames)
      BY <3>1 DEF Range
    <3> QED
      BY <2>7, <3>2 DEF Arrived
  <2> HIDE DEF t, A
  <2>10. frames[f].total = t
    <3>1. f \in B
      BY <1>1, <2>9 DEF A
    <3>2. f - b \in 1 .. t /\ b + (f - b) = f
      BY <2>6, <3>1
    <3>3. frames[f] = MessageFrame(m, (f - b) - 1, t, Fragment(lengths[m], r, (f - b) - 1))
      BY <2>8, <3>2
    <3> QED
      BY <3>3 DEF MessageFrame
  <2>11. IsFiniteSet(B) /\ Cardinality(B) = t
    <3>1. b + 1 \in Int /\ b + t \in Int
      BY <2>6
    <3>2. IsFiniteSet(B) /\ Cardinality(B) = IF b + 1 > b + t THEN 0 ELSE (b + t) - (b + 1) + 1
      BY <3>1, FS_Interval
    <3> HIDE DEF B
    <3> QED
      BY <2>6, <3>2
  <2>12. Cardinality(A) = t
    BY <1>1, <2>10 DEF A
  <2> HIDE DEF B
  <2>13. A = B
    BY <2>9, <2>11, <2>12, FS_Subset
  <2>14. Content(m) = FlattenSeq([i \in 1 .. t |->
                        frames[CHOOSE g \in B : frames[g].index = i - 1].bytes])
    <3> DEFINE G(X, c) == FlattenSeq([i \in 1 .. c |->
                            frames[CHOOSE g \in X : frames[g].index = i - 1].bytes])
    <3>1. Content(m) = G(Arrived(m), Cardinality(Arrived(m)))
      BY Zenon DEF Content
    <3> HIDE DEF G
    <3>2. Content(m) = G(B, t)
      BY <2>12, <2>13, <3>1, Zenon DEF A
    <3> QED
      BY <3>2, Zenon DEF G
  <2>15. ASSUME NEW i \in 1 .. t
         PROVE  frames[CHOOSE g \in B : frames[g].index = i - 1].bytes
                  = Fragment(lengths[m], r, i - 1)
    <3>1. (CHOOSE g \in B : frames[g].index = i - 1) = b + i
      <4>1. t = FramesRequired(lengths[m], r)
        BY DEF t
      <4>2. (CHOOSE g \in b + 1 .. b + t : frames[g].index = i - 1) = b + i
        <5>1. frames \in Seq(Message) /\ CutAt(frames, lengths, m, b, r) /\ b \in Nat
              /\ t \in Nat
          BY <2>2, <2>4, <2>6
        <5> QED
          BY <4>1, <5>1, IndexUnique, SMTT(30)
      <4> QED
        BY <4>2, Zenon DEF B
    <3>2. frames[b + i].bytes = Fragment(lengths[m], r, i - 1)
      <4>1. frames[b + i] = MessageFrame(m, i - 1, t, Fragment(lengths[m], r, i - 1))
        BY <2>8
      <4> QED
        BY <4>1 DEF MessageFrame
    <3> QED
      BY <3>1, <3>2, Zenon
  <2>16. [i \in 1 .. t |-> frames[CHOOSE g \in B : frames[g].index = i - 1].bytes]
           = [i \in 1 .. t |-> Fragment(lengths[m], r, i - 1)]
    BY <2>15, Zenon
  <2>17. FlattenSeq([i \in 1 .. t |-> Fragment(lengths[m], r, i - 1)]) = Count1(lengths[m])
    BY <2>2, FragmentsJoin DEF t
  <2> QED
    BY <2>14, <2>16, <2>17, Zenon DEF Count1
<1>2. IInv => MessagesWhole
  BY <1>1 DEF MessagesWhole
<1> QED
  BY <1>2, Invariant, PTL
================================================================================
