------------------------- MODULE MessageCache_proofs -------------------------
(***************************************************************************)
(* Proofs about MessageCache: for any messages, of any numbers of          *)
(* fragments, that are received in any order, any number of times, with    *)
(* any number of writes, cleans and restarts between.                      *)
(***************************************************************************)
EXTENDS MessageCache, FiniteSetTheorems, TLAPS

(***************************************************************************)
(* The inductive invariant.  What is counted is in memory and what is in   *)
(* memory is on disk; a count, the present one or the one that was saved,  *)
(* is never below the fragments that it stands for, and is the total of    *)
(* the message exactly if that is marked complete.                         *)
(***************************************************************************)
Typed ==
  /\ up \in {"up", "down", "failed"} /\ typed \in BOOLEAN
  /\ count \in [Messages -> Nat] /\ called \in [Messages -> Nat]
  /\ complete \in SUBSET Messages
  /\ mem \in [Messages -> SUBSET Nat] /\ disk \in [Messages -> SUBSET Nat]
  /\ counted \in [Messages -> SUBSET Nat]
  /\ since \in [Messages -> SUBSET Nat]
  /\ saved \in [count : [Messages -> Nat],
                counted : [Messages -> SUBSET Nat],
                complete : SUBSET Messages]

StoresNested ==
  \A m \in Messages :
    /\ disk[m] \subseteq Fragments(m) /\ since[m] \subseteq Fragments(m)
    /\ mem[m] \subseteq disk[m] /\ counted[m] \subseteq mem[m]
    /\ saved.counted[m] \subseteq disk[m]

CountsSound(cnt, cntd, cmpl) ==
  \A m \in Messages :
    /\ Cardinality(cntd[m]) <= cnt[m] /\ cnt[m] <= Total[m]
    /\ m \in cmpl <=> cnt[m] = Total[m]

\* Everything that has arrived since the start was counted.
SinceCounted ==
  /\ up # "up" => since = Nothing
  /\ up = "up" /\ typed =>
       \A m \in Messages : m \notin complete => since[m] \subseteq counted[m]

FailedForReason == up = "failed" => ~(Loadable /\ Servable)

IInv ==
  /\ Typed
  /\ StoresNested
  /\ CountsSound(count, counted, complete)
  /\ CountsSound(saved.count, saved.counted, saved.complete)
  /\ SinceCounted
  /\ ToldOnce
  /\ FailedForReason

-----------------------------------------------------------------------------
(* Sets of fragments *)

\* A message has as many fragments as its frames say.
LEMMA FragmentsCount ==
  ASSUME NEW m \in Messages
  PROVE  /\ Total[m] \in Nat \ {0}
         /\ Fragments(m) \subseteq Nat
         /\ IsFiniteSet(Fragments(m))
         /\ Cardinality(Fragments(m)) = Total[m]
<1>1. Total[m] \in Nat \ {0}
  BY CacheAssumption
<1>2. 0 \in Int /\ Total[m] - 1 \in Int
  BY <1>1
<1>3. /\ IsFiniteSet(0 .. Total[m] - 1)
      /\ Cardinality(0 .. Total[m] - 1) =
           IF 0 > Total[m] - 1 THEN 0 ELSE Total[m] - 1 - 0 + 1
  BY <1>2, FS_Interval
<1> QED
  BY <1>1, <1>3 DEF Fragments

\* Fragments that are as many as the message has are all of them.
LEMMA AllCounted ==
  ASSUME NEW m \in Messages, NEW S \in SUBSET Fragments(m)
  PROVE  /\ IsFiniteSet(S) /\ Cardinality(S) \in Nat
         /\ Cardinality(S) <= Total[m]
         /\ Cardinality(S) = Total[m] => S = Fragments(m)
<1>1. /\ IsFiniteSet(S)
      /\ Cardinality(S) <= Cardinality(Fragments(m))
      /\ Cardinality(Fragments(m)) = Cardinality(S) => Fragments(m) = S
  BY FragmentsCount, FS_Subset
<1> QED
  BY <1>1, FragmentsCount, FS_CardinalityType

\* One more fragment raises the number of fragments by one at most.
LEMMA OneMore ==
  ASSUME NEW m \in Messages, NEW S \in SUBSET Fragments(m), NEW i
  PROVE  Cardinality(S \cup {i}) <= Cardinality(S) + 1
  BY AllCounted, FS_AddElement

-----------------------------------------------------------------------------

\* A new cache satisfies the invariant.
LEMMA InitIInv == Init => IInv
<1> SUFFICES ASSUME Init
             PROVE  IInv
  OBVIOUS
<1> USE DEF Init, Nothing, Zero, EmptyData
<1>1. Typed
  BY DEF Typed
<1>2. \A m \in Messages : Total[m] \in Nat \ {0} /\ Total[m] # 0
  BY CacheAssumption
<1>3. CountsSound(Zero, Nothing, {})
  BY <1>2, FS_EmptySet DEF CountsSound
<1>4. StoresNested /\ SinceCounted /\ ToldOnce /\ FailedForReason
  BY DEF StoresNested, SinceCounted, ToldOnce, FailedForReason
<1> QED
  BY <1>1, <1>3, <1>4 DEF IInv

\* A fragment that is counted: the count goes up by one, the fragments that it
\* stands for by one at most, and the message is complete when the count says.
LEMMA IngestIInv ==
  ASSUME IInv, NEW m \in Messages, NEW i \in Fragments(m), Ingest(m, i)
  PROVE  IInv'
<1> USE DEF IInv
<1>1. i \in Nat
  BY FragmentsCount
<1>2. Typed'
  BY <1>1 DEF Typed, Ingest, StoreFragment, Add, ServiceCallbacks
<1>3. StoresNested'
  BY DEF StoresNested, Typed, Ingest, StoreFragment, Add
<1>4. CountsSound(count, counted, complete)'
  <2> SUFFICES ASSUME NEW n \in Messages
               PROVE  /\ Cardinality(counted'[n]) <= count'[n]
                      /\ count'[n] <= Total[n]
                      /\ n \in complete' <=> count'[n] = Total[n]
    BY DEF CountsSound
  <2>1. CASE n # m
    BY <2>1 DEF CountsSound, Typed, Ingest, Add
  <2>2. CASE n = m
    <3>1. counted[m] \in SUBSET Fragments(m)
      BY DEF StoresNested
    <3>2. Cardinality(counted[m] \cup {i}) <= Cardinality(counted[m]) + 1
      BY <3>1, OneMore
    <3>3. /\ Cardinality(counted[m]) \in Nat
          /\ Cardinality(counted[m] \cup {i}) \in Nat
      BY <3>1, AllCounted
    <3>4. count[m] < Total[m] /\ count[m] \in Nat /\ Total[m] \in Nat
      BY FragmentsCount DEF CountsSound, Typed, Ingest
    <3>5. count'[m] = count[m] + 1 /\ counted'[m] = counted[m] \cup {i}
      BY DEF Ingest, Add, Typed
    <3>6. n \in complete' <=> count[m] + 1 = Total[m]
      BY <2>2 DEF Ingest, NowComplete
    <3>7. Cardinality(counted[m]) <= count[m]
      BY DEF CountsSound
    <3> HIDE DEF IInv
    <3> QED
      BY <2>2, <3>2, <3>3, <3>4, <3>5, <3>6, <3>7
  <2> QED
    BY <2>1, <2>2
<1>5. CountsSound(saved.count, saved.counted, saved.complete)'
  BY DEF CountsSound, Ingest
<1>6. SinceCounted'
  BY DEF SinceCounted, Typed, Ingest, Add
<1>7. ToldOnce'
  BY DEF ToldOnce, Typed, Ingest, StoreFragment, Add, NowComplete,
         ServiceCallbacks
<1>8. FailedForReason'
  BY DEF FailedForReason, Ingest
<1> QED
  BY <1>2, <1>3, <1>4, <1>5, <1>6, <1>7, <1>8

\* A fragment of a message that is complete changes nothing that matters.
LEMMA IngestCompleteIInv ==
  ASSUME IInv, NEW m \in Messages, NEW i \in Fragments(m),
         IngestComplete(m, i)
  PROVE  IInv'
<1>1. i \in Nat
  BY FragmentsCount
<1>2. Typed' /\ StoresNested'
  BY <1>1 DEF IInv, Typed, StoresNested, IngestComplete, Add
<1>3. SinceCounted' /\ ToldOnce' /\ FailedForReason'
  BY DEF IInv, Typed, SinceCounted, ToldOnce, FailedForReason,
         IngestComplete, Add
<1> QED
  BY <1>2, <1>3 DEF IInv, CountsSound, IngestComplete

\* write and clean: saved is what there is, or both are nothing.
LEMMA StoreIInv ==
  ASSUME IInv, Write \/ Clean
  PROVE  IInv'
<1>1. CASE Write
  <2>1. Typed' /\ StoresNested'
    BY <1>1 DEF IInv, Typed, StoresNested, Write
  <2>2. CountsSound(saved.count, saved.counted, saved.complete)'
    BY <1>1 DEF IInv, CountsSound, Write
  <2>3. SinceCounted' /\ ToldOnce' /\ FailedForReason'
    BY <1>1 DEF IInv, SinceCounted, ToldOnce, FailedForReason, Write
  <2> QED
    BY <1>1, <2>1, <2>2, <2>3 DEF IInv, CountsSound, Write
<1>2. CASE Clean
  <2> USE DEF Zero, Nothing, EmptyData
  <2>1. Typed' /\ StoresNested'
    BY <1>2 DEF IInv, Typed, StoresNested, Clean
  <2>2. \A m \in Messages : Total[m] \in Nat \ {0} /\ Total[m] # 0
    BY CacheAssumption
  <2>3. CountsSound(Zero, Nothing, {})
    BY <2>2, FS_EmptySet DEF CountsSound
  <2>4. /\ CountsSound(count, counted, complete)'
        /\ CountsSound(saved.count, saved.counted, saved.complete)'
    BY <1>2, <2>3 DEF CountsSound, Clean
  <2>5. SinceCounted' /\ ToldOnce' /\ FailedForReason'
    BY <1>2 DEF IInv, SinceCounted, ToldOnce, FailedForReason, Clean
  <2> QED
    BY <2>1, <2>4, <2>5 DEF IInv
<1> QED
  BY <1>1, <1>2

\* The process ends, and starts again from what it has stored, or fails to.
LEMMA RestartIInv ==
  ASSUME IInv, Exit \/ Start \/ StartFails
  PROVE  IInv'
<1>1. CASE Exit
  <2> USE DEF Zero, Nothing
  <2>1. Typed' /\ StoresNested'
    BY <1>1 DEF IInv, Typed, StoresNested, Exit
  <2>2. \A m \in Messages : Total[m] \in Nat \ {0} /\ Total[m] # 0
    BY CacheAssumption
  <2>3. CountsSound(count, counted, complete)'
    BY <1>1, <2>2, FS_EmptySet DEF CountsSound, Exit
  <2>4. CountsSound(saved.count, saved.counted, saved.complete)'
    BY <1>1 DEF IInv, CountsSound, Exit
  <2>5. SinceCounted' /\ ToldOnce' /\ FailedForReason'
    BY <1>1 DEF IInv, SinceCounted, ToldOnce, FailedForReason, Exit
  <2> QED
    BY <2>1, <2>3, <2>4, <2>5 DEF IInv
<1>2. CASE Start
  <2>1. Typed' /\ StoresNested'
    BY <1>2 DEF IInv, Typed, StoresNested, Start
  <2>2. /\ CountsSound(count, counted, complete)'
        /\ CountsSound(saved.count, saved.counted, saved.complete)'
    BY <1>2 DEF IInv, CountsSound, Start
  <2>3. ToldOnce'
    BY <1>2 DEF IInv, Typed, ToldOnce, Start, Servable
  <2>4. SinceCounted' /\ FailedForReason'
    BY <1>2 DEF IInv, SinceCounted, Nothing, FailedForReason, Start
  <2> QED
    BY <2>1, <2>2, <2>3, <2>4 DEF IInv
<1>3. CASE StartFails
  <2>1. Typed' /\ StoresNested'
    BY <1>3 DEF IInv, Typed, StoresNested, StartFails
  <2>2. FailedForReason'
    BY <1>3 DEF FailedForReason, StartFails, Loadable, Servable
  <2> QED
    BY <1>3, <2>1, <2>2
    DEF IInv, CountsSound, SinceCounted, ToldOnce, StartFails
<1> QED
  BY <1>1, <1>2, <1>3

\* Every step keeps the invariant.
LEMMA NextIInv == IInv /\ [Next]_vars => IInv'
<1> SUFFICES ASSUME IInv, [Next]_vars
             PROVE  IInv'
  OBVIOUS
<1>1. CASE Next
  BY <1>1, IngestIInv, IngestCompleteIInv, StoreIInv, RestartIInv DEF Next
<1>2. CASE UNCHANGED vars
  BY <1>2 DEF vars, IInv, Typed, StoresNested, CountsSound, SinceCounted,
              ToldOnce, FailedForReason, Loadable, Servable
<1> QED
  BY <1>1, <1>2

\* The invariant holds of every reachable state.
LEMMA IInvAlways == Spec => []IInv
  BY InitIInv, NextIInv, PTL DEF Spec

-----------------------------------------------------------------------------

\* Counts never pass the total of a message, and fragments never leave its
\* range: DataCache's entries and the fragment stores are always well-formed.
THEOREM TypeCorrect == Spec => []TypeOK
<1>1. IInv => TypeOK
  <2> SUFFICES ASSUME IInv
               PROVE  TypeOK
    OBVIOUS
  <2>1. \A m \in Messages : Fragments(m) \subseteq AllFragments
    BY DEF AllFragments
  <2>2. /\ mem \in FragmentSets /\ disk \in FragmentSets
        /\ counted \in FragmentSets /\ since \in FragmentSets
        /\ saved.counted \in FragmentSets
    BY <2>1 DEF IInv, Typed, StoresNested, FragmentSets
  <2>3. \A m \in Messages :
          count[m] \in 0 .. Total[m] /\ saved.count[m] \in 0 .. Total[m]
    BY FragmentsCount DEF IInv, Typed, CountsSound
  <2> QED
    BY <2>2, <2>3 DEF IInv, Typed, TypeOK
<1> QED
  BY <1>1, IInvAlways, PTL

\* A message that ingest has marked complete has all of its fragments, unless
\* a fragment was counted twice: if none was, the count is the number of
\* different fragments, and only all of them are as many as the total.
THEOREM CompleteIsWhole == Spec => []CompleteMeansAll
<1>1. IInv => CompleteMeansAll
  <2> SUFFICES ASSUME IInv, NEW m \in complete, ~Miscounted(Data, m)
               PROVE  mem[m] = Fragments(m)
    BY DEF CompleteMeansAll
  <2>1. m \in Messages
    BY DEF IInv, Typed
  <2>2. Cardinality(counted[m]) = Total[m]
    BY <2>1 DEF Miscounted, Data, IInv, CountsSound
  <2>3. counted[m] \in SUBSET Fragments(m)
    BY <2>1 DEF IInv, StoresNested
  <2>4. counted[m] = Fragments(m)
    BY <2>1, <2>2, <2>3, AllCounted
  <2> QED
    BY <2>1, <2>4 DEF IInv, StoresNested
<1> QED
  BY <1>1, IInvAlways, PTL

\* service_callbacks is called for a message once in the life of a process,
\* and exactly if the message is complete and its content can be given.
THEOREM ConsumersToldOnce == Spec => []ToldOnce
<1>1. IInv => ToldOnce
  BY DEF IInv
<1> QED
  BY <1>1, IInvAlways, PTL

\* A message all of whose fragments came in since the start is complete,
\* whatever count the start has read from the saved dictionary.
THEOREM ArrivedIsComplete == Spec => []NothingForgotten
<1>1. IInv => NothingForgotten
  <2> SUFFICES ASSUME IInv, up = "up", typed, NEW m \in Messages,
                      since[m] = Fragments(m), m \notin complete
               PROVE  FALSE
    BY DEF NothingForgotten
  <2>1. counted[m] = Fragments(m)
    BY DEF IInv, SinceCounted, StoresNested
  <2>2. Total[m] <= count[m] /\ count[m] <= Total[m]
    BY <2>1, FragmentsCount DEF IInv, CountsSound
  <2>3. count[m] # Total[m]
    BY DEF IInv, CountsSound
  <2>4. count[m] \in Nat /\ Total[m] \in Nat
    BY FragmentsCount DEF IInv, Typed
  <2> QED
    BY <2>2, <2>3, <2>4
<1> QED
  BY <1>1, IInvAlways, PTL

\* The constructor fails on what an earlier process stored only if there are
\* two messages of one type on disk, or one was saved as complete with a
\* fragment counted twice: what was counted was on disk before.
THEOREM RestartIsSafe == Spec => []RestartOpens
<1>1. IInv => RestartOpens
  <2> SUFFICES ASSUME IInv, up = "failed", Loadable,
                      \A m \in saved.complete : ~Miscounted(saved, m)
               PROVE  FALSE
    BY DEF RestartOpens
  <2>1. PICK m \in saved.complete : disk[m] # Fragments(m)
    BY DEF IInv, FailedForReason, Servable
  <2>2. m \in Messages
    BY DEF IInv, Typed
  <2>3. Cardinality(saved.counted[m]) = Total[m]
    BY <2>2 DEF Miscounted, IInv, CountsSound
  <2>4. saved.counted[m] \in SUBSET Fragments(m)
    BY <2>2 DEF IInv, StoresNested
  <2>5. saved.counted[m] = Fragments(m)
    BY <2>2, <2>3, <2>4, AllCounted
  <2> QED
    BY <2>1, <2>2, <2>5 DEF IInv, StoresNested
<1> QED
  BY <1>1, IInvAlways, PTL
=============================================================================
