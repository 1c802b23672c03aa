------------------------ MODULE TelemetryServer_proofs ------------------------
(***************************************************************************)
(* Proofs about TelemetryServer, for any daemons, dependencies, order of   *)
(* registration, requests and commands.                                    *)
(*                                                                         *)
(* Both properties of perform_all need to know who holds the manager's     *)
(* lock: a walk holds it from its first name to its last, and so does the  *)
(* command queue's thread while it joins another.  Nobody else changes the *)
(* state of a managed daemon then, except its own thread.                  *)
(***************************************************************************)
EXTENDS TelemetryServer, FiniteSetTheorems, TLAPS

Callers == {"main", "handler"}

\* Which states there are plays no part.
StateOfEach == dstate = [d \in Threads |-> dstate[d]]

TypesInv ==
  /\ StateOfEach
  /\ at \in [Actors ->
       {"out", "walk", "join", "get", "names", "perform", "reply"}]
  /\ phase \in [Callers -> Phases]
  /\ executed \in Seq(ToSet(executed))

\* Who holds the lock.
HolderInv ==
  /\ \A p \in Callers : at[p] \in {"walk", "join"} =>
       lock = p /\ phase[p] \in DOMAIN AllOperation
  /\ at["command"] = "join" => lock = "command"

IInv == TypesInv /\ HolderInv /\ WalkHolds /\ DepsFirst

-----------------------------------------------------------------------------

\* The constructor's state has the invariant.
LEMMA InitIInv == Init => IInv
<1>1. ASSUME Init PROVE IInv
  <2>1. executed = <<>> /\ ToSet(executed) = {}
    BY <1>1 DEF Init, ToSet
  <2>2. TypesInv
    BY <1>1, <2>1 DEF Init, TypesInv, StateOfEach, Threads, Actors, Callers,
                      Phases, AllOperation
  <2>3. HolderInv /\ WalkHolds /\ DepsFirst
    BY <1>1, <2>1 DEF Init, HolderInv, Callers, WalkHolds, Walkers, DepsFirst,
                      Actors
  <2> QED BY <2>2, <2>3 DEF IInv
<1> QED BY <1>1

-----------------------------------------------------------------------------

InWalk(p) == at[p] \in {"walk", "join"}

\* What a thread may do to a daemon while somebody walks: its own thread sets
\* RUNNING, or IDLE.
Harmless(d) ==
  \/ dstate'[d] = dstate[d]
  \/ dstate'[d] = "IDLE"
  \/ dstate[d] = "STARTING" /\ dstate'[d] = "RUNNING"

\* A step that leaves the walk alone, and does harmless things to daemons if
\* there is one, keeps the invariant.
LEMMA QuietStep ==
  ASSUME IInv,
         executed' = executed, failed' = failed,
         TypesInv', HolderInv',
         \A p \in Callers : InWalk(p)' =>
           InWalk(p) /\ phase'[p] = phase[p] /\ \A d \in Daemons : Harmless(d)
  PROVE  IInv'
<1>1. DepsFirst'
  BY DEF IInv, DepsFirst
<1>2. WalkHolds'
  <2> SUFFICES ASSUME NEW p \in Walkers',
                      NEW d \in ((ToSet(executed) \ failed) \cap Daemons)'
               PROVE  dstate'[d] \in Left[AllOperation[phase'[p]]]
    BY DEF WalkHolds
  <2>1. p \in Callers /\ InWalk(p)' /\ InWalk(p) /\ phase'[p] = phase[p]
        /\ Harmless(d)
    BY DEF Walkers, Callers, InWalk
  <2>2. p \in Walkers /\ d \in (ToSet(executed) \ failed) \cap Daemons
    BY <2>1 DEF Walkers, Callers, InWalk
  <2>3. dstate[d] \in Left[AllOperation[phase[p]]]
    BY <2>2 DEF IInv, WalkHolds
  <2>4. AllOperation[phase[p]] \in {"START", "PAUSE", "UNPAUSE", "STOP"}
    BY <2>1 DEF IInv, HolderInv, AllOperation, InWalk
  <2> QED BY <2>1, <2>3, <2>4 DEF Left, Harmless
<1> QED BY <1>1, <1>2 DEF IInv

\* Steps of the daemons' threads.
LEMMA ThreadStep ==
  ASSUME IInv, NEW d \in Threads, SetRunning(d) \/ SetIdle(d)
  PROVE  IInv'
<1>1. executed' = executed /\ failed' = failed /\ at' = at /\ phase' = phase
      /\ lock' = lock
  BY DEF SetRunning, SetIdle, walkVars
<1>2. TypesInv' /\ HolderInv'
  BY <1>1 DEF IInv, TypesInv, StateOfEach, HolderInv, SetRunning, SetIdle
<1>3. \A e \in Daemons : Harmless(e)
  BY DEF IInv, TypesInv, StateOfEach, Threads, SetRunning, SetIdle, Harmless
<1> QED BY <1>1, <1>2, <1>3, QuietStep DEF InWalk

\* Steps of main and of the handler outside perform_all.
LEMMA CallerStep ==
  ASSUME IInv, NEW p \in Callers,
         \/ LookAtHttp(p) \/ StopHttp(p) \/ HttpStopped(p) \/ Close(p)
         \/ /\ p = "main"
            /\ StartHttp \/ AwaitStart \/ AwaitStop \/ AwaitTimeout
         \/ p = "handler" /\ Shutdown
  PROVE  IInv'
<1>1. executed' = executed /\ failed' = failed /\ at' = at /\ lock' = lock
  BY DEF LookAtHttp, StopHttp, HttpStopped, Close, StartHttp, AwaitStart,
         AwaitStop, AwaitTimeout, Shutdown, walkVars
<1>2. PICK next \in Phases : phase' = [phase EXCEPT ![p] = next]
  BY DEF LookAtHttp, StopHttp, HttpStopped, Close, StartHttp, AwaitStart,
         AwaitStop, AwaitTimeout, Shutdown, Goto, Phases, AllOperation
<1>3. \A e \in Daemons : dstate'[e] = dstate[e]
  BY ServerAssumption
  DEF LookAtHttp, StopHttp, HttpStopped, Close, StartHttp, AwaitStart,
      AwaitStop, AwaitTimeout, Shutdown, IInv, TypesInv, StateOfEach, Threads
<1>4. StateOfEach'
  BY DEF LookAtHttp, StopHttp, HttpStopped, Close, StartHttp, AwaitStart,
         AwaitStop, AwaitTimeout, Shutdown, IInv, TypesInv, StateOfEach,
         Threads
<1>5. phase[p] \notin DOMAIN AllOperation
  BY DEF LookAtHttp, StopHttp, HttpStopped, Close, StartHttp, AwaitStart,
         AwaitStop, AwaitTimeout, Shutdown, AllOperation
<1>6. ~InWalk(p)
  BY <1>5 DEF IInv, HolderInv, InWalk
<1>7. \A q \in Callers : q # p => phase'[q] = phase[q]
  BY <1>2 DEF IInv, TypesInv, StateOfEach
<1>8. TypesInv' /\ HolderInv'
  BY <1>1, <1>2, <1>4, <1>6, <1>7
    DEF IInv, TypesInv, StateOfEach, HolderInv, InWalk
<1> QED BY <1>1, <1>3, <1>6, <1>7, <1>8, QuietStep DEF InWalk, Harmless

\* Steps of execute()'s callers.
LEMMA ClientStep ==
  ASSUME IInv, NEW r \in Requests,
         Caller(r) \/ \E c \in Commands : Execute(r, c)
  PROVE  IInv'
<1>1. UNCHANGED <<dstate, lock, phase, at, executed, failed>>
  BY DEF Caller, Answered, TimesOut, Execute, walkVars
<1> QED BY <1>1, QuietStep
  DEF IInv, TypesInv, StateOfEach, HolderInv, InWalk, Harmless

\* Steps of the command queue's thread that operate on no daemon.
LEMMA CommandStep ==
  ASSUME IInv,
         \/ TakeNone \/ TakeCommand \/ AllNames \/ StatesAdded
         \/ \E ok \in BOOLEAN : HandlerReturns(ok)
  PROVE  IInv'
<1>1. UNCHANGED <<lock, phase, executed, failed>>
  BY DEF TakeNone, TakeCommand, AllNames, StatesAdded, HandlerReturns, walkVars
<1>2. PICK where \in {"get", "names", "perform", "reply"} :
        at' = [at EXCEPT !["command"] = where]
  <2>1. CASE TakeNone
    <3>1. at["command"] = "get" /\ at' = at
      BY <2>1 DEF TakeNone, Ready
    <3> QED BY <3>1 DEF IInv, TypesInv, StateOfEach
  <2>2. CASE TakeCommand
    <3> DEFINE c == asked[Head(queue)]
    <3>1. CASE c.kind = "rejected"
      BY <2>2, <3>1 DEF TakeCommand, Reply
    <3>2. CASE c.kind # "rejected"
      <4>1. /\ at["command"] = "get"
            /\ at' = [at EXCEPT !["command"] =
                        CASE c.kind = "plain" -> "reply"
                          [] c.kind = "some" -> "perform"
                          [] OTHER -> "names"]
        BY <2>2, <3>2 DEF TakeCommand, Ready
      <4> QED BY <4>1
    <3> QED BY <3>1, <3>2
  <2>3. CASE AllNames \/ StatesAdded \/ \E ok \in BOOLEAN : HandlerReturns(ok)
    BY <2>3 DEF AllNames, StatesAdded, HandlerReturns, Reply
  <2> QED BY <2>1, <2>2, <2>3
<1>3. \A p \in Callers : at'[p] = at[p]
  BY <1>2 DEF IInv, TypesInv, StateOfEach, Callers
<1>4. StateOfEach' /\ \A d \in Daemons : Harmless(d)
  BY DEF TakeNone, TakeCommand, AllNames, StatesAdded, HandlerReturns,
         Harmless, IInv, TypesInv, StateOfEach, Threads
<1>5. TypesInv' /\ HolderInv'
  BY <1>1, <1>2, <1>3, <1>4 DEF IInv, TypesInv, StateOfEach, HolderInv, Actors
<1> QED BY <1>1, <1>3, <1>4, <1>5, QuietStep DEF InWalk

\* Apply keeps the states of daemons a function.
LEMMA ApplyTypes ==
  ASSUME StateOfEach, NEW d, NEW o, Apply(d, o)
  PROVE  StateOfEach'
BY DEF Apply, StateOfEach

\* Steps of the command queue's thread that operate on a daemon: nobody walks,
\* or the name is not that of a daemon.
LEMMA CommandOperates ==
  ASSUME IInv, PerformOne \/ StopOne \/ JoinedOne \/ Dies
  PROVE  IInv'
<1>1. UNCHANGED <<phase, executed, failed>>
  BY DEF PerformOne, StopOne, JoinedOne, Dies, walkVars
<1>2. CASE PerformOne
  <2>1. lock' = lock /\ at' = at
    BY <1>2 DEF PerformOne
  <2>2. StateOfEach'
    BY <1>2, ApplyTypes DEF PerformOne, IInv, TypesInv, StateOfEach
  <2>3. TypesInv' /\ HolderInv'
    BY <1>1, <2>1, <2>2 DEF IInv, TypesInv, StateOfEach, HolderInv
  <2>4. CASE Head(names) \in Daemons
    <3>1. lock = Nobody
      BY <1>2, <2>4 DEF PerformOne, MayPerform
    <3>2. \A p \in Callers : ~InWalk(p)'
      BY <2>1, <3>1 DEF IInv, HolderInv, InWalk, Callers, Nobody
    <3> QED BY <1>1, <2>3, <3>2, QuietStep
  <2>5. CASE Head(names) \notin Daemons
    <3>1. dstate' = dstate
      BY <1>2, <2>5 DEF PerformOne, Apply, Moves
    <3> QED BY <1>1, <2>1, <2>3, <3>1, QuietStep DEF InWalk, Harmless
  <2> QED BY <2>4, <2>5
<1>3. CASE StopOne
  <2>1. Head(names) \in Daemons /\ lock = Nobody
    BY <1>3 DEF StopOne, MayPerform, Joins, Moves
  <2>2. StateOfEach'
    BY <1>3, ApplyTypes DEF StopOne, IInv, TypesInv, StateOfEach
  <2>3. \A p \in Callers : ~InWalk(p) /\ at'[p] = at[p]
    BY <1>3, <2>1
      DEF StopOne, IInv, HolderInv, TypesInv, StateOfEach, InWalk, Callers,
          Nobody
  <2>4. TypesInv' /\ HolderInv'
    BY <1>1, <1>3, <2>2, <2>3
      DEF StopOne, IInv, TypesInv, StateOfEach, HolderInv, InWalk, Actors
  <2> QED BY <1>1, <2>3, <2>4, QuietStep DEF InWalk
<1>4. CASE JoinedOne
  <2>1. lock = "command"
    BY <1>4 DEF JoinedOne, Ready, IInv, HolderInv
  <2>2. StateOfEach'
    BY <1>4 DEF JoinedOne, IInv, TypesInv, StateOfEach
  <2>3. \A p \in Callers : ~InWalk(p) /\ at'[p] = at[p]
    BY <1>4, <2>1
      DEF JoinedOne, IInv, HolderInv, TypesInv, StateOfEach, InWalk, Callers
  <2>4. TypesInv' /\ HolderInv'
    BY <1>1, <1>4, <2>2, <2>3
      DEF JoinedOne, IInv, TypesInv, StateOfEach, HolderInv, InWalk, Actors
  <2> QED BY <1>1, <2>3, <2>4, QuietStep DEF InWalk
<1>5. CASE Dies
  <2>1. lock = Nobody
    BY <1>5, ServerAssumption DEF Dies, MayPerform
  <2>2. StateOfEach'
    BY <1>5 DEF Dies, IInv, TypesInv, StateOfEach
  <2>3. \A p \in Callers : ~InWalk(p) /\ at'[p] = at[p]
    BY <1>5, <2>1
      DEF Dies, IInv, HolderInv, TypesInv, StateOfEach, InWalk, Callers,
          Nobody
  <2>4. TypesInv' /\ HolderInv'
    BY <1>1, <1>5, <2>2, <2>3
      DEF Dies, IInv, TypesInv, StateOfEach, HolderInv, InWalk, Actors
  <2> QED BY <1>1, <2>3, <2>4, QuietStep DEF InWalk
<1> QED BY <1>2, <1>3, <1>4, <1>5

\* A walk begins, with nobody executed; nobody else is in one.
LEMMA WalkBegins ==
  ASSUME IInv, NEW p \in Callers, PerformAll(p)
  PROVE  IInv'
<1>1. lock = Nobody /\ lock' = p /\ phase' = phase /\ dstate' = dstate
      /\ executed' = <<>> /\ phase[p] \in DOMAIN AllOperation
      /\ at' = [at EXCEPT ![p] = "walk"]
  BY DEF PerformAll
<1>2. at["command"] # "join" /\ \A q \in Callers : ~InWalk(q)
  BY <1>1 DEF IInv, HolderInv, InWalk, Callers, Nobody
<1>3. ToSet(executed') = {} /\ DOMAIN executed' = {}
  BY <1>1 DEF ToSet
<1>4. TypesInv'
  BY <1>1, <1>3 DEF IInv, TypesInv, StateOfEach, ToSet, Callers, Actors
<1>5. HolderInv'
  BY <1>1, <1>2 DEF IInv, TypesInv, HolderInv, InWalk, Callers, Actors
<1>6. WalkHolds' /\ DepsFirst'
  BY <1>3 DEF WalkHolds, DepsFirst
<1> QED BY <1>4, <1>5, <1>6 DEF IInv

\* A walk ends, or goes on without operating on a daemon.
LEMMA WalkMoves ==
  ASSUME IInv, NEW p \in Callers, Skip(p) \/ Postpone(p) \/ Joined(p)
  PROVE  IInv'
<1>1. UNCHANGED <<dstate, lock, phase, executed, failed>> /\ InWalk(p)
  BY DEF Skip, Postpone, Joined, walkVars, InWalk
<1>2. at' = at \/ at' = [at EXCEPT ![p] = "walk"]
  BY DEF Skip, Postpone, Joined
<1>3. \A q \in Callers : InWalk(q)' <=> InWalk(q)
  BY <1>1, <1>2 DEF IInv, TypesInv, InWalk, Callers, Actors
<1>4. TypesInv'
  BY <1>1, <1>2 DEF IInv, TypesInv, StateOfEach, Callers, Actors
<1>5. HolderInv'
  BY <1>1, <1>2, <1>3 DEF IInv, TypesInv, HolderInv, InWalk, Callers, Actors
<1> QED BY <1>1, <1>3, <1>4, <1>5, QuietStep DEF Harmless

\* The walk is over and the lock released.
LEMMA WalkEnds ==
  ASSUME IInv, NEW p \in Callers, AllPerformed(p)
  PROVE  IInv'
<1>1. dstate' = dstate /\ lock' = Nobody /\ InWalk(p)
      /\ at' = [at EXCEPT ![p] = "out"] /\ executed' = <<>>
  BY DEF AllPerformed, InWalk
<1>2. lock = p /\ phase[p] \in DOMAIN AllOperation
  BY <1>1 DEF IInv, HolderInv, InWalk
<1> DEFINE next == IF failed = {} THEN AfterAll[phase[p]] ELSE "raised"
<1>3. next \in Phases /\ phase' = [phase EXCEPT ![p] = next]
  <2>1. phase' = [phase EXCEPT ![p] = next]
    BY DEF AllPerformed
  <2>2. next \in Phases
    BY <1>2 DEF AfterAll, AllOperation, Phases
  <2> QED BY <2>1, <2>2
<1> HIDE DEF next
<1>4. ToSet(executed') = {} /\ DOMAIN executed' = {}
  BY <1>1 DEF ToSet
<1>5. TypesInv'
  BY <1>1, <1>3, <1>4 DEF IInv, TypesInv, StateOfEach, ToSet, Callers, Actors
<1>6. at["command"] # "join" /\ \A q \in Callers : q # p => ~InWalk(q)
  BY <1>2 DEF IInv, HolderInv, InWalk, Callers
<1>7. HolderInv'
  BY <1>1, <1>6 DEF IInv, TypesInv, HolderInv, InWalk, Callers, Actors
<1>8. WalkHolds' /\ DepsFirst'
  BY <1>4 DEF WalkHolds, DepsFirst
<1> QED BY <1>5, <1>7, <1>8 DEF IInv

\* Appending to a sequence: its range, and the entries it had.
LEMMA AppendFacts ==
  ASSUME NEW s, s \in Seq(ToSet(s)), NEW e
  PROVE  /\ Append(s, e) \in Seq(ToSet(Append(s, e)))
         /\ ToSet(Append(s, e)) = ToSet(s) \cup {e}
         /\ DOMAIN Append(s, e) = 1 .. Len(s) + 1 /\ Len(s) \in Nat
         /\ \A i \in 1 .. Len(s) : Append(s, e)[i] = s[i]
         /\ Append(s, e)[Len(s) + 1] = e
<1> DEFINE S == ToSet(s) \cup {e}
<1>1. s \in Seq(S)
  OBVIOUS
<1> HIDE DEF S
<1>2. /\ Append(s, e) \in Seq(S) /\ Len(s) \in Nat
      /\ Len(Append(s, e)) = Len(s) + 1
      /\ DOMAIN Append(s, e) = 1 .. Len(s) + 1 /\ DOMAIN s = 1 .. Len(s)
      /\ \A i \in 1 .. Len(s) : Append(s, e)[i] = s[i]
      /\ Append(s, e)[Len(s) + 1] = e
  BY <1>1 DEF S
<1>3. ToSet(Append(s, e)) = S
  BY <1>2 DEF ToSet, S
<1> QED BY <1>2, <1>3 DEF S

\* The next daemon of a walk: all it depends on has been executed, and what
\* perform() leaves is what the operation may leave.
LEMMA WalkPerforms ==
  ASSUME IInv, NEW p \in Callers, PerformNext(p)
  PROVE  IInv'
<1> DEFINE curr == Last(stack)
           o == AllOperation[phase[p]]
<1>1. /\ InWalk(p) /\ curr \notin ToSet(executed) /\ ToExecute(curr) = {}
      /\ Apply(curr, o) /\ executed' = Append(executed, curr)
      /\ failed' = IF Succeeds(curr, o) THEN failed ELSE failed \cup {curr}
      /\ UNCHANGED <<lock, phase>>
      /\ at' = at \/ at' = [at EXCEPT ![p] = "join"]
  BY DEF PerformNext, InWalk, Performed
<1> HIDE DEF curr
<1>2. lock = p /\ phase[p] \in DOMAIN AllOperation
  BY <1>1 DEF IInv, HolderInv, InWalk
<1>3. o \in {"START", "PAUSE", "UNPAUSE", "STOP"}
  BY <1>2 DEF AllOperation
<1> HIDE DEF o
<1>4. /\ executed' \in Seq(ToSet(executed'))
      /\ ToSet(executed') = ToSet(executed) \cup {curr}
      /\ DOMAIN executed' = 1 .. Len(executed) + 1 /\ Len(executed) \in Nat
      /\ \A i \in 1 .. Len(executed) : executed'[i] = executed[i]
      /\ executed'[Len(executed) + 1] = curr
  BY <1>1, AppendFacts DEF IInv, TypesInv
<1>5. StateOfEach'
  BY <1>1, ApplyTypes DEF IInv, TypesInv
<1>6. TypesInv'
  BY <1>1, <1>4, <1>5 DEF IInv, TypesInv, Callers, Actors
<1>7. \A q \in Callers : InWalk(q)' => q = p
  BY <1>1, <1>2 DEF IInv, TypesInv, HolderInv, InWalk, Callers, Actors
<1>8. HolderInv'
  <2>1. at'["command"] = at["command"]
    BY <1>1 DEF IInv, TypesInv, Callers, Actors
  <2> QED BY <1>1, <1>2, <1>7, <2>1 DEF IInv, HolderInv, InWalk
<1>9. DepsFirst'
  <2> SUFFICES ASSUME NEW i \in 1 .. Len(executed) + 1,
                      NEW n \in ToSet(Deps(executed'[i]))
               PROVE  \E j \in 1 .. i - 1 : executed'[j] = n
    BY <1>4 DEF DepsFirst, Deps
  <2>1. DOMAIN executed = 1 .. Len(executed)
    BY DEF IInv, TypesInv
  <2>2. CASE i = Len(executed) + 1
    <3>1. n \in ToSet(executed)
      BY <1>1, <1>4, <2>2 DEF ToExecute, Performed
    <3>2. PICK j \in 1 .. Len(executed) : executed[j] = n
      BY <2>1, <3>1 DEF ToSet
    <3> QED BY <1>4, <2>2, <3>2
  <2>3. CASE i \in 1 .. Len(executed)
    <3>1. n \in ToSet(Deps(executed[i]))
      BY <1>4, <2>3
    <3>2. PICK j \in 1 .. i - 1 : executed[j] = n
      BY <2>1, <2>3, <3>1 DEF IInv, DepsFirst
    <3> QED BY <1>4, <2>3, <3>2
  <2> QED BY <1>4, <2>2, <2>3
<1>10. WalkHolds'
  <2> SUFFICES ASSUME NEW q \in Walkers',
                      NEW d \in ((ToSet(executed) \ failed) \cap Daemons)'
               PROVE  dstate'[d] \in Left[AllOperation[phase'[q]]]
    BY DEF WalkHolds
  <2>1. q = p
    BY <1>7 DEF Walkers, Callers, InWalk
  <2>2. d \in Daemons /\ d \in ToSet(executed) \cup {curr} /\ d \notin failed'
    BY <1>4
  <2>3. p \in Walkers
    BY <1>1 DEF Walkers, Callers, InWalk
  <2>4. CASE d # curr
    <3>1. d \in (ToSet(executed) \ failed) \cap Daemons
      BY <1>1, <2>2, <2>4
    <3>2. dstate[d] \in Left[o]
      BY <2>3, <3>1 DEF IInv, WalkHolds, o
    <3>3. dstate'[d] = dstate[d]
      BY <1>1, <2>2, <2>4 DEF Apply, IInv, TypesInv, StateOfEach, Threads
    <3> QED BY <1>1, <2>1, <3>2, <3>3 DEF o
  <2>5. CASE d = curr
    <3>1. Succeeds(curr, o)
      BY <1>1, <2>2, <2>5
    <3>2. dstate'[curr] = IF Moves(curr, o) THEN To[o] ELSE dstate[curr]
      BY <1>1, <2>2, <2>5 DEF Apply, IInv, TypesInv, StateOfEach, Threads
    <3>3. dstate'[curr] \in Left[o]
      BY <1>3, <3>1, <3>2 DEF Succeeds, Left, To, skip_if_state
    <3> QED BY <1>1, <2>1, <2>5, <3>3 DEF o
  <2> QED BY <2>4, <2>5
<1> QED BY <1>6, <1>8, <1>9, <1>10 DEF IInv

-----------------------------------------------------------------------------

\* Every step keeps the invariant.
LEMMA NextIInv == IInv /\ [Next]_vars => IInv'
<1> SUFFICES ASSUME IInv, [Next]_vars PROVE IInv'
  OBVIOUS
<1>1. ASSUME NEW p \in Callers, Walk(p) PROVE IInv'
  BY <1>1, WalkBegins, WalkMoves, WalkPerforms, WalkEnds, CallerStep DEF Walk
<1>2. CASE StartHttp \/ AwaitStart \/ AwaitStop \/ AwaitTimeout \/ Shutdown
  <2>1. "main" \in Callers /\ "handler" \in Callers
    BY DEF Callers
  <2> QED BY <1>2, <2>1, CallerStep
<1>3. CASE CommandThread
  BY <1>3, CommandStep, CommandOperates DEF CommandThread
<1>4. CASE UNCHANGED vars
  BY <1>4, QuietStep DEF vars, walkVars, IInv, TypesInv, StateOfEach,
                         HolderInv, InWalk, Harmless
<1>5. CASE Next
  BY <1>1, <1>2, <1>3, <1>5, ThreadStep, ClientStep DEF Next, Main, Callers
<1> QED BY <1>4, <1>5

\* The invariant holds of every server.
THEOREM Invariance == Spec => []IInv
BY InitIInv, NextIInv, PTL DEF Spec

\* perform_all respects the dependencies, whatever they are and in whatever
\* order the daemons were registered.
THEOREM DependenciesFirst == Spec => []DepsFirst
BY Invariance, PTL DEF IInv

\* Nothing undoes what perform_all has done while it holds the lock.
THEOREM WalksHold == Spec => []WalkHolds
BY Invariance, PTL DEF IInv

-----------------------------------------------------------------------------
(***************************************************************************)
(* perform_all leaves nobody out: what it has not executed yet is on the   *)
(* stack, however often names are put back to its far end.                 *)
(***************************************************************************)
WalkInv ==
  /\ IsInjective(executed)
  /\ stack \in Seq(ToSet(stack))
  /\ \A p \in Callers : InWalk(p) =>
       Daemons \subseteq ToSet(executed) \cup ToSet(stack)

\* The list to_execute is a list.
LEMMA InOrderIsSeq ==
  ASSUME NEW n
  PROVE  \E S : InOrder(n) \in Seq(S)
<1> DEFINE deps == Deps(n)
           left == {i \in DOMAIN deps : deps[i] \in ToExecute(n)}
           Rank(i) == Cardinality({j \in left : j <= i})
           e(k) == deps[CHOOSE i \in left : Rank(i) = k]
           m == Cardinality(left)
           S == {e(k) : k \in 1 .. m}
<1>1. DOMAIN deps = 1 .. Len(deps) /\ Len(deps) \in Nat
  <2>1. CASE n \in Daemons
    <3>1. deps \in Seq(STRING)
      BY <2>1, ServerAssumption DEF Deps
    <3> QED BY <3>1
  <2>2. CASE n \notin Daemons
    <3>1. deps = <<>>
      BY <2>2 DEF Deps
    <3> QED BY <3>1
  <2> QED BY <2>1, <2>2
<1>2. m \in Nat
  <2>1. IsFiniteSet(1 .. Len(deps))
    BY <1>1, FS_Interval
  <2>2. left \in SUBSET (1 .. Len(deps))
    BY <1>1
  <2>3. IsFiniteSet(left)
    BY <2>1, <2>2, FS_Subset
  <2> QED BY <2>3, FS_CardinalityType
<1>3. InOrder(n) = [k \in 1 .. m |-> e(k)]
  BY DEF InOrder
<1> HIDE DEF e, m
<1>4. [k \in 1 .. m |-> e(k)] \in Seq(S)
  BY <1>2
<1> QED BY <1>3, <1>4

\* A sequence is one of its own elements.
LEMMA SeqOfOwn ==
  ASSUME NEW S, NEW s \in Seq(S)
  PROVE  s \in Seq(ToSet(s))
<1>1. DOMAIN s = 1 .. Len(s) /\ Len(s) \in Nat
  OBVIOUS
<1>2. \A i \in 1 .. Len(s) : s[i] \in ToSet(s)
  BY <1>1 DEF ToSet
<1> QED BY <1>1, <1>2

\* Whatever is put in front of it, a name that is popped and pushed is there.
LEMMA PushFacts ==
  ASSUME NEW s, s \in Seq(ToSet(s)), s # <<>>, NEW t, NEW S, t \in Seq(S)
  PROVE  LET u == t \o <<Last(s)>> \o Front(s)
         IN  u \in Seq(ToSet(u)) /\ ToSet(s) \subseteq ToSet(u)
<1> DEFINE T == S \cup ToSet(s)
           x == Last(s)
           f == Front(s)
           u == t \o <<x>> \o f
<1>1. /\ Len(s) \in Nat \ {0} /\ DOMAIN s = 1 .. Len(s)
      /\ \A i \in 1 .. Len(s) : s[i] \in ToSet(s)
  BY DEF ToSet
<1>2. x = s[Len(s)] /\ x \in ToSet(s)
  BY <1>1 DEF Last
<1>3. /\ f \in Seq(ToSet(s)) /\ Len(f) = Len(s) - 1
      /\ \A i \in 1 .. Len(s) - 1 : f[i] = s[i]
  BY <1>1 DEF Front
<1>4. t \in Seq(T) /\ f \in Seq(T) /\ <<x>> \in Seq(T)
  BY <1>2, <1>3
<1> HIDE DEF T, x, f
<1>5. /\ u \in Seq(T) /\ Len(u) = Len(t) + 1 + Len(f) /\ Len(t) \in Nat
      /\ u[Len(t) + 1] = x
      /\ \A i \in 1 .. Len(f) : u[Len(t) + 1 + i] = f[i]
  BY <1>4
<1> HIDE DEF u
<1>6. DOMAIN u = 1 .. Len(u)
  BY <1>5
<1>7. u \in Seq(ToSet(u))
  BY <1>5, SeqOfOwn
<1>8. ASSUME NEW i \in 1 .. Len(s) PROVE s[i] \in ToSet(u)
  <2>1. CASE i = Len(s)
    <3>1. Len(t) + 1 \in DOMAIN u /\ s[i] = u[Len(t) + 1]
      BY <1>1, <1>2, <1>3, <1>5, <1>6, <2>1
    <3> QED BY <3>1 DEF ToSet
  <2>2. CASE i < Len(s)
    <3>1. i \in 1 .. Len(s) - 1 /\ Len(f) = Len(s) - 1
      BY <1>1, <1>3, <2>2
    <3>2. s[i] = u[Len(t) + 1 + i]
      BY <1>3, <1>5, <3>1
    <3>3. Len(t) + 1 + i \in DOMAIN u
      BY <1>1, <1>5, <1>6, <3>1
    <3> QED BY <3>2, <3>3 DEF ToSet
  <2>3. Len(s) \in Nat
    BY <1>1
  <2>4. i = Len(s) \/ i < Len(s)
    BY <2>3
  <2> QED BY <2>1, <2>2, <2>4
<1> QED BY <1>1, <1>7, <1>8 DEF ToSet, u, x, f

\* What is popped is all that a stack loses.
LEMMA PopFacts ==
  ASSUME NEW s, s \in Seq(ToSet(s)), s # <<>>
  PROVE  /\ Front(s) \in Seq(ToSet(Front(s)))
         /\ ToSet(s) \subseteq ToSet(Front(s)) \cup {Last(s)}
<1> DEFINE f == Front(s)
<1>1. /\ Len(s) \in Nat \ {0} /\ DOMAIN s = 1 .. Len(s)
      /\ \A i \in 1 .. Len(s) : s[i] \in ToSet(s)
  BY DEF ToSet
<1>2. /\ f \in Seq(ToSet(s)) /\ Len(f) = Len(s) - 1
      /\ DOMAIN f = 1 .. Len(s) - 1
      /\ \A i \in 1 .. Len(s) - 1 : f[i] = s[i]
  BY <1>1 DEF Front
<1> HIDE DEF f
<1>3. f \in Seq(ToSet(f))
  BY <1>2, SeqOfOwn
<1>4. ASSUME NEW i \in 1 .. Len(s) PROVE s[i] \in ToSet(f) \cup {Last(s)}
  <2>1. CASE i = Len(s)
    BY <2>1 DEF Last
  <2>2. CASE i < Len(s)
    <3>1. i \in DOMAIN f /\ s[i] = f[i]
      BY <1>1, <1>2, <2>2
    <3> QED BY <3>1 DEF ToSet
  <2>3. Len(s) \in Nat
    BY <1>1
  <2>4. i = Len(s) \/ i < Len(s)
    BY <2>3
  <2> QED BY <2>1, <2>2, <2>4
<1> QED BY <1>1, <1>3, <1>4 DEF ToSet, f

\* The invariant of perform_all's walk is kept by every step.
LEMMA NextWalkInv ==
  ASSUME IInv, WalkInv, [Next]_vars
  PROVE  WalkInv'
<1>1. CASE /\ UNCHANGED <<stack, executed>>
           /\ \A p \in Callers : InWalk(p)' => InWalk(p)
  BY <1>1 DEF WalkInv
<1>2. ASSUME NEW p \in Callers, PerformAll(p) PROVE WalkInv'
  <2>1. executed' = <<>> /\ stack' = Order
    BY <1>2 DEF PerformAll
  <2>2. Order \in Seq(Daemons) /\ ToSet(Order) = Daemons
    BY ServerAssumption
  <2> QED BY <2>1, <2>2 DEF WalkInv, IsInjective
<1>3. ASSUME NEW p \in Callers, Skip(p) PROVE WalkInv'
  <2>1. /\ stack # <<>> /\ stack' = Front(stack) /\ UNCHANGED <<executed, at>>
        /\ Last(stack) \in ToSet(executed)
    BY <1>3 DEF Skip, Performed
  <2>2. /\ stack' \in Seq(ToSet(stack'))
        /\ ToSet(stack) \subseteq ToSet(stack') \cup {Last(stack)}
    BY <2>1, PopFacts DEF WalkInv
  <2> QED BY <2>1, <2>2 DEF WalkInv, InWalk
<1>4. ASSUME NEW p \in Callers, Postpone(p) PROVE WalkInv'
  <2>1. /\ stack # <<>> /\ UNCHANGED <<executed, at>>
        /\ stack' = InOrder(Last(stack)) \o <<Last(stack)>> \o Front(stack)
    BY <1>4 DEF Postpone
  <2>2. PICK S : InOrder(Last(stack)) \in Seq(S)
    BY InOrderIsSeq
  <2>3. stack' \in Seq(ToSet(stack')) /\ ToSet(stack) \subseteq ToSet(stack')
    BY <2>1, <2>2, PushFacts DEF WalkInv
  <2> QED BY <2>1, <2>3 DEF WalkInv, InWalk
<1>5. ASSUME NEW p \in Callers, PerformNext(p) PROVE WalkInv'
  <2>1. /\ stack # <<>> /\ stack' = Front(stack)
        /\ Last(stack) \notin ToSet(executed)
        /\ executed' = Append(executed, Last(stack))
        /\ at' = at \/ at' = [at EXCEPT ![p] = "join"]
        /\ at[p] = "walk"
    BY <1>5 DEF PerformNext, Performed
  <2>2. /\ stack' \in Seq(ToSet(stack'))
        /\ ToSet(stack) \subseteq ToSet(stack') \cup {Last(stack)}
    BY <2>1, PopFacts DEF WalkInv
  <2>3. /\ ToSet(executed') = ToSet(executed) \cup {Last(stack)}
        /\ DOMAIN executed' = 1 .. Len(executed) + 1 /\ Len(executed) \in Nat
        /\ \A i \in 1 .. Len(executed) : executed'[i] = executed[i]
        /\ executed'[Len(executed) + 1] = Last(stack)
    BY <2>1, AppendFacts DEF IInv, TypesInv
  <2>4. DOMAIN executed = 1 .. Len(executed)
    BY DEF IInv, TypesInv
  <2>5. \A i \in 1 .. Len(executed) : executed[i] \in ToSet(executed)
    BY <2>4 DEF ToSet
  <2>6. IsInjective(executed')
    BY <2>1, <2>3, <2>4, <2>5 DEF WalkInv, IsInjective
  <2>7. \A q \in Callers : InWalk(q)' => InWalk(q)
    BY <2>1 DEF InWalk, IInv, TypesInv, Callers, Actors
  <2> QED BY <2>2, <2>3, <2>6, <2>7 DEF WalkInv
<1>6. ASSUME NEW p \in Callers, AllPerformed(p) PROVE WalkInv'
  <2>1. /\ executed' = <<>> /\ stack' = stack /\ lock = p
        /\ at' = [at EXCEPT ![p] = "out"]
    BY <1>6 DEF AllPerformed, IInv, HolderInv
  <2>2. \A q \in Callers : ~InWalk(q)'
    BY <2>1 DEF InWalk, IInv, TypesInv, HolderInv, Callers, Actors
  <2> QED BY <2>1, <2>2 DEF WalkInv, IsInjective
<1>7. ASSUME NEW p \in Callers,
             LookAtHttp(p) \/ StopHttp(p) \/ HttpStopped(p) \/ Close(p)
               \/ Joined(p)
      PROVE  WalkInv'
  <2>1. UNCHANGED <<stack, executed>>
    BY <1>7 DEF LookAtHttp, StopHttp, HttpStopped, Close, Joined, walkVars
  <2>2. at' = at \/ (at[p] = "join" /\ at' = [at EXCEPT ![p] = "walk"])
    BY <1>7 DEF LookAtHttp, StopHttp, HttpStopped, Close, Joined
  <2>3. \A q \in Callers : InWalk(q)' => InWalk(q)
    BY <2>2 DEF InWalk, IInv, TypesInv, Callers, Actors
  <2> QED BY <1>1, <2>1, <2>3
<1>8. CASE StartHttp \/ AwaitStart \/ AwaitStop \/ AwaitTimeout \/ Shutdown
  BY <1>1, <1>8 DEF StartHttp, AwaitStart, AwaitStop, AwaitTimeout, Shutdown,
                    walkVars, InWalk
<1>9. CASE CommandThread
  <2>1. UNCHANGED <<stack, executed>>
    BY <1>9 DEF CommandThread, TakeNone, TakeCommand, AllNames, PerformOne,
                StopOne, JoinedOne, Dies, StatesAdded, HandlerReturns, walkVars
  <2>2. \A q \in Callers : at'[q] = at[q]
    BY <1>9 DEF CommandThread, TakeNone, TakeCommand, AllNames, PerformOne,
                StopOne, JoinedOne, Dies, StatesAdded, HandlerReturns, Reply,
                IInv, TypesInv, Callers, Actors
  <2> QED BY <1>1, <2>1, <2>2 DEF InWalk
<1>10. CASE \/ \E d \in Threads : SetRunning(d) \/ SetIdle(d)
            \/ \E r \in Requests :
                 Caller(r) \/ \E c \in Commands : Execute(r, c)
            \/ UNCHANGED vars
  BY <1>1, <1>10 DEF SetRunning, SetIdle, Caller, Answered, TimesOut, Execute,
                     vars, walkVars, InWalk
<1> QED
  BY <1>2, <1>3, <1>4, <1>5, <1>6, <1>7, <1>8, <1>9, <1>10
  DEF Next, Main, Walk, Callers

\* perform_all operates on every daemon, and on none twice, whatever the
\* dependencies are and whoever else has requests carried out.
THEOREM NobodyLeftOut == Spec => []EachOnce
<1>1. Init => WalkInv
  <2> SUFFICES ASSUME Init PROVE WalkInv
    OBVIOUS
  <2>1. executed = <<>> /\ stack = <<>> /\ \A p \in Callers : ~InWalk(p)
    BY DEF Init, InWalk, Callers
  <2> QED BY <2>1 DEF WalkInv, IsInjective
<1>2. IInv /\ WalkInv /\ [Next]_vars => WalkInv'
  BY NextWalkInv
<1>3. WalkInv => EachOnce
  <2> SUFFICES ASSUME WalkInv, NEW p \in Walkers, stack = <<>>
               PROVE  Daemons \subseteq ToSet(executed)
    BY DEF WalkInv, EachOnce
  <2>1. ToSet(stack) = {}
    BY DEF ToSet
  <2>2. p \in Callers /\ InWalk(p)
    BY DEF Walkers, Callers, InWalk
  <2> QED BY <2>1, <2>2 DEF WalkInv
<1> QED BY <1>1, <1>2, <1>3, Invariance, PTL DEF Spec

-----------------------------------------------------------------------------
(***************************************************************************)
(* Every command is counted.  When the command queue's thread died with    *)
(* the lock it takes no further command: nobody can start it again.        *)
(***************************************************************************)
CountInv ==
  /\ counts \in [Outcomes \cup {"command"} -> Nat]
  /\ lock = "command" => at["command"] \in {"join", "get"}
  /\ Leaked => dstate[Command] = "IDLE"
  /\ CommandAccounting

\* What the metrics count does not change when nothing is taken or answered.
LEMMA CountsKept ==
  ASSUME CountInv, UNCHANGED counts, at'["command"] = at["command"],
         lock' = "command" <=> lock = "command",
         Leaked => dstate'[Command] = dstate[Command]
  PROVE  CountInv'
<1>1. (Leaked' <=> Leaked) /\ (Handling' = Handling)
  BY DEF Leaked, Handling
<1> QED BY <1>1 DEF CountInv, CommandAccounting

\* Main and the handler leave the command queue's thread to itself: while it
\* holds the lock they operate on no daemon.
LEMMA CallersCount ==
  ASSUME IInv, CountInv, NEW p \in Callers,
         \/ Walk(p)
         \/ StartHttp \/ AwaitStart \/ AwaitStop \/ AwaitTimeout \/ Shutdown
  PROVE  CountInv'
<1>1. UNCHANGED counts
  BY DEF Walk, PerformAll, Skip, Postpone, PerformNext, Joined, AllPerformed,
         LookAtHttp, StopHttp, HttpStopped, Close, StartHttp, AwaitStart,
         AwaitStop, AwaitTimeout, Shutdown, commandVars
<1>2. at' = at \/ \E w \in {"out", "walk", "join"} : at' = [at EXCEPT ![p] = w]
  BY DEF Walk, PerformAll, Skip, Postpone, PerformNext, Joined, AllPerformed,
         LookAtHttp, StopHttp, HttpStopped, Close, StartHttp, AwaitStart,
         AwaitStop, AwaitTimeout, Shutdown
<1>3. at'["command"] = at["command"]
  BY <1>2 DEF Callers, IInv, TypesInv, Actors
<1>4. CASE PerformAll(p) \/ PerformNext(p) \/ AllPerformed(p)
  <2>1. lock # "command" /\ lock' # "command"
    BY <1>4 DEF PerformAll, PerformNext, AllPerformed, IInv, HolderInv,
                Callers, Nobody
  <2> QED BY <1>1, <1>3, <2>1, CountsKept DEF Leaked
<1>5. CASE ~(PerformAll(p) \/ PerformNext(p) \/ AllPerformed(p))
  <2>1. UNCHANGED lock
    BY <1>5 DEF Walk, Skip, Postpone, Joined, LookAtHttp, StopHttp,
                HttpStopped, Close, StartHttp, AwaitStart, AwaitStop,
                AwaitTimeout, Shutdown
  <2>2. Command # Http /\ Command \in Threads
    BY ServerAssumption DEF Threads
  <2>3. dstate'[Command] = dstate[Command]
    BY <1>5, <2>2 DEF Walk, Skip, Postpone, Joined, LookAtHttp, StopHttp,
                HttpStopped, Close, StartHttp, AwaitStart, AwaitStop,
                AwaitTimeout, Shutdown, IInv, TypesInv, StateOfEach
  <2> QED BY <1>1, <1>3, <2>1, <2>3, CountsKept
<1> QED BY <1>4, <1>5

\* The thread that takes a command counts it, and counts its outcome when it
\* is answered; what it dies of in between is the one that is missing.
LEMMA ThreadCounts ==
  ASSUME IInv, CountInv, CommandThread
  PROVE  CountInv'
<1>1. /\ at["command"] \in {"out", "walk", "join", "get", "names", "perform",
                            "reply"}
      /\ \A w : LET f == [at EXCEPT !["command"] = w]
                IN  f["command"] = w
      /\ dstate = [d \in Threads |-> dstate[d]] /\ Command \in Threads
  BY ServerAssumption DEF IInv, TypesInv, StateOfEach, Actors, Threads
<1>2. /\ counts \in [Outcomes \cup {"command"} -> Nat]
      /\ counts["command"] \in Nat /\ counts["success"] \in Nat
      /\ counts["failure"] \in Nat /\ counts["rejected"] \in Nat
  BY DEF CountInv, Outcomes
<1>3. CASE TakeNone
  <2>1. /\ UNCHANGED <<counts, lock, at>>
        /\ dstate' = [dstate EXCEPT ![Command] = "IDLE"]
    BY <1>3 DEF TakeNone, commandVars
  <2>2. dstate'[Command] = "IDLE"
    BY <1>1, <2>1
  <2> QED BY <2>1, <2>2 DEF CountInv, Leaked, Handling, CommandAccounting
<1>4. CASE TakeCommand
  <2>1. /\ at["command"] = "get" /\ dstate[Command] # "IDLE"
        /\ UNCHANGED <<lock, dstate>>
    BY <1>4 DEF TakeCommand, Ready, AtWork
  <2>2. lock # "command" /\ ~Leaked /\ ~Leaked'
    BY <2>1 DEF CountInv, Leaked
  <2>3. counts["command"] =
          counts["success"] + counts["failure"] + counts["rejected"]
    BY <1>2, <2>1, <2>2 DEF CountInv, CommandAccounting, Handling
  <2>4. CASE asked[Head(queue)].kind = "rejected"
    <3>1. /\ at'["command"] = "get"
          /\ counts' = [[counts EXCEPT !["command"] = counts["command"] + 1]
                          EXCEPT !["rejected"] = counts["rejected"] + 1]
      BY <1>1, <1>2, <1>4, <2>4 DEF TakeCommand, Reply, Counted, Outcomes
    <3>2. /\ counts' \in [Outcomes \cup {"command"} -> Nat]
          /\ counts'["command"] = counts["command"] + 1
          /\ counts'["success"] = counts["success"]
          /\ counts'["failure"] = counts["failure"]
          /\ counts'["rejected"] = counts["rejected"] + 1
      BY <1>2, <3>1 DEF Outcomes
    <3>3. CommandAccounting'
      BY <1>2, <2>2, <2>3, <3>1, <3>2 DEF CommandAccounting, Handling
    <3> QED BY <2>1, <2>2, <3>1, <3>2, <3>3 DEF CountInv
  <2>5. CASE asked[Head(queue)].kind # "rejected"
    <3>1. /\ at'["command"] \in {"reply", "perform", "names"}
          /\ counts' = [counts EXCEPT !["command"] = counts["command"] + 1]
      BY <1>1, <1>4, <2>5 DEF TakeCommand, Counted
    <3>2. /\ counts' \in [Outcomes \cup {"command"} -> Nat]
          /\ counts'["command"] = counts["command"] + 1
          /\ counts'["success"] = counts["success"]
          /\ counts'["failure"] = counts["failure"]
          /\ counts'["rejected"] = counts["rejected"]
      BY <1>2, <3>1 DEF Outcomes
    <3>3. CommandAccounting'
      BY <1>2, <2>2, <2>3, <3>1, <3>2 DEF CommandAccounting, Handling
    <3> QED BY <2>1, <2>2, <3>1, <3>2, <3>3 DEF CountInv
  <2> QED BY <2>4, <2>5
<1>5. CASE AllNames \/ PerformOne \/ StopOne \/ JoinedOne \/ StatesAdded
  <2>1. /\ UNCHANGED counts
        /\ at["command"] # "get" /\ at'["command"] # "get"
    BY <1>1, <1>5 DEF AllNames, PerformOne, StopOne, JoinedOne, StatesAdded,
                      MayPerform, Ready, commandVars
  <2>2. lock' = "command" => at'["command"] \in {"join", "get"}
    <3>1. CASE AllNames \/ PerformOne \/ StatesAdded
      <4>1. lock' = lock /\ at["command"] \in {"names", "perform"}
        BY <3>1 DEF AllNames, PerformOne, StatesAdded, MayPerform, Ready
      <4> QED BY <4>1 DEF CountInv
    <3>2. CASE StopOne \/ JoinedOne
      BY <1>1, <3>2 DEF StopOne, JoinedOne, Nobody
    <3> QED BY <1>5, <3>1, <3>2
  <2> QED BY <2>1, <2>2 DEF CountInv, Leaked, CommandAccounting, Handling
<1>6. CASE Dies
  <2>1. /\ UNCHANGED counts /\ at["command"] = "perform"
        /\ at'["command"] = "get" /\ lock' = "command"
        /\ dstate' = [dstate EXCEPT ![Command] = "IDLE"]
    BY <1>1, <1>6 DEF Dies, MayPerform, Ready
  <2>2. dstate'[Command] = "IDLE" /\ ~Leaked /\ Leaked'
    BY <1>1, <2>1 DEF Leaked
  <2> QED BY <1>2, <2>1, <2>2 DEF CountInv, CommandAccounting, Handling
<1>7. ASSUME NEW ok \in BOOLEAN, HandlerReturns(ok) PROVE CountInv'
  <2>1. PICK outcome \in {"success", "failure"} :
             counts' = [counts EXCEPT ![outcome] = counts[outcome] + 1]
    BY <1>7 DEF HandlerReturns, Counted
  <2>2. /\ at["command"] = "reply" /\ at'["command"] = "get"
        /\ UNCHANGED <<lock, dstate>>
    BY <1>1, <1>7 DEF HandlerReturns, Reply, Ready
  <2>3. lock # "command" /\ ~Leaked /\ ~Leaked'
    BY <2>2 DEF CountInv, Leaked
  <2>4. counts["command"] =
          counts["success"] + counts["failure"] + counts["rejected"] + 1
    BY <1>2, <2>2, <2>3 DEF CountInv, CommandAccounting, Handling
  <2>5. /\ counts' \in [Outcomes \cup {"command"} -> Nat]
        /\ counts'["command"] = counts["command"]
        /\ counts'["success"] + counts'["failure"] =
             counts["success"] + counts["failure"] + 1
        /\ counts'["rejected"] = counts["rejected"]
    BY <1>2, <2>1 DEF Outcomes
  <2>6. /\ counts'["success"] \in Nat /\ counts'["failure"] \in Nat
    BY <2>5 DEF Outcomes
  <2>7. CommandAccounting'
    BY <1>2, <2>2, <2>3, <2>4, <2>5, <2>6 DEF CommandAccounting, Handling
  <2> QED BY <2>2, <2>3, <2>5, <2>7 DEF CountInv
<1> QED BY <1>3, <1>4, <1>5, <1>6, <1>7 DEF CommandThread

\* The metrics of the command queue add up, up to the command in hand and the
\* one that the thread died of.
THEOREM CommandsAddUp == Spec => []CommandAccounting
<1>1. Init => CountInv
  BY DEF Init, CountInv, CommandAccounting, Handling, Leaked, Nobody, Outcomes
<1>2. ASSUME IInv, CountInv, [Next]_vars PROVE CountInv'
  <2>1. CASE CommandThread
    BY <1>2, <2>1, ThreadCounts
  <2>2. CASE \/ \E p \in Callers : Walk(p)
             \/ StartHttp \/ AwaitStart \/ AwaitStop \/ AwaitTimeout \/ Shutdown
    BY <1>2, <2>2, CallersCount DEF Callers
  <2>3. ASSUME NEW d \in Threads, SetRunning(d) \/ SetIdle(d)
        PROVE  CountInv'
    <3>1. UNCHANGED <<counts, at, lock>>
      BY <2>3 DEF SetRunning, SetIdle, commandVars
    <3>2. dstate[Command] = "IDLE" => dstate'[Command] = dstate[Command]
      BY <1>2, <2>3, ServerAssumption
      DEF SetRunning, SetIdle, IInv, TypesInv, StateOfEach, Threads
    <3> QED BY <1>2, <3>1, <3>2, CountsKept DEF CountInv
  <2>4. CASE \/ \E r \in Requests :
                  Caller(r) \/ \E c \in Commands : Execute(r, c)
             \/ UNCHANGED vars
    <3>1. UNCHANGED <<counts, at, lock, dstate>>
      BY <2>4 DEF Caller, Answered, TimesOut, Execute, commandVars, vars
    <3> QED BY <1>2, <3>1, CountsKept
  <2> QED BY <1>2, <2>1, <2>2, <2>3, <2>4 DEF Next, Main, Callers
<1>3. CountInv => CommandAccounting
  BY DEF CountInv
<1> QED BY <1>1, <1>2, <1>3, Invariance, PTL DEF Spec
=============================================================================
