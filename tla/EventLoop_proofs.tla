--------------------------- MODULE EventLoop_proofs ---------------------------
(***************************************************************************)
(* Proofs about EventLoop: for any number of connections and any number of *)
(* starts and stops of the daemon.                                         *)
(***************************************************************************)
EXTENDS EventLoop, FiniteSetTheorems, TLAPS

(***************************************************************************)
(* The inductive invariant.  WaitsAccounted is a sum over connections and  *)
(* needs no more than types; that a client has one connection needs to     *)
(* know how its task is found again; that a stop misses a post for a known *)
(* reason only needs the thread's states and the connections it waits for. *)
(***************************************************************************)
Flags ==
  /\ stopping \in BOOLEAN /\ serving \in BOOLEAN /\ listening \in BOOLEAN
  /\ connected \in BOOLEAN /\ cut \in BOOLEAN

Typed ==
  /\ Flags
  /\ role \in Roles /\ starts \in 0 .. MaxStarts
  /\ state \in {"IDLE", "RUNNING", "STOPPING"}
  /\ loop \in {"off", "init", "setup", "forever"}
  /\ routine \in {"none", "pending", "cancelled"} /\ left \in Nat
  /\ stage \in [Tasks -> {"none", "scheduled", "open", "closing", "done"}]
  /\ cancelled \in SUBSET Tasks /\ blocked \in Tasks \cup {Nobody}
  /\ wait_count \in Nat /\ wait_poster \in Nat
  /\ waits \in Nat /\ tried \in Nat /\ waited \in Nat /\ lost \in Nat
  /\ pc \in {"idle", "note", "cancel", "grace", "acquire"}

\* A client's task is found through self.connected, or is still scheduled in
\* a loop that cannot stop before it has run.
ClientTask ==
  role = "client" =>
    /\ \A t, u \in Alive : t = u
    /\ \A t \in Tasks :
         /\ stage[t] = "scheduled" => loop = "forever"
         /\ stage[t] \in {"open", "closing"} => connected

\* The daemon's thread, and the stop that ends it, unless a stop has hit the
\* set-up.
ThreadAndStop ==
  /\ state = "IDLE" <=> loop = "off"
  /\ loop = "setup" => ~serving
  /\ pc \in {"note", "cancel", "grace"} /\ ~cut => state = "STOPPING"
  /\ ~cut =>
       /\ left = 0
       /\ listening => serving
       /\ state = "RUNNING" => ~stopping
       /\ pc \in {"note", "cancel", "grace"} => ~stopping /\ loop # "off"
       /\ pc = "acquire" => stopping \/ loop = "off"
       /\ loop = "off" => ~stopping /\ cancelled = {}

\* The connections that the stop waits for: counted before it cancelled the
\* tasks, and not posted.
Due == {t \in Unposted : t \in cancelled \/ stage[t] = "closing"}

StopperCounts ==
  /\ waited <= tried /\ tried <= waits
  /\ pc # "acquire" => tried = 0
  /\ pc \in {"idle", "note"} => waits = 0
  /\ pc = "cancel" => waits <= wait_count
  /\ pc \in {"grace", "acquire"} =>
       waits <= wait_poster + waited + lost + Cardinality(Due)

IInv ==
  /\ Typed
  /\ ClientTask
  /\ ThreadAndStop
  /\ WaitsAccounted
  /\ StopperCounts

-----------------------------------------------------------------------------
(* Sets of connections *)

\* The sets of connections that the invariant counts are finite.
LEMMA FiniteTasks ==
  ASSUME Typed
  PROVE  /\ IsFiniteSet(Unposted) /\ Cardinality(Unposted) \in Nat
         /\ IsFiniteSet(Due) /\ Cardinality(Due) \in Nat
<1>1. Unposted \in SUBSET Tasks /\ Due \in SUBSET Tasks
  BY DEF Unposted, Due
<1>2. IsFiniteSet(Unposted) /\ IsFiniteSet(Due)
  BY <1>1, FS_Subset, EventLoopAssumption
<1> QED
  BY <1>2, FS_CardinalityType

\* One connection more or less.
LEMMA OneConnection ==
  ASSUME NEW S, IsFiniteSet(S), Cardinality(S) \in Nat, NEW t
  PROVE  /\ Cardinality(S \cup {t}) =
              IF t \in S THEN Cardinality(S) ELSE Cardinality(S) + 1
         /\ Cardinality(S \ {t}) =
              IF t \in S THEN Cardinality(S) - 1 ELSE Cardinality(S)
         /\ IsFiniteSet(S \cup {t}) /\ IsFiniteSet(S \ {t})
  BY FS_AddElement, FS_RemoveElement

\* Steps that neither count, post nor acquire, and move no connection between
\* the sets.
LEMMA CountsKept ==
  ASSUME IInv, UNCHANGED <<wait_count, wait_poster, stopVars>>,
         Unposted' = Unposted, Due' = Due
  PROVE  WaitsAccounted' /\ StopperCounts'
  BY DEF IInv, WaitsAccounted, StopperCounts, stopVars

-----------------------------------------------------------------------------

\* The daemon as it is constructed.
LEMMA InitIInv == Init => IInv
<1> SUFFICES ASSUME Init
             PROVE  IInv
  OBVIOUS
<1>1. Typed
  <2>1. Flags
    BY DEF Init, Flags
  <2>2. 0 \in 0 .. MaxStarts
    BY EventLoopAssumption
  <2> QED
    BY <2>1, <2>2 DEF Init, Typed
<1>2. Unposted = {}
  BY DEF Init, Unposted
<1>3. Cardinality(Unposted) = 0
  BY <1>2, FS_EmptySet
<1>4. WaitsAccounted /\ StopperCounts
  BY <1>3 DEF Init, WaitsAccounted, StopperCounts
<1>5. ClientTask /\ ThreadAndStop
  BY DEF Init, ClientTask, ThreadAndStop, Alive
<1> QED
  BY <1>1, <1>4, <1>5 DEF IInv

\* What the thread does by itself, and the beginning of a stop.
LEMMA ThreadIInv ==
  ASSUME IInv,
         \/ Start \/ InitServer \/ SetupDone \/ SetupStopped
         \/ SetupCancelled \/ SetupFails \/ LeftBehind \/ LoopStops
  PROVE  IInv'
<1>1. UNCHANGED <<role, taskVars, stopVars>>
  BY DEF Start, InitServer, SetupDone, SetupStopped, SetupCancelled,
         SetupFails, LeftBehind, LoopStops, ThreadEnds, loopVars
<1>2. Unposted' = Unposted /\ Due' = Due /\ Alive' = Alive
  BY <1>1 DEF taskVars, Unposted, Due, Alive
<1>3. WaitsAccounted' /\ StopperCounts'
  BY <1>1, <1>2, CountsKept DEF taskVars
<1>4. Typed'
  <2>1. Flags'
    BY <1>1 DEF IInv, Typed, Flags, taskVars, loopVars, setupVars, Start,
                InitServer, SetupDone, SetupStopped, SetupCancelled,
                SetupFails, LeftBehind, LoopStops, ThreadEnds
  <2>2. starts' \in 0 .. MaxStarts
    <3>1. starts \in 0 .. MaxStarts /\ MaxStarts \in Nat
      BY EventLoopAssumption DEF IInv, Typed
    <3>2. CASE Start
      BY <3>1, <3>2 DEF Start
    <3>3. CASE ~Start
      <4>1. UNCHANGED starts
        BY <3>3 DEF InitServer, SetupDone, SetupStopped, SetupCancelled,
                    SetupFails, LeftBehind, LoopStops, ThreadEnds, loopVars
      <4> QED
        BY <3>1, <4>1
    <3> QED
      BY <3>2, <3>3
  <2>3. left' \in Nat
    <3>1. left \in Nat
      BY DEF IInv, Typed
    <3>2. CASE LeftBehind \/ SetupStopped
      BY <3>1, <3>2 DEF LeftBehind, SetupStopped
    <3>3. CASE ~(LeftBehind \/ SetupStopped)
      <4>1. UNCHANGED left
        BY <3>3 DEF Start, InitServer, SetupDone, SetupCancelled, SetupFails,
                    LoopStops, setupVars
      <4> QED
        BY <3>1, <4>1
    <3> QED
      BY <3>2, <3>3
  <2> QED
    BY <1>1, <2>1, <2>2, <2>3
    DEF IInv, Typed, taskVars, stopVars, loopVars, setupVars, Start,
        InitServer, SetupDone, SetupStopped, SetupCancelled, SetupFails,
        LeftBehind, LoopStops, ThreadEnds
<1>5. ThreadAndStop'
  <2>1. CASE Start \/ InitServer
    BY <1>1, <2>1 DEF IInv, Typed, ThreadAndStop, taskVars, stopVars, Start,
                      InitServer, setupVars
  <2>2. CASE SetupDone \/ SetupFails
    BY <1>1, <2>2 DEF IInv, Typed, ThreadAndStop, taskVars, stopVars,
                      SetupDone, SetupFails, ThreadEnds
  <2>3. CASE SetupStopped \/ SetupCancelled
    BY <1>1, <2>3 DEF IInv, Typed, ThreadAndStop, taskVars, stopVars,
                      SetupStopped, SetupCancelled, ThreadEnds
  <2>4. CASE LeftBehind \/ LoopStops
    BY <1>1, <2>4 DEF IInv, Typed, ThreadAndStop, taskVars, stopVars,
                      loopVars, setupVars, LeftBehind, LoopStops, ThreadEnds,
                      Ready
  <2> QED
    BY <2>1, <2>2, <2>3, <2>4
<1>6. ClientTask'
  <2>1. CASE Start
    BY <1>1, <1>2, <2>1 DEF IInv, ClientTask, ThreadAndStop, taskVars, Start
  <2>2. CASE InitServer \/ SetupDone \/ SetupStopped \/ SetupCancelled
             \/ SetupFails \/ LeftBehind
    BY <1>1, <1>2, <2>2
    DEF IInv, ClientTask, taskVars, loopVars, InitServer, SetupDone,
        SetupStopped, SetupCancelled, SetupFails, LeftBehind, ThreadEnds
  <2>3. CASE LoopStops
    BY <1>1, <1>2, <2>3 DEF IInv, ClientTask, taskVars, LoopStops, Ready
  <2> QED
    BY <2>1, <2>2, <2>3
<1> QED
  BY <1>3, <1>4, <1>5, <1>6 DEF IInv

\* A client schedules connect() only if there is no other task.
LEMMA InitClientIInv ==
  ASSUME IInv, InitClient
  PROVE  IInv'
<1>1. CASE ~NeedsTask
  <2>1. Unposted' = Unposted /\ Due' = Due /\ Alive' = Alive
    BY <1>1 DEF InitClient, Unposted, Due, Alive
  <2>2. WaitsAccounted' /\ StopperCounts'
    BY <2>1, CountsKept DEF InitClient
  <2>3. Typed' /\ ThreadAndStop'
    BY <1>1 DEF IInv, Typed, Flags, ThreadAndStop, InitClient, setupVars, stopVars
  <2>4. ClientTask'
    BY <1>1, <2>1 DEF IInv, ClientTask, InitClient
  <2> QED
    BY <2>2, <2>3, <2>4 DEF IInv
<1>2. CASE NeedsTask
  <2>1. PICK t \in Tasks : /\ stage[t] = "none"
                           /\ stage' = [stage EXCEPT ![t] = "scheduled"]
    BY <1>2 DEF InitClient
  <2>2. Unposted' = Unposted /\ Due' = Due
    BY <2>1 DEF IInv, Typed, InitClient, Unposted, Due
  <2>3. WaitsAccounted' /\ StopperCounts'
    BY <2>2, CountsKept DEF InitClient
  <2>4. Typed' /\ ThreadAndStop'
    BY <2>1 DEF IInv, Typed, Flags, ThreadAndStop, InitClient, setupVars, stopVars
  <2>5. ClientTask'
    <3>1. Alive = {}
      BY <1>2 DEF IInv, Typed, ClientTask, InitClient, NeedsTask, Alive
    <3>2. Alive' = {t}
      BY <2>1, <3>1 DEF IInv, Typed, InitClient, Alive
    <3> QED
      BY <2>1, <3>1, <3>2 DEF IInv, Typed, ClientTask, InitClient, Alive
  <2> QED
    BY <2>3, <2>4, <2>5 DEF IInv
<1> QED
  BY <1>1, <1>2

\* The stopper.
LEMMA StopperIInv ==
  ASSUME IInv, BeginStop \/ Stopper
  PROVE  IInv'
<1>1. CASE BeginStop
  <2>1. Unposted' = Unposted /\ Due' = Due /\ Alive' = Alive
    BY <1>1 DEF BeginStop, taskVars, Unposted, Due, Alive
  <2>2. WaitsAccounted' /\ StopperCounts'
    BY <1>1, <2>1 DEF IInv, WaitsAccounted, StopperCounts, BeginStop, taskVars
  <2> QED
    BY <1>1, <2>1, <2>2
    DEF IInv, Typed, Flags, ClientTask, ThreadAndStop, BeginStop, taskVars, setupVars
<1>2. CASE Note
  <2>1. Unposted' = Unposted /\ Due' = Due /\ Alive' = Alive
    BY <1>2 DEF Note, taskVars, loopVars, Unposted, Due, Alive
  <2>2. WaitsAccounted' /\ StopperCounts'
    BY <1>2, <2>1 DEF IInv, Typed, WaitsAccounted, StopperCounts, Note,
                      taskVars
  <2> QED
    BY <1>2, <2>1, <2>2
    DEF IInv, Typed, Flags, ClientTask, ThreadAndStop, Note, taskVars, setupVars,
        loopVars
<1>3. CASE Cancel
  <2>1. Unposted' = Unposted /\ Due' = Unposted /\ Alive' = Alive
    BY <1>3 DEF Cancel, ToCancel, taskVars, loopVars, Unposted, Due, Alive
  <2>2. WaitsAccounted' /\ StopperCounts'
    BY <1>3, <2>1, FiniteTasks
    DEF IInv, Typed, WaitsAccounted, StopperCounts, Cancel
  <2>3. Typed'
    BY <1>3 DEF IInv, Typed, Flags, Cancel, ToCancel, Alive, loopVars
  <2> QED
    BY <1>3, <2>1, <2>2, <2>3
    DEF IInv, Typed, ClientTask, ThreadAndStop, Cancel, loopVars
<1>4. CASE GraceOver
  <2>1. Unposted' = Unposted /\ Due' = Due /\ Alive' = Alive
    BY <1>4 DEF GraceOver, taskVars, Unposted, Due, Alive
  <2>2. WaitsAccounted' /\ StopperCounts'
    BY <1>4, <2>1 DEF IInv, WaitsAccounted, StopperCounts, GraceOver, taskVars
  <2> QED
    BY <1>4, <2>1, <2>2
    DEF IInv, Typed, Flags, ClientTask, ThreadAndStop, GraceOver, taskVars, setupVars
<1>5. CASE Acquire \/ AcquireTimesOut
  <2>1. Unposted' = Unposted /\ Due' = Due /\ Alive' = Alive
    BY <1>5 DEF Acquire, AcquireTimesOut, taskVars, loopVars, Unposted, Due,
                Alive
  <2>2. WaitsAccounted' /\ StopperCounts'
    BY <1>5, <2>1, FiniteTasks
    DEF IInv, Typed, WaitsAccounted, StopperCounts, Acquire, AcquireTimesOut,
        taskVars
  <2>3. Typed'
    BY <1>5 DEF IInv, Typed, Flags, Acquire, AcquireTimesOut, loopVars, setupVars,
                taskVars
  <2> QED
    BY <1>5, <2>1, <2>2, <2>3
    DEF IInv, ClientTask, ThreadAndStop, Acquire, AcquireTimesOut, taskVars,
        setupVars, loopVars
<1>6. CASE Settle
  <2>1. Unposted' = Unposted /\ Due' = Due /\ Alive' = Alive
    BY <1>6 DEF Settle, loopVars, Unposted, Due, Alive
  <2>2. wait_count \in Nat /\ wait_count >= waited
    BY FiniteTasks DEF IInv, Typed, WaitsAccounted
  <2>3. WaitsAccounted' /\ StopperCounts'
    BY <1>6, <2>1, FiniteTasks
    DEF IInv, Typed, WaitsAccounted, StopperCounts, Settle
  <2>4. Typed'
    BY <1>6, <2>2 DEF IInv, Typed, Flags, Settle, loopVars, setupVars
  <2> QED
    BY <1>6, <2>1, <2>3, <2>4
    DEF IInv, ClientTask, ThreadAndStop, Settle, setupVars, loopVars
<1> QED
  BY <1>1, <1>2, <1>3, <1>4, <1>5, <1>6 DEF Stopper

\* What a step of a connection's task leaves alone, and what it may not break.
LEMMA MoveKeeps ==
  ASSUME IInv, NEW t \in Tasks, Free,
         NEW to \in {"scheduled", "open", "closing", "done"}, Move(t, to),
         wait_count' \in Nat, wait_poster' \in Nat, connected' \in BOOLEAN
  PROVE  Typed' /\ ThreadAndStop'
<1>1. Typed'
  BY DEF IInv, Typed, Flags, Move, loopVars, setupVars, stopVars
<1> QED
  BY <1>1 DEF IInv, Typed, ThreadAndStop, Move, Free, loopVars, setupVars,
              stopVars

\* The counts after such a step.
LEMMA TaskCounts ==
  ASSUME IInv, NEW t \in Tasks,
         \/ Accept(t) \/ Open(t) \/ Drop(t)
         \/ LeaveServer(t) \/ LeaveClient(t) \/ Finish(t)
  PROVE  WaitsAccounted' /\ StopperCounts'
<1> USE DEF Move
<1>1. CASE Accept(t) \/ Drop(t)
  <2>1. Unposted' = Unposted /\ Due' = Due
    BY <1>1 DEF IInv, Typed, Accept, Drop, Unposted, Due, loopVars
  <2> QED
    BY <1>1, <2>1, CountsKept DEF Accept, Drop
<1>2. CASE Open(t)
  <2>1. Unposted' = Unposted \cup {t} /\ t \notin Unposted /\ Due' = Due
    BY <1>2 DEF IInv, Typed, Open, Unposted, Due, loopVars
  <2>2. Cardinality(Unposted') = Cardinality(Unposted) + 1
    BY <2>1, FiniteTasks, OneConnection DEF IInv
  <2> QED
    BY <1>2, <2>1, <2>2, FiniteTasks
    DEF IInv, Typed, WaitsAccounted, StopperCounts, Open, stopVars
<1>3. CASE LeaveServer(t) \/ (Finish(t) /\ role = "client")
  <2>1. Unposted' = Unposted \ {t} /\ t \in Unposted /\ Due' = Due \ {t}
    BY <1>3 DEF IInv, Typed, LeaveServer, Finish, Unposted, Due, loopVars
  <2> HIDE DEF Move
  <2>2. /\ IsFiniteSet(Unposted) /\ Cardinality(Unposted) \in Nat
        /\ IsFiniteSet(Due) /\ Cardinality(Due) \in Nat
    BY FiniteTasks DEF IInv
  <2>3. Cardinality(Unposted \ {t}) = Cardinality(Unposted) - 1
    BY <2>1, <2>2, OneConnection
  <2>4. /\ IsFiniteSet(Due \ {t})
        /\ Cardinality(Due \ {t}) =
             IF t \in Due THEN Cardinality(Due) - 1 ELSE Cardinality(Due)
    BY <2>2, OneConnection
  <2>5. Cardinality(Due \ {t}) \in Nat
    BY <2>4, FS_CardinalityType
  <2>6. /\ Cardinality(Unposted') = Cardinality(Unposted) - 1
        /\ Cardinality(Due') >= Cardinality(Due) - 1
        /\ Cardinality(Due') \in Nat
    BY <2>1, <2>2, <2>3, <2>4, <2>5
  <2>7. /\ wait_poster' = wait_poster + 1
        /\ UNCHANGED <<wait_count, stopVars>>
    BY <1>3 DEF LeaveServer, Finish, Move
  <2> QED
    BY <2>6, <2>7, FiniteTasks
    DEF IInv, Typed, WaitsAccounted, StopperCounts, stopVars
<1>4. CASE LeaveClient(t)
  <2>1. Unposted' = Unposted /\ Due' = Due \cup {t}
    BY <1>4 DEF IInv, Typed, LeaveClient, Unposted, Due, loopVars
  <2>2. IsFiniteSet(Due) /\ Cardinality(Due) \in Nat
    BY FiniteTasks DEF IInv
  <2>3. Cardinality(Due \cup {t}) =
          IF t \in Due THEN Cardinality(Due) ELSE Cardinality(Due) + 1
    BY <2>2, OneConnection
  <2>4. Cardinality(Due') >= Cardinality(Due) /\ Cardinality(Due') \in Nat
    BY <2>1, <2>2, <2>3
  <2> QED
    BY <1>4, <2>1, <2>4, FiniteTasks
    DEF IInv, Typed, WaitsAccounted, StopperCounts, LeaveClient, stopVars
<1>5. CASE Finish(t) /\ role # "client"
  <2>1. Unposted' = Unposted /\ Due' = Due
    BY <1>5 DEF IInv, Typed, Finish, Unposted, Due, loopVars
  <2> QED
    BY <1>5, <2>1, CountsKept DEF Finish
<1> QED
  BY <1>1, <1>2, <1>3, <1>4, <1>5

\* A client's only task stays the only one.
LEMMA TaskClient ==
  ASSUME IInv, NEW t \in Tasks,
         \/ Accept(t) \/ Open(t) \/ Drop(t)
         \/ LeaveServer(t) \/ LeaveClient(t) \/ Finish(t)
  PROVE  ClientTask'
<1> SUFFICES ASSUME role' = "client"
             PROVE  ClientTask'
  BY DEF ClientTask
<1>1. role = "client" /\ loop' = loop
  BY DEF Accept, Open, Drop, LeaveServer, LeaveClient, Finish, Move, loopVars
<1>2. \A u, v \in Alive : u = v
  BY <1>1 DEF IInv, ClientTask
<1>3. t \in Alive
  BY <1>1 DEF IInv, Typed, Accept, Open, Drop, LeaveServer, LeaveClient,
              Finish, Alive
<1>4. PICK to \in {"open", "closing", "done"} :
        stage' = [stage EXCEPT ![t] = to]
  BY <1>1 DEF Accept, Open, Drop, LeaveServer, LeaveClient, Finish, Move
<1>5. \A u \in Tasks : u # t => stage'[u] \notin {"scheduled", "open", "closing"}
  BY <1>2, <1>3, <1>4 DEF IInv, Typed, Alive
<1>6. stage'[t] \in {"open", "closing"} => connected'
  BY <1>1, <1>4 DEF IInv, Typed, Flags, ClientTask, Open, Drop, LeaveServer,
                    LeaveClient, Finish, Accept, Move
<1>7. stage'[t] # "scheduled"
  BY <1>4 DEF IInv, Typed
<1> QED
  BY <1>5, <1>6, <1>7 DEF ClientTask, Alive

\* The steps of connections.
LEMMA TaskIInv ==
  ASSUME IInv, NEW t \in Tasks,
         \/ Accept(t) \/ Open(t) \/ Drop(t)
         \/ LeaveServer(t) \/ LeaveClient(t) \/ Finish(t)
  PROVE  IInv'
<1>0. connected' \in BOOLEAN
  BY DEF IInv, Typed, Flags, Accept, Open, Drop, LeaveServer, LeaveClient,
         Finish
<1>1. Free /\ wait_count' \in Nat /\ wait_poster' \in Nat
  BY DEF IInv, Typed, Accept, Open, Drop, LeaveServer, LeaveClient, Finish
<1>2. PICK to \in {"scheduled", "open", "closing", "done"} : Move(t, to)
  BY DEF Accept, Open, Drop, LeaveServer, LeaveClient, Finish
<1>3. Typed' /\ ThreadAndStop'
  BY <1>0, <1>1, <1>2, MoveKeeps
<1> QED
  BY <1>3, TaskCounts, TaskClient DEF IInv

\* A handler begins or ceases to block the loop.
LEMMA BlockIInv ==
  ASSUME IInv, Unblock \/ \E t \in Tasks : Block(t)
  PROVE  IInv'
<1>1. UNCHANGED <<stage, cancelled, connected, wait_count, wait_poster,
                  loopVars, setupVars, stopVars>>
  BY DEF Block, Unblock
<1>2. blocked' \in Tasks \cup {Nobody}
  BY DEF Block, Unblock
<1>3. Unposted' = Unposted /\ Due' = Due /\ Alive' = Alive
  BY <1>1 DEF Unposted, Due, Alive, loopVars
<1>4. WaitsAccounted' /\ StopperCounts'
  BY <1>1, <1>3, CountsKept
<1> QED
  BY <1>1, <1>2, <1>3, <1>4
  DEF IInv, Typed, Flags, ClientTask, ThreadAndStop, loopVars, setupVars, stopVars

\* Every step keeps the invariant.
LEMMA NextIInv == IInv /\ [Next]_vars => IInv'
<1> SUFFICES ASSUME IInv, [Next]_vars
             PROVE  IInv'
  OBVIOUS
<1>1. CASE Next
  BY <1>1, ThreadIInv, InitClientIInv, StopperIInv, TaskIInv, BlockIInv
  DEF Next, Setup
<1>2. CASE UNCHANGED vars
  <2>1. Unposted' = Unposted /\ Due' = Due /\ Alive' = Alive
    BY <1>2 DEF vars, loopVars, taskVars, Unposted, Due, Alive
  <2> QED
    BY <1>2, <2>1
    DEF vars, loopVars, setupVars, taskVars, stopVars, IInv, Typed, Flags,
        ClientTask, ThreadAndStop, WaitsAccounted, StopperCounts
<1> QED
  BY <1>1, <1>2

\* The invariant holds of every reachable state.
LEMMA IInvAlways == Spec => []IInv
  BY InitIInv, NextIInv, PTL DEF Spec

-----------------------------------------------------------------------------

\* The daemon's fields, the tasks' stages and the stopper's counters are always
\* well-formed; wait_count, from which a stop subtracts, is never negative.
THEOREM TypeCorrect == Spec => []TypeOK
<1>1. IInv => TypeOK
  <2>1. IInv => {stopping, serving, listening, connected, cut} \subseteq BOOLEAN
    BY DEF IInv, Typed, Flags
  <2>2. IInv => {wait_count, wait_poster, waits, tried, waited, lost} \subseteq Nat
    BY DEF IInv, Typed
  <2> QED
    BY <2>1, <2>2 DEF IInv, Typed, TypeOK
<1> QED
  BY <1>1, IInvAlways, PTL

\* Every connection that was counted has posted, has been acquired for, or
\* will post: wait_count and the semaphore never drift apart, however many
\* stops fail.
THEOREM WaitsAreAccounted == Spec => []WaitsAccounted
<1>1. IInv => WaitsAccounted
  BY DEF IInv
<1> QED
  BY <1>1, IInvAlways, PTL

\* A websocket client that is stopped and started, whatever its stops leave
\* behind, never has two connections.
THEOREM ClientIsSingle == Spec => []SingleConnection
<1>1. IInv => SingleConnection
  <2> SUFFICES ASSUME IInv, role = "client"
               PROVE  Cardinality(Alive) <= 1
    BY DEF SingleConnection
  <2>1. \A t, u \in Alive : t = u
    BY DEF IInv, ClientTask
  <2>2. CASE Alive = {}
    BY <2>2, FS_EmptySet
  <2>3. CASE Alive # {}
    <3>1. PICK t : Alive = {t}
      BY <2>1, <2>3
    <3> QED
      BY <3>1, FS_Singleton
  <2> QED
    BY <2>2, <2>3
<1> QED
  BY <1>1, IInvAlways, PTL

\* event_loop_stopper waits in vain for a post only if a handler blocks the
\* loop, a client's connection is still closing, an earlier stop failed after
\* taking posts, or a stop has hit the set-up: otherwise every connection that
\* it noted has been cancelled and has run before the loop could stop.
THEOREM MissesAreExplained == Spec => MissesExplained
<1> DEFINE Explained == \/ blocked # Nobody \/ lost > 0 \/ cut
                        \/ \E t \in Tasks :
                             role = "client" /\ stage[t] = "closing"
<1>1. IInv /\ [Next]_vars =>
        [tried' > tried /\ waited' = waited => Explained]_vars
  <2> SUFFICES ASSUME IInv, [Next]_vars,
                      tried' > tried, waited' = waited, ~Explained
               PROVE  FALSE
    OBVIOUS
  <2>1. AcquireTimesOut
    <3>1. tried \in Nat /\ waited \in Nat
      BY DEF IInv, Typed
    <3>2. ~(UNCHANGED tried)
      BY <3>1
    <3>3. ~(UNCHANGED stopVars) /\ ~(UNCHANGED vars)
      BY <3>2 DEF vars, stopVars
    <3>4. Stopper
      BY <3>2, <3>3
      DEF Next, Setup, Start, BeginStop, InitServer, InitClient, SetupDone,
          SetupStopped, SetupCancelled, SetupFails, LeftBehind, LoopStops,
          Unblock, Accept, Open, Drop, LeaveServer, LeaveClient, Finish,
          Block, Move
    <3>5. ~Note /\ ~Cancel /\ ~GraceOver
      BY <3>2 DEF Note, Cancel, GraceOver
    <3>6. ~Acquire
      BY <3>1 DEF Acquire
    <3>7. ~Settle
      BY <3>1 DEF Settle
    <3> QED
      BY <3>4, <3>5, <3>6, <3>7 DEF Stopper
  <2>2. /\ wait_poster = 0 /\ lost = 0
        /\ waited < waits /\ waits <= waited + Cardinality(Due)
    BY <2>1 DEF IInv, Typed, StopperCounts, AcquireTimesOut
  <2>3. Due # {}
    BY <2>2, FS_EmptySet DEF IInv, Typed
  <2>4. Due \subseteq cancelled
    BY DEF Due, Unposted, IInv, Typed
  <2>5. cancelled # {} /\ Ready # {}
    BY <2>3, <2>4 DEF Ready
  <2> QED
    BY <2>1, <2>5 DEF IInv, Typed, ThreadAndStop, AcquireTimesOut, WillRun
<1> QED
  BY <1>1, IInvAlways, PTL DEF Spec, MissesExplained
=============================================================================
