-------------------------- MODULE DaemonBase_proofs --------------------------
(***************************************************************************)
(* Proofs about DaemonBase, for every set of callers and every bound.      *)
(***************************************************************************)
EXTENDS DaemonBase, FiniteSetTheorems, TLAPS

Started == metrics["starts"]

(***************************************************************************)
(* The inductive invariant.  Only the newest thread can be alive; where it *)
(* is in run_harness and the daemon's state determine each other up to the *)
(* pauses and stops that callers make; the handle is that thread or None.  *)
(***************************************************************************)
ThreadsInOrder ==
  /\ Started \in 0 .. MaxStarts
  /\ \A t \in Threads : t > Started => worker[t] = "none"
  /\ \A t \in Threads : t < Started => worker[t] = "dead"
  /\ Started > 0 => worker[Started] # "none"
  /\ thread \in {0, Started}

StateFollowsThread ==
  /\ state = "IDLE" /\ Started > 0 => worker[Started] = "dead"
  /\ state = "STARTING" =>
       Started > 0 /\ worker[Started] \in {"created", "launched"}
  /\ state \in {"RUNNING", "PAUSED", "STOPPING"} =>
       Started > 0 /\ worker[Started] \in {"running", "ended", "counted"}

CountFollowsThread ==
  metrics["count"] =
    IF Started > 0 /\ worker[Started] \in {"counted", "dead"} THEN 1 ELSE 0

IInv ==
  /\ TypeOK
  /\ ThreadsInOrder
  /\ StateFollowsThread
  /\ CountFollowsThread

-----------------------------------------------------------------------------

\* Initially no thread has been made and the daemon is IDLE.
LEMMA InitIInv == Init => IInv
  BY DaemonAssumption
  DEF Init, IInv, TypeOK, ThreadsInOrder, StateFollowsThread,
      CountFollowsThread, Started, States, Threads, WorkerPCs, ControllerPCs,
      Requests, MetricNames

\* The steps of a controller that only move its own program counter.
Bystander(c) ==
  /\ UNCHANGED <<state, thread, worker, metrics>>
  /\ pc' \in [Controllers -> ControllerPCs]
  /\ op' \in [Controllers -> Requests \cup {"none"}]
  /\ joined' \in [Controllers -> 0 .. MaxStarts]

\* Every step of a controller other than start, launch, stop, reap, pause and
\* unpause leaves the daemon alone.
LEMMA BystanderSteps ==
  ASSUME TypeOK, NEW c \in Controllers,
         \/ \E o \in Ops : Perform(c, o) \/ EnterBlock(c, o)
         \/ PerformNone(c) \/ StartRefused(c) \/ LaunchFails(c)
         \/ LeaveBooted(c) \/ StopRefused(c) \/ InjectStop(c)
         \/ AssertThread(c) \/ Join(c) \/ JoinDone(c) \/ JoinTimeout(c)
         \/ PauseRefused(c) \/ LeavePaused(c) \/ UnpauseRefused(c)
  PROVE  Bystander(c)
<1>1. CASE \E o \in Ops : Perform(c, o) \/ EnterBlock(c, o)
  <2>1. PICK o \in Ops : Perform(c, o) \/ EnterBlock(c, o)
    BY <1>1
  <2>2. o \in Operations \cup Blocks => Entry[o] \in ControllerPCs
    BY DEF Entry, Operations, Blocks, ControllerPCs
  <2>3. "idle" \in ControllerPCs
    BY DEF ControllerPCs
  <2> QED
    BY <2>1, <2>2, <2>3
    DEF Perform, EnterBlock, Bystander, Go, TypeOK, Requests
<1>2. CASE PerformNone(c)
  BY <1>2 DEF PerformNone, Bystander, Go, TypeOK, Requests, ControllerPCs
<1>3. CASE StartRefused(c) \/ LaunchFails(c) \/ LeaveBooted(c)
  BY <1>3 DEF StartRefused, LaunchFails, LeaveBooted, Bystander, Go, TypeOK,
              Requests, ControllerPCs
<1>4. CASE StopRefused(c) \/ InjectStop(c) \/ AssertThread(c)
  BY <1>4 DEF StopRefused, InjectStop, AssertThread, Bystander, Go, TypeOK,
              ControllerPCs
<1>5. CASE Join(c) \/ JoinDone(c) \/ JoinTimeout(c)
  BY <1>5 DEF Join, JoinDone, JoinTimeout, Bystander, Go, TypeOK,
              ControllerPCs
<1>6. CASE PauseRefused(c) \/ LeavePaused(c) \/ UnpauseRefused(c)
  BY <1>6 DEF PauseRefused, LeavePaused, UnpauseRefused, Bystander, Go,
              TypeOK, Requests, ControllerPCs
<1> QED
  BY <1>1, <1>2, <1>3, <1>4, <1>5, <1>6

-----------------------------------------------------------------------------

\* A bystander's step keeps the invariant.
LEMMA BystanderIInv ==
  ASSUME IInv, NEW c \in Controllers, Bystander(c)
  PROVE  IInv'
  BY DEF IInv, Bystander, TypeOK, ThreadsInOrder, StateFollowsThread,
         CountFollowsThread, Started

\* The locked steps of a controller keep the invariant.
LEMMA LockedStepIInv ==
  ASSUME IInv, NEW c \in Controllers,
         \/ Start(c) \/ Launch(c) \/ BeginStop(c) \/ Reap(c)
         \/ Pause(c) \/ Unpause(c)
  PROVE  IInv'
<1> USE DaemonAssumption
<1>1. CASE Start(c)
  <2>1. TypeOK'
    BY <1>1 DEF Start, MayStart, IInv, TypeOK, Go, States, Threads, WorkerPCs,
                ControllerPCs, MetricNames
  <2>2. Started' = Started + 1 /\ Started \in 0 .. MaxStarts
    BY <1>1 DEF Start, IInv, TypeOK, ThreadsInOrder, Started, MetricNames
  <2>3. ThreadsInOrder'
    <3>1. \A t \in Threads : t < Started + 1 => worker[t] = "dead"
      BY <1>1, <2>2 DEF Start, MayStart, IInv, TypeOK, ThreadsInOrder,
                        StateFollowsThread, Threads, Started, MetricNames
    <3> QED
      BY <1>1, <2>2, <3>1 DEF Start, IInv, TypeOK, ThreadsInOrder, Threads,
                              Started, MetricNames
  <2>4. StateFollowsThread' /\ CountFollowsThread'
    BY <1>1, <2>2 DEF Start, IInv, TypeOK, StateFollowsThread,
                      CountFollowsThread, Threads, Started, MetricNames
  <2> QED
    BY <2>1, <2>3, <2>4 DEF IInv
<1>2. CASE Launch(c)
  <2>1. thread = Started /\ Started \in Threads /\ Started' = Started
    BY <1>2 DEF Launch, Launchable, IInv, TypeOK, ThreadsInOrder, Started,
                Threads
  <2>2. TypeOK'
    BY <1>2 DEF Launch, IInv, TypeOK, Go, WorkerPCs, ControllerPCs
  <2> QED
    BY <1>2, <2>1, <2>2 DEF Launch, Launchable, IInv, TypeOK, ThreadsInOrder,
       StateFollowsThread, CountFollowsThread, Started, Threads, States
<1>3. CASE BeginStop(c)
  BY <1>3 DEF BeginStop, MayStop, IInv, TypeOK, ThreadsInOrder, Go, States,
     StateFollowsThread, CountFollowsThread, Started, ControllerPCs
<1>4. CASE Reap(c)
  <2>1. TypeOK' /\ Started' = Started /\ metrics'["count"] = metrics["count"]
    BY <1>4 DEF Reap, Outcome, AfterStop, IInv, TypeOK, Go, MetricNames,
                ControllerPCs, Started
  <2> QED
    BY <1>4, <2>1 DEF Reap, IInv, ThreadsInOrder, StateFollowsThread,
                      CountFollowsThread, Started
<1>5. CASE Pause(c) \/ Unpause(c)
  <2>1. TypeOK' /\ Started' = Started /\ metrics'["count"] = metrics["count"]
    BY <1>5 DEF Pause, Unpause, IInv, TypeOK, Go, MetricNames, States,
                ControllerPCs, Started
  <2> QED
    BY <1>5, <2>1 DEF Pause, MayPause, Unpause, MayUnpause, IInv,
       ThreadsInOrder, StateFollowsThread, CountFollowsThread, Started
<1> QED
  BY <1>1, <1>2, <1>3, <1>4, <1>5

\* The thread that takes a step of run_harness is the newest one.
LEMMA NewestSteps ==
  ASSUME IInv, NEW t \in Threads, worker[t] \notin {"none", "dead"}
  PROVE  t = Started
  BY DaemonAssumption
  DEF IInv, TypeOK, ThreadsInOrder, Started, Threads, MetricNames

\* The steps of a thread keep the invariant.
LEMMA HarnessIInv ==
  ASSUME IInv, NEW t \in Threads, Harness(t) \/ RunEnds(t)
  PROVE  IInv'
<1> USE DaemonAssumption
<1>1. t = Started /\ Started' = Started
  <2>1. worker[t] \notin {"none", "dead"}
    BY DEF Harness, SetRunning, RunObservesStop, RunEnds, CountRun, SetIdle
  <2>2. Started' = Started
    BY DEF Harness, SetRunning, RunObservesStop, RunEnds, CountRun, SetIdle,
           Started, IInv, TypeOK, MetricNames
  <2> QED
    BY <2>1, <2>2, NewestSteps
<1>2. TypeOK'
  BY DEF Harness, SetRunning, RunObservesStop, RunEnds, CountRun, SetIdle,
         IInv, TypeOK, WorkerPCs, States, MetricNames
<1>3. ThreadsInOrder'
  BY <1>1 DEF Harness, SetRunning, RunObservesStop, RunEnds, CountRun,
         SetIdle, IInv, TypeOK, ThreadsInOrder, Started, Threads
<1>4. StateFollowsThread'
  BY <1>1 DEF Harness, SetRunning, RunObservesStop, RunEnds, CountRun,
         SetIdle, IInv, TypeOK, StateFollowsThread, Started, Threads, States
<1>5. CountFollowsThread'
  <2>1. CASE CountRun(t)
    BY <1>1, <2>1 DEF CountRun, IInv, TypeOK, CountFollowsThread, Started,
                      Threads, MetricNames
  <2>2. CASE SetRunning(t) \/ RunObservesStop(t) \/ RunEnds(t) \/ SetIdle(t)
    BY <1>1, <2>2 DEF SetRunning, RunObservesStop, RunEnds, SetIdle, IInv,
       TypeOK, CountFollowsThread, StateFollowsThread, Started, Threads
  <2> QED
    BY <2>1, <2>2 DEF Harness
<1> QED
  BY <1>2, <1>3, <1>4, <1>5 DEF IInv

\* IInv is inductive.
LEMMA NextIInv == IInv /\ [Next]_vars => IInv'
<1> SUFFICES ASSUME IInv, [Next]_vars PROVE IInv'
  OBVIOUS
<1>1. CASE \E c \in Controllers : Controller(c)
  <2>1. PICK c \in Controllers : Controller(c)
    BY <1>1
  <2> QED
    BY <2>1, BystanderSteps, BystanderIInv, LockedStepIInv
    DEF Controller, IInv
<1>2. CASE \E t \in Threads : Harness(t) \/ RunEnds(t)
  BY <1>2, HarnessIInv
<1>3. CASE UNCHANGED vars
  BY <1>3 DEF vars, IInv, TypeOK, ThreadsInOrder, StateFollowsThread,
              CountFollowsThread, Started
<1> QED
  BY <1>1, <1>2, <1>3 DEF Next

\* Every reachable state satisfies IInv.
THEOREM Invariance == Spec => []IInv
  BY InitIInv, NextIInv, PTL DEF Spec

-----------------------------------------------------------------------------

\* Type correctness of the daemon.
THEOREM TypeCorrect == Spec => []TypeOK
  BY Invariance, PTL DEF IInv

\* run_harness is never executed by two threads at once, for any callers.
THEOREM OneRunner == Spec => []SingleRunner
<1>1. IInv => SingleRunner
  BY NewestSteps DEF SingleRunner, InHarness
<1> QED
  BY <1>1, Invariance, PTL

\* The unguarded set_state calls of run_harness are always transitions, so
\* `assert self.set_state(IDLE)` cannot fail.
THEOREM HarnessAssertions == Spec => []HarnessTransitions
<1>1. IInv => HarnessTransitions
  <2> SUFFICES ASSUME IInv, NEW t \in Threads,
                      worker[t] \in {"launched", "counted"}
               PROVE  /\ worker[t] = "launched" => state = "STARTING"
                      /\ worker[t] = "counted" => state # "IDLE"
    BY DEF HarnessTransitions
  <2>1. t = Started /\ Started > 0
    BY NewestSteps DEF Threads
  <2> QED
    BY <2>1 DEF IInv, TypeOK, States, StateFollowsThread
<1> QED
  BY <1>1, Invariance, PTL

\* An IDLE daemon has no thread left and has counted its last run.
THEOREM IdleIsOver == Spec => []IdleMeansOver
<1>1. IInv => IdleMeansOver
  <2> SUFFICES ASSUME IInv, state = "IDLE" PROVE IdleMeansOver!2
    BY DEF IdleMeansOver
  <2>1. \A t \in Threads : worker[t] \in {"none", "dead"}
    BY NewestSteps DEF IInv, StateFollowsThread, Threads
  <2>2. metrics["count"] = IF metrics["starts"] = 0 THEN 0 ELSE 1
    BY DaemonAssumption
    DEF IInv, ThreadsInOrder, StateFollowsThread, CountFollowsThread, Started
  <2> QED
    BY <2>1, <2>2
<1> QED
  BY <1>1, Invariance, PTL

-----------------------------------------------------------------------------
(* The daemon implements DaemonLifecycle *)

InRun == \E t \in Threads : worker[t] = "running"

\* inRun, the mapped variable, is where the newest thread is.
LEMMA InRunIsNewest ==
  ASSUME IInv PROVE InRun <=> (Started > 0 /\ worker[Started] = "running")
  BY NewestSteps, DaemonAssumption
  DEF InRun, Threads, IInv, ThreadsInOrder

\* Every step of the daemon is a step of DaemonLifecycle or a stutter.
LEMMA StepRefines ==
  ASSUME IInv, IInv', [Next]_vars
  PROVE  [Lifecycle!Next]_<<state, InRun>>
<1> USE DEF Lifecycle!Next, InRun
<1>1. CASE UNCHANGED <<state, worker>>
  BY <1>1
<1>2. ASSUME NEW c \in Controllers, Controller(c)
      PROVE  [Lifecycle!Next]_<<state, InRun>>
  <2>1. CASE Start(c)
    <3>1. ~InRun
      BY <2>1, InRunIsNewest DEF Start, MayStart, IInv, StateFollowsThread
    <3>2. ~InRun'
      BY <2>1, <3>1 DEF Start, IInv, TypeOK
    <3> QED
      BY <2>1, <3>1, <3>2 DEF Start, MayStart, Lifecycle!Begin
  <2>2. CASE Launch(c)
    BY <2>2 DEF Launch, Launchable, IInv, TypeOK
  <2>3. CASE BeginStop(c)
    BY <2>3 DEF BeginStop, MayStop, Lifecycle!AskToStop
  <2>4. CASE Pause(c)
    BY <2>4 DEF Pause, MayPause, Lifecycle!Suspend
  <2>5. CASE Unpause(c)
    BY <2>5 DEF Unpause, MayUnpause, Lifecycle!Resume
  <2>6. CASE Reap(c)
    BY <1>1, <2>6 DEF Reap
  <2> QED
    BY <1>1, <1>2, <2>1, <2>2, <2>3, <2>4, <2>5, <2>6, BystanderSteps
    DEF Controller, IInv, Bystander
<1>3. ASSUME NEW t \in Threads, Harness(t) \/ RunEnds(t)
      PROVE  [Lifecycle!Next]_<<state, InRun>>
  <2>1. t = Started /\ Started > 0 /\ Started' = Started
    <3>1. worker[t] \notin {"none", "dead"} /\ Started' = Started
      BY <1>3, DaemonAssumption
      DEF Harness, SetRunning, RunObservesStop, RunEnds, CountRun, SetIdle,
          Started, IInv, TypeOK, MetricNames
    <3> QED
      BY <3>1, NewestSteps DEF Threads
  <2>2. /\ InRun <=> worker[t] = "running"
        /\ InRun' <=> worker'[t] = "running"
    <3>1. InRun <=> worker[t] = "running"
      BY <2>1, InRunIsNewest
    <3>2. \A u \in Threads : u # t => worker'[u] \in {"none", "dead"}
      BY <2>1, DaemonAssumption DEF IInv, ThreadsInOrder, Threads
    <3> QED
      BY <3>1, <3>2
  <2>3. CASE SetRunning(t)
    <3>1. state = "STARTING" /\ worker'[t] = "running"
      BY <2>1, <2>3
      DEF SetRunning, IInv, TypeOK, States, StateFollowsThread
    <3> QED
      BY <2>2, <2>3, <3>1 DEF SetRunning, Lifecycle!Enter
  <2>4. CASE RunObservesStop(t) \/ RunEnds(t)
    BY <2>2, <2>4
    DEF RunObservesStop, RunEnds, Lifecycle!Leave, IInv, TypeOK
  <2>5. CASE CountRun(t)
    BY <2>2, <2>5 DEF CountRun, IInv, TypeOK
  <2>6. CASE SetIdle(t)
    <3>1. state \in {"RUNNING", "PAUSED", "STOPPING"}
      BY <2>1, <2>6 DEF SetIdle, IInv, TypeOK, States, StateFollowsThread
    <3> QED
      BY <2>2, <2>6, <3>1
      DEF SetIdle, Lifecycle!Finish, Lifecycle!AtWork, IInv, TypeOK
  <2> QED
    BY <1>3, <2>3, <2>4, <2>5, <2>6 DEF Harness
<1> QED
  BY <1>1, <1>2, <1>3 DEF Next, vars

\* Whatever its callers do, the daemon's state moves along the life cycle, and
\* run() is executing only when DaemonLifecycle allows it.
THEOREM ImplementsSafely == Spec => Lifecycle!Safe
<1>1. Init => Lifecycle!Init
  BY DEF Init, Lifecycle!Init
<1>2. IInv /\ IInv' /\ [Next]_vars
        => [Lifecycle!Next]_(Lifecycle!lifecycleVars)
  BY StepRefines DEF Lifecycle!lifecycleVars, InRun
<1> QED
  BY <1>1, <1>2, Invariance, PTL DEF Spec, Lifecycle!Safe

-----------------------------------------------------------------------------
(* Stops are accounted for *)

Stoppers == {c \in Controllers : pc[c] \in Stopping}

\* A start that nobody has begun to stop, nor its thread ended.
Unclaimed == IF state \in {"STARTING", "RUNNING", "PAUSED"} THEN 1 ELSE 0

Counted == metrics["stops"] + metrics["errors"]

\* StopAccounting is inductive once the unclaimed start is counted as well.
AccountInv == Counted + Cardinality(Stoppers) + Unclaimed <= Started

\* Finitely many callers, so finitely many stops are under way.
LEMMA StoppersFinite == IsFiniteSet(Stoppers) /\ Cardinality(Stoppers) \in Nat
  BY DaemonAssumption, FS_Subset, FS_CardinalityType DEF Stoppers

\* A step that begins no stop and opens no start keeps the account; it may end
\* a stop without counting it, in an exception.
LEMMA AccountKept ==
  ASSUME IInv, AccountInv, Stoppers' \subseteq Stoppers, Counted' = Counted,
         Started' = Started, Unclaimed' \in 0 .. Unclaimed
  PROVE  AccountInv'
<1>1. Counted \in Nat /\ Started \in Nat /\ Unclaimed \in 0 .. 1
  BY DEF IInv, TypeOK, MetricNames, Counted, Started, Unclaimed
<1>2. Cardinality(Stoppers') \in Nat
      /\ Cardinality(Stoppers') <= Cardinality(Stoppers)
  BY StoppersFinite, FS_Subset, FS_CardinalityType
<1> QED
  BY <1>1, <1>2, StoppersFinite DEF AccountInv

\* A bystander begins no stop.
LEMMA BystanderAccount ==
  ASSUME IInv, AccountInv, NEW c \in Controllers,
         \/ \E o \in Ops : Perform(c, o) \/ EnterBlock(c, o)
         \/ PerformNone(c) \/ StartRefused(c) \/ LaunchFails(c)
         \/ LeaveBooted(c) \/ StopRefused(c) \/ InjectStop(c)
         \/ AssertThread(c) \/ Join(c) \/ JoinDone(c) \/ JoinTimeout(c)
         \/ PauseRefused(c) \/ LeavePaused(c) \/ UnpauseRefused(c)
  PROVE  AccountInv'
<1>1. Counted' = Counted /\ Started' = Started /\ Unclaimed' = Unclaimed
  BY BystanderSteps DEF IInv, Bystander, Counted, Started, Unclaimed
<1>2. Unclaimed' \in 0 .. Unclaimed
  BY <1>1 DEF Unclaimed
<1>3. TypeOK
  BY DEF IInv
<1>4. Stoppers' \subseteq Stoppers
  <2>1. CASE \E o \in Ops : Perform(c, o) \/ EnterBlock(c, o)
    <3>1. PICK o \in Ops : Perform(c, o) \/ EnterBlock(c, o)
      BY <2>1
    <3>2. o \in Operations \cup Blocks => Entry[o] \notin Stopping
      BY DEF Entry, Operations, Blocks, Stopping
    <3>3. "idle" \notin Stopping
      BY DEF Stopping
    <3>4. pc' = [pc EXCEPT ![c] = pc'[c]] /\ pc'[c] \notin Stopping
      BY <1>3, <3>1, <3>2, <3>3 DEF Perform, EnterBlock, Go, TypeOK
    <3> QED
      BY <1>3, <3>4 DEF Stoppers, TypeOK
  <2>2. CASE PerformNone(c) \/ StartRefused(c) \/ LaunchFails(c)
             \/ LeaveBooted(c) \/ StopRefused(c)
    BY <1>3, <2>2
    DEF PerformNone, StartRefused, LaunchFails, LeaveBooted, StopRefused, Go,
        TypeOK, Stoppers, Stopping
  <2>3. CASE InjectStop(c) \/ AssertThread(c) \/ Join(c) \/ JoinDone(c)
             \/ JoinTimeout(c)
    BY <1>3, <2>3
    DEF InjectStop, AssertThread, Join, JoinDone, JoinTimeout, Go, TypeOK,
        Stoppers, Stopping
  <2>4. CASE PauseRefused(c) \/ LeavePaused(c) \/ UnpauseRefused(c)
    BY <1>3, <2>4
    DEF PauseRefused, LeavePaused, UnpauseRefused, Go, TypeOK, Stoppers,
        Stopping
  <2> QED
    BY <2>1, <2>2, <2>3, <2>4
<1> QED
  BY <1>1, <1>2, <1>4, AccountKept

\* Every step keeps the account.
LEMMA NextAccount ==
  ASSUME IInv, AccountInv, [Next]_vars
  PROVE  AccountInv'
<1>1. Counted \in Nat /\ Started \in Nat /\ Unclaimed \in 0 .. 1
  BY DEF IInv, TypeOK, MetricNames, Counted, Started, Unclaimed
<1>2. TypeOK
  BY DEF IInv
<1>3. ASSUME NEW c \in Controllers, Controller(c) PROVE AccountInv'
  <2>1. CASE Start(c)
    <3>1. Stoppers' = Stoppers
      BY <1>2, <2>1 DEF Start, Go, TypeOK, Stoppers, Stopping
    <3>2. Counted' = Counted /\ Started' = Started + 1
      BY <1>2, <2>1 DEF Start, TypeOK, MetricNames, Counted, Started
    <3>3. Unclaimed = 0 /\ Unclaimed' = 1
      BY <2>1 DEF Start, MayStart, Unclaimed
    <3> QED
      BY <1>1, <3>1, <3>2, <3>3, StoppersFinite DEF AccountInv
  <2>2. CASE BeginStop(c)
    <3>1. Stoppers' = Stoppers \cup {c} /\ c \notin Stoppers
      BY <1>2, <2>2 DEF BeginStop, Go, TypeOK, Stoppers, Stopping
    <3>2. Cardinality(Stoppers') = Cardinality(Stoppers) + 1
      BY <3>1, StoppersFinite, FS_AddElement
    <3>3. Counted' = Counted /\ Started' = Started
      BY <2>2 DEF BeginStop, Counted, Started
    <3>4. Unclaimed = 1 /\ Unclaimed' = 0
      BY <2>2 DEF BeginStop, MayStop, Unclaimed
    <3> QED
      BY <1>1, <3>2, <3>3, <3>4, StoppersFinite DEF AccountInv
  <2>3. CASE Reap(c)
    <3>1. Stoppers' = Stoppers \ {c} /\ c \in Stoppers
      BY <1>2, <2>3 DEF Reap, AfterStop, Go, TypeOK, Stoppers, Stopping
    <3>2. Cardinality(Stoppers') = Cardinality(Stoppers) - 1
      BY <3>1, StoppersFinite, FS_RemoveElement
    <3>3. Counted' = Counted + 1 /\ Started' = Started
      BY <1>2, <2>3 DEF Reap, Outcome, TypeOK, MetricNames, Counted, Started
    <3>4. Unclaimed' = Unclaimed
      BY <2>3 DEF Reap, Unclaimed
    <3> QED
      BY <1>1, <3>2, <3>3, <3>4, StoppersFinite DEF AccountInv
  <2>4. CASE Launch(c) \/ Pause(c) \/ Unpause(c)
    <3>1. Stoppers' = Stoppers
      BY <1>2, <2>4 DEF Launch, Pause, Unpause, Go, TypeOK, Stoppers, Stopping
    <3>2. Counted' = Counted /\ Started' = Started
      BY <1>2, <2>4
      DEF Launch, Pause, Unpause, TypeOK, MetricNames, Counted, Started
    <3>3. Unclaimed' = Unclaimed
      BY <2>4 DEF Launch, Pause, MayPause, Unpause, MayUnpause, Unclaimed
    <3> QED
      BY <1>1, <3>1, <3>2, <3>3, AccountKept
  <2> QED
    BY <1>3, <2>1, <2>2, <2>3, <2>4, BystanderAccount DEF Controller
<1>4. ASSUME NEW t \in Threads, Harness(t) \/ RunEnds(t) PROVE AccountInv'
  <2>1. Stoppers' = Stoppers
    BY <1>4 DEF Harness, SetRunning, RunObservesStop, RunEnds, CountRun,
                SetIdle, Stoppers
  <2>2. Counted' = Counted /\ Started' = Started
    BY <1>2, <1>4 DEF Harness, SetRunning, RunObservesStop, RunEnds, CountRun,
       SetIdle, Counted, Started, TypeOK, MetricNames
  <2>3. Unclaimed' \in 0 .. Unclaimed
    <3>1. CASE SetRunning(t)
      <4>1. t = Started /\ Started > 0
        BY <3>1, NewestSteps DEF SetRunning, Threads
      <4>2. state = "STARTING"
        BY <3>1, <4>1
        DEF SetRunning, IInv, TypeOK, States, StateFollowsThread
      <4> QED
        BY <3>1, <4>2 DEF SetRunning, Unclaimed
    <3>2. CASE RunObservesStop(t) \/ RunEnds(t) \/ CountRun(t) \/ SetIdle(t)
      BY <3>2 DEF RunObservesStop, RunEnds, CountRun, SetIdle, Unclaimed
    <3> QED
      BY <1>4, <3>1, <3>2 DEF Harness
  <2> QED
    BY <2>1, <2>2, <2>3, AccountKept
<1>5. CASE UNCHANGED vars
  BY <1>1, <1>5, AccountKept DEF vars, Stoppers, Counted, Started, Unclaimed
<1> QED
  BY <1>3, <1>4, <1>5 DEF Next

\* Counted stops, and the stops under way, never outnumber the starts.
THEOREM StopsAccounted == Spec => []StopAccounting
<1>1. Init => AccountInv
  <2>1. ASSUME Init PROVE Stoppers = {}
    BY <2>1 DEF Init, Stoppers, Stopping
  <2> QED
    BY <2>1, FS_EmptySet
    DEF Init, AccountInv, Counted, Started, Unclaimed, MetricNames
<1>2. IInv /\ AccountInv => StopAccounting
  <2> SUFFICES ASSUME IInv, AccountInv PROVE StopAccounting
    OBVIOUS
  <2>1. Counted \in Nat /\ Started \in Nat /\ Unclaimed \in 0 .. 1
    BY DEF IInv, TypeOK, MetricNames, Counted, Started, Unclaimed
  <2>2. Counted + Cardinality(Stoppers) <= Started
    BY <2>1, StoppersFinite DEF AccountInv
  <2> QED
    BY <2>2 DEF StopAccounting, Counted, Started, Stoppers
<1>3. IInv /\ AccountInv /\ [Next]_vars => AccountInv'
  BY NextAccount
<1> QED
  BY <1>1, <1>2, <1>3, Invariance, PTL DEF Spec

\* The unpauses that were counted, and the pause that is there, never
\* outnumber the pauses: the state is PAUSED only through pause().
THEOREM PausesPaired == Spec => []UnpausesPaired
<1>1. Init => UnpausesPaired
  BY DEF Init, UnpausesPaired, MetricNames
<1>2. IInv /\ UnpausesPaired /\ [Next]_vars => UnpausesPaired'
  <2> SUFFICES ASSUME IInv, UnpausesPaired, [Next]_vars
               PROVE  UnpausesPaired'
    OBVIOUS
  <2>1. TypeOK
    BY DEF IInv
  <2>2. ASSUME NEW c \in Controllers, Controller(c) PROVE UnpausesPaired'
    <3>1. CASE Start(c) \/ Launch(c) \/ BeginStop(c) \/ Reap(c)
      BY <2>1, <3>1 DEF Start, Launch, BeginStop, Reap, Outcome, MayStart,
         MayStop, TypeOK, MetricNames, UnpausesPaired
    <3>2. CASE Pause(c) \/ Unpause(c)
      BY <2>1, <3>2 DEF Pause, Unpause, MayPause, MayUnpause, TypeOK,
         MetricNames, UnpausesPaired
    <3> QED
      BY <2>1, <2>2, <3>1, <3>2, BystanderSteps
      DEF Controller, Bystander, UnpausesPaired
  <2>3. ASSUME NEW t \in Threads, Harness(t) \/ RunEnds(t)
        PROVE  UnpausesPaired'
    BY <2>1, <2>3 DEF Harness, SetRunning, RunObservesStop, RunEnds, CountRun,
       SetIdle, TypeOK, MetricNames, UnpausesPaired
  <2>4. CASE UNCHANGED vars
    BY <2>4 DEF vars, UnpausesPaired
  <2> QED
    BY <2>2, <2>3, <2>4 DEF Next
<1> QED
  BY <1>1, <1>2, Invariance, PTL DEF Spec

-----------------------------------------------------------------------------
(* Callers that go through the DaemonManager *)

\* One request at a time, each of them one of daemon_ops.
OneRequest ==
  /\ \A c, d \in Controllers : pc[c] # "idle" /\ pc[d] # "idle" => c = d
  /\ \A c \in Controllers : pc[c] \notin {"raised", "yielded", "held"}
  /\ \A c \in Controllers : op[c] \in Operations \cup {"none"}

\* The handle is the newest thread from its start until its stop is counted,
\* and that thread has been launched by the time it is joined.
HandleKept ==
  /\ state \in {"STARTING", "RUNNING", "PAUSED"} => thread = Started
  /\ \A c \in Controllers : pc[c] = "launch" =>
       state = "STARTING" /\ worker[Started] = "created"
  /\ \A c \in Controllers : pc[c] \in Stopping =>
       /\ thread = Started /\ Started > 0
       /\ state \in {"STOPPING", "IDLE"}
  /\ \A c \in Controllers : pc[c] \in {"joining", "reap"} =>
       joined[c] = Started

ManagedInv == OneRequest /\ HandleKept

UnderManager == Managed => ManagedInv

\* The lock lets no second request in, and the bystanders of the one request
\* that is there raise nothing.
LEMMA BystanderManaged ==
  ASSUME Managed, IInv, ManagedInv, NEW c \in Controllers,
         \/ \E o \in Ops : Perform(c, o) \/ EnterBlock(c, o)
         \/ PerformNone(c) \/ StartRefused(c) \/ LaunchFails(c)
         \/ LeaveBooted(c) \/ StopRefused(c) \/ InjectStop(c)
         \/ AssertThread(c) \/ Join(c) \/ JoinDone(c) \/ JoinTimeout(c)
         \/ PauseRefused(c) \/ LeavePaused(c) \/ UnpauseRefused(c)
  PROVE  ManagedInv'
<1>1. /\ TypeOK /\ Started' = Started
      /\ UNCHANGED <<state, thread, worker>>
  BY BystanderSteps DEF IInv, Bystander, Started
<1>2. Ops \subseteq Operations /\ Operations \cap Blocks = {}
      /\ "NONE" \notin Operations
  BY DaemonAssumption DEF Operations, Blocks
<1>3. CASE \E o \in Ops : Perform(c, o) \/ EnterBlock(c, o)
  <2>1. PICK o \in Operations : Perform(c, o)
    BY <1>2, <1>3 DEF EnterBlock
  <2>2. /\ \A d \in Controllers : pc[d] = "idle"
        /\ pc' = [pc EXCEPT ![c] = pc'[c]]
        /\ pc'[c] \in {"idle", "start", "stop", "pause", "unpause"}
        /\ op' = [op EXCEPT ![c] = o] /\ UNCHANGED joined
    BY <1>1, <2>1
    DEF Perform, ManagerFree, Go, Entry, Operations, TypeOK
  <2>3. OneRequest'
    BY <1>1, <2>1, <2>2 DEF OneRequest, ManagedInv, TypeOK
  <2>4. \A d \in Controllers :
          pc'[d] \in {"idle", "start", "stop", "pause", "unpause"}
    BY <1>1, <2>2 DEF TypeOK
  <2>5. HandleKept'
    BY <1>1, <2>4 DEF HandleKept, ManagedInv, Stopping
  <2> QED
    BY <2>3, <2>5 DEF ManagedInv
<1>4. CASE PerformNone(c) \/ LeaveBooted(c) \/ LeavePaused(c)
  BY <1>2, <1>4 DEF PerformNone, LeaveBooted, LeavePaused, ManagedInv,
                    OneRequest
<1>5. CASE LaunchFails(c)
  <2>1. Launchable
    BY <1>1, <1>5 DEF LaunchFails, Launchable, ManagedInv, HandleKept, IInv,
                      StateFollowsThread, ThreadsInOrder
  <2> QED
    BY <1>5, <2>1 DEF LaunchFails
<1>6. op[c] \in {"START", "STOP", "PAUSE", "UNPAUSE", "RESTART", "none"}
  BY DEF ManagedInv, OneRequest, Operations
<1>7. CASE StartRefused(c) \/ StopRefused(c) \/ PauseRefused(c)
           \/ UnpauseRefused(c)
  <2>1. pc' = [pc EXCEPT ![c] = "idle"] /\ UNCHANGED <<op, joined>>
    BY <1>6, <1>7 DEF StartRefused, StopRefused, PauseRefused,
                      UnpauseRefused, Go
  <2> QED
    BY <1>1, <2>1 DEF ManagedInv, OneRequest, HandleKept, TypeOK, Stopping
<1>8. CASE InjectStop(c) \/ AssertThread(c)
  <2>1. pc' = [pc EXCEPT ![c] = pc'[c]] /\ pc'[c] \in {"assert", "join"}
        /\ pc[c] \in Stopping /\ UNCHANGED <<op, joined>>
    BY <1>1, <1>8 DEF InjectStop, AssertThread, Go, TypeOK, ManagedInv,
                      HandleKept, Stopping
  <2> QED
    BY <1>1, <2>1 DEF ManagedInv, OneRequest, HandleKept, TypeOK, Stopping
<1>9. CASE Join(c)
  <2>1. thread = Started /\ Started > 0 /\ worker[Started] # "created"
    BY <1>1, <1>9 DEF Join, ManagedInv, HandleKept, Stopping, IInv,
                      StateFollowsThread
  <2>2. pc' = [pc EXCEPT ![c] = "joining"]
        /\ joined' = [joined EXCEPT ![c] = thread] /\ UNCHANGED op
    BY <1>9, <2>1 DEF Join, Go
  <2> QED
    BY <1>1, <1>9, <2>1, <2>2
    DEF Join, ManagedInv, OneRequest, HandleKept, TypeOK, Stopping
<1>10. CASE JoinDone(c) \/ JoinTimeout(c)
  BY <1>1, <1>10 DEF JoinDone, JoinTimeout, Go, ManagedInv, OneRequest,
                     HandleKept, TypeOK, Stopping
<1> QED
  BY <1>3, <1>4, <1>5, <1>7, <1>8, <1>9, <1>10

\* The locked steps keep the handle where the lock's holder needs it.
LEMMA LockedStepManaged ==
  ASSUME Managed, IInv, ManagedInv, NEW c \in Controllers,
         \/ Start(c) \/ Launch(c) \/ BeginStop(c) \/ Reap(c)
         \/ Pause(c) \/ Unpause(c)
  PROVE  ManagedInv'
<1>1. TypeOK
  BY DEF IInv
<1>2. op[c] \in {"START", "STOP", "PAUSE", "UNPAUSE", "RESTART", "none"}
  BY DEF ManagedInv, OneRequest, Operations
<1>3. \A d \in Controllers : d # c => pc[d] = "idle"
  BY DEF ManagedInv, OneRequest, Start, Launch, BeginStop, Reap, Pause,
         Unpause
<1>4. CASE Start(c)
  <2>1. /\ Started' = Started + 1 /\ Started' \in Threads
        /\ pc' = [pc EXCEPT ![c] = "launch"]
        /\ state' = "STARTING" /\ thread' = Started'
        /\ worker'[Started'] = "created" /\ UNCHANGED <<op, joined>>
    BY <1>1, <1>4, DaemonAssumption
    DEF Start, Go, TypeOK, Started, Threads, MetricNames
  <2> QED
    BY <1>1, <1>3, <2>1
    DEF ManagedInv, OneRequest, HandleKept, TypeOK, Stopping
<1>5. CASE Launch(c)
  <2>1. /\ Started' = Started /\ pc' = [pc EXCEPT ![c] = "idle"]
        /\ UNCHANGED <<state, thread, op, joined>>
    BY <1>2, <1>5 DEF Launch, Go, Started
  <2> QED
    BY <1>1, <1>3, <2>1
    DEF ManagedInv, OneRequest, HandleKept, TypeOK, Stopping
<1>6. CASE BeginStop(c)
  <2>1. /\ Started' = Started /\ Started > 0
        /\ pc' = [pc EXCEPT ![c] = "inject"]
        /\ state = "RUNNING" /\ state' = "STOPPING"
        /\ UNCHANGED <<thread, op, joined>>
    BY <1>6 DEF BeginStop, MayStop, Go, Started, IInv, StateFollowsThread
  <2> QED
    BY <1>1, <1>3, <2>1
    DEF ManagedInv, OneRequest, HandleKept, TypeOK, Stopping
<1>7. CASE Reap(c)
  <2>1. pc' = [pc EXCEPT ![c] = pc'[c]] /\ pc'[c] \in {"start", "idle"}
    BY <1>1, <1>2, <1>7 DEF Reap, AfterStop, Go, TypeOK
  <2>2. state \in {"STOPPING", "IDLE"}
    BY <1>7 DEF Reap, ManagedInv, HandleKept, Stopping
  <2> QED
    BY <1>1, <1>3, <1>7, <2>1, <2>2
    DEF Reap, ManagedInv, OneRequest, HandleKept, TypeOK, Stopping
<1>8. CASE Pause(c) \/ Unpause(c)
  <2>1. /\ Started' = Started /\ pc' = [pc EXCEPT ![c] = "idle"]
        /\ state \in {"RUNNING", "PAUSED"} /\ state' \in {"RUNNING", "PAUSED"}
        /\ UNCHANGED <<thread, op, joined>>
    BY <1>1, <1>2, <1>8 DEF Pause, MayPause, Unpause, MayUnpause, Go,
       Started, TypeOK, MetricNames
  <2> QED
    BY <1>1, <1>3, <2>1
    DEF ManagedInv, OneRequest, HandleKept, TypeOK, Stopping
<1> QED
  BY <1>4, <1>5, <1>6, <1>7, <1>8

\* The thread only moves the state towards IDLE, and keeps the handle.
LEMMA HarnessManaged ==
  ASSUME Managed, IInv, ManagedInv, NEW t \in Threads,
         Harness(t) \/ RunEnds(t)
  PROVE  ManagedInv'
<1>1. TypeOK
  BY DEF IInv
<1>2. /\ UNCHANGED <<thread, pc, op, joined>> /\ Started' = Started
      /\ worker[t] \notin {"none", "created", "dead"}
  BY <1>1 DEF Harness, SetRunning, RunObservesStop, RunEnds, CountRun,
     SetIdle, TypeOK, Started, MetricNames
<1>3. t = Started /\ Started > 0
  BY <1>2, NewestSteps DEF Threads
<1>4. \A c \in Controllers : pc[c] # "launch"
  BY <1>2, <1>3 DEF ManagedInv, HandleKept
<1>5. \/ state' = state
      \/ state = "STARTING" /\ state' = "RUNNING"
      \/ state' = "IDLE"
  BY <1>1, <1>3 DEF Harness, SetRunning, RunObservesStop, RunEnds, CountRun,
     SetIdle, TypeOK, States, IInv, StateFollowsThread
<1> QED
  BY <1>2, <1>4, <1>5 DEF ManagedInv, OneRequest, HandleKept, Stopping

\* Under the manager's lock ManagedInv is an invariant.
LEMMA ManagedInvariance == Spec => []UnderManager
<1>1. Init => UnderManager
  BY DEF UnderManager, Init, ManagedInv, OneRequest, HandleKept, Stopping
<1>2. IInv /\ UnderManager /\ [Next]_vars => UnderManager'
  <2> SUFFICES ASSUME IInv, ManagedInv, [Next]_vars, Managed
               PROVE  ManagedInv'
    BY DEF UnderManager
  <2>1. ASSUME NEW c \in Controllers, Controller(c) PROVE ManagedInv'
    BY <2>1, BystanderManaged, LockedStepManaged DEF Controller
  <2>2. ASSUME NEW t \in Threads, Harness(t) \/ RunEnds(t)
        PROVE  ManagedInv'
    BY <2>2, HarnessManaged
  <2>3. CASE UNCHANGED vars
    BY <2>3 DEF vars, ManagedInv, OneRequest, HandleKept, Started
  <2> QED
    BY <2>1, <2>2, <2>3 DEF Next
<1> QED
  BY <1>1, <1>2, Invariance, PTL DEF Spec

\* Through the DaemonManager no request ends in an exception: stop()'s
\* assertion holds, and the handle can be launched and joined.
THEOREM ManagedNoFault == Spec => []NoFault
<1>1. UnderManager => NoFault
  BY DEF UnderManager, ManagedInv, OneRequest, NoFault
<1> QED
  BY <1>1, ManagedInvariance, PTL

\* Through the DaemonManager a joined thread is counted as a clean stop.
THEOREM ManagedCleanStop == Spec => []CleanStopCounted
<1>1. IInv /\ UnderManager => CleanStopCounted
  <2> SUFFICES ASSUME IInv, ManagedInv, NEW c \in Controllers,
                      pc[c] = "reap", worker[joined[c]] = "dead"
               PROVE  state = "IDLE"
    BY DEF CleanStopCounted, UnderManager
  <2>1. joined[c] = Started
    BY DEF ManagedInv, HandleKept
  <2> QED
    BY <2>1 DEF IInv, TypeOK, States, StateFollowsThread
<1> QED
  BY <1>1, Invariance, ManagedInvariance, PTL
=============================================================================
