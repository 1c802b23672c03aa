----------------------------- MODULE StateMachine -----------------------------
(***************************************************************************)
(* classes/state_machine.py and classes/state.py: threads that share a     *)
(* machine run it, and work on its data.  What the functions of a state    *)
(* decide is the application's: any outcome is possible.                   *)
(*                                                                         *)
(* The machine's lock is an OptionalRLock: a thread may take it again, and *)
(* an exception leaves it locked.  The metrics, which are the machine's    *)
(* and the states' channel groups, are abstracted to what the machine      *)
(* counts; the states count under the machine's lock.                      *)
(***************************************************************************)
EXTENDS Integers

CONSTANTS
  Threads,
  States,
  Initial,     \* the initial state
  RunsTo,      \* what the run function of each state may return
  HasEntering, \* the states that have a function for being entered
  HasLeaving,  \* and for being left
  MaxRuns      \* bound on the iterations

VARIABLES
  current, \* current_state
  depth,   \* how often each thread has the lock
  pc,      \* where each thread is
  curr,    \* its curr
  outcome, \* how its iteration ended
  read,    \* the metrics that it has read
  metrics, \* the machine's metrics
  runs     \* the iterations so far

vars == <<current, depth, pc, curr, outcome, read, metrics, runs>>

Metrics == {"enter_fails", "exit_fails", "transitions", "iterations"}
Outcomes == {"stayed", "transitions", "enter_fails", "exit_fails"}

TypeOK ==
  /\ current \in States /\ curr \in [Threads -> States]
  /\ depth \in [Threads -> Nat]
  /\ pc \in [Threads -> {"idle", "update", "read", "lock", "count", "write",
                         "data", "raised"}]
  /\ outcome \in [Threads -> Outcomes]
  /\ metrics \in [Metrics -> Nat] /\ read \in [Threads -> [Metrics -> Nat]]
  /\ runs \in 0 .. MaxRuns

\* The constructor enters the initial state; it must succeed.
Init ==
  /\ current = Initial
  /\ depth = [t \in Threads |-> 0]
  /\ pc = [t \in Threads |-> "idle"]
  /\ curr = [t \in Threads |-> Initial]
  /\ outcome = [t \in Threads |-> "stayed"]
  /\ metrics = [m \in Metrics |-> 0]
  /\ read = [t \in Threads |-> metrics]
  /\ runs = 0

Free(t) == \A u \in Threads \ {t} : depth[u] = 0
Goes(t, from, to) == pc[t] = from /\ pc' = [pc EXCEPT ![t] = to]

\* with machine.data() as data
EnterData(t) ==
  /\ Goes(t, "idle", "data") /\ Free(t)
  /\ depth' = [depth EXCEPT ![t] = @ + 1]
  /\ UNCHANGED <<current, curr, outcome, read, metrics, runs>>

LeaveData(t) ==
  /\ Goes(t, "data", "idle")
  /\ depth' = [depth EXCEPT ![t] = @ - 1]
  /\ UNCHANGED <<current, curr, outcome, read, metrics, runs>>

\* run(), without and with new data, which is put in under the lock.
Run(t) ==
  /\ runs < MaxRuns /\ runs' = runs + 1
  /\ Goes(t, "idle", "read") \/ Goes(t, "idle", "update")
  /\ UNCHANGED <<current, depth, curr, outcome, read, metrics>>

Update(t) ==
  /\ Goes(t, "update", "read") /\ Free(t)
  /\ UNCHANGED <<current, depth, curr, outcome, read, metrics, runs>>

\* The state to run is looked up before the lock is taken.
ReadState(t) ==
  /\ Goes(t, "read", "lock")
  /\ curr' = [curr EXCEPT ![t] = current]
  /\ UNCHANGED <<current, depth, outcome, read, metrics, runs>>

\* run(), leaving() and entering() of a state.  Without a function a state stays,
\* is left and is entered; leaving() asserts that it is left for another.
Returns(s) == RunsTo[s]
MayStay(s) == s \in HasLeaving
AssertFails(s, new) == s \in HasLeaving /\ new = s
MayRefuse(s) == s \in HasEntering

Iterated(t, how) ==
  /\ Goes(t, "lock", "count")
  /\ outcome' = [outcome EXCEPT ![t] = how]
  /\ UNCHANGED <<depth, curr, read, metrics, runs>>

Iterate(t) ==
  /\ Free(t)
  /\ \E new \in Returns(curr[t]) :
       \/ new = current /\ Iterated(t, "stayed") /\ UNCHANGED current
       \/ /\ new # current /\ ~AssertFails(curr[t], new)
          /\ \/ MayStay(curr[t]) /\ Iterated(t, "exit_fails")
                  /\ UNCHANGED current
             \/ MayRefuse(new) /\ Iterated(t, "enter_fails")
                  /\ UNCHANGED current
             \/ Iterated(t, "transitions") /\ current' = new
       \/ /\ new # current /\ AssertFails(curr[t], new)
          /\ Goes(t, "lock", "raised")
          /\ depth' = [depth EXCEPT ![t] = @ + 1]
          /\ UNCHANGED <<current, curr, outcome, read, metrics, runs>>

\* metrics.data() reads them all, and writes them all at its end.
CountRead(t) ==
  /\ Goes(t, "count", "write")
  /\ read' = [read EXCEPT ![t] = metrics]
  /\ UNCHANGED <<current, depth, curr, outcome, metrics, runs>>

CountWrite(t) ==
  /\ Goes(t, "write", "idle")
  /\ metrics' = [m \in Metrics |->
                   read[t][m] + IF m \in {outcome[t], "iterations"} THEN 1
                                ELSE 0]
  /\ UNCHANGED <<current, depth, curr, outcome, read, runs>>

Thread(t) ==
  \/ EnterData(t) \/ LeaveData(t) \/ Run(t) \/ Update(t) \/ ReadState(t)
  \/ Iterate(t) \/ CountRead(t) \/ CountWrite(t)

Next == \E t \in Threads : Thread(t)

Spec == Init /\ [][Next]_vars

-----------------------------------------------------------------------------

\* The assertion of State.leaving, that a state is not left for itself, never
\* fails: it does when another thread moves the machine on after curr was
\* read, and the lock is lost with it.
LeavesForAnother == \A t \in Threads : pc[t] # "raised"
=============================================================================
