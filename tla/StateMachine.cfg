\* Two threads share a machine of two states, for three iterations.
SPECIFICATION Spec
CONSTANTS
  Threads = {t1, t2}
  States <- TwoStates
  Initial = "wait"
  RunsTo <- Runs
  HasEntering = {"work"}
  HasLeaving = {"wait", "work"}
  MaxRuns = 3
INVARIANT
  LeavesForAnother
CHECK_DEADLOCK FALSE
