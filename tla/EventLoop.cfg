\* Both daemons, started and stopped three times.
SPECIFICATION Spec
CONSTANTS
  t1 = t1
  t2 = t2
  t3 = t3
  Roles <- BothRoles
  Tasks <- ThreeTasks
  MaxStarts = 3
INVARIANTS
  WaitsAccounted
  SingleConnection
PROPERTIES
  MissesExplained
  StopHeard
  RestartServes
\* The starts are bounded.
CHECK_DEADLOCK FALSE
