\* Two callers that use the daemon directly.
SPECIFICATION Spec
CONSTANTS
  a = a
  b = b
  Controllers <- Callers
  Ops <- AllOps
  Managed = FALSE
  MaxStarts = 2
  MaxPauses = 1
INVARIANTS
  
  HarnessTransitions
  
  StopAccounting
PROPERTIES
  ImplementsLifecycle
\* Both callers may have died of an exception.
CHECK_DEADLOCK FALSE
