\* Two callers that go through the DaemonManager.
SPECIFICATION Spec
CONSTANTS
  a = a
  b = b
  Controllers <- Callers
  Ops <- Operations
  Managed = TRUE
  MaxStarts = 3
  MaxPauses = 2
INVARIANTS
  
  CleanStopCounted
PROPERTIES
  StartsRun
  
