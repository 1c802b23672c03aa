\* A client sends a command while the server starts, runs and is shut down.
SPECIFICATION Spec
CONSTANTS
  r1 = r1
  Daemons <- Servers
  Order <- Registered
  DependsOn <- Depends
  Command = "command"
  Mortal = {"app"}
  Requests <- OneRequest
  Commands <- SomeCommands
INVARIANTS
  DepsFirst
  EachOnce
  WalkHolds
  
PROPERTIES
  
  ShutdownHeard
\* A server that was shut down stops.
CHECK_DEADLOCK FALSE
