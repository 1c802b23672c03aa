\* Nobody sends a command.
SPECIFICATION Spec
CONSTANTS
  r1 = r1
  Daemons <- Servers
  Order <- Registered
  DependsOn <- Depends
  Command = "command"
  Mortal = {"app"}
  Requests <- NoRequest
  Commands <- SomeCommands
INVARIANT
  ScaleAsserts
CHECK_DEADLOCK FALSE
