\* The server's writer and a tcp stream that breaks.
SPECIFICATION Spec
CONSTANTS
  t = t
  u = u
  f = f
  q = q
  Streams <- AllKinds
  Kind <- KindOf
  Clients <- OneClient
  Deployments <- ServerWithTcp
  QueueSize = 1
  MaxFrames = 2
PROPERTY
  FailedUnregistered
CHECK_DEADLOCK FALSE
