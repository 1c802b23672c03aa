\* Writers with and without error_handle, their streams and clients.
SPECIFICATION Spec
CONSTANTS
  t = t
  u = u
  f = f
  q = q
  Streams <- AllKinds
  Kind <- KindOf
  Clients <- OneClient
  Deployments <- SetUps
  QueueSize = 1
  MaxFrames = 3
INVARIANTS
  NoGaps
  RemovedIsClosed
PROPERTIES
  HandlerReleased
  WriterProgress
\* The writer may have stopped or died.
CHECK_DEADLOCK FALSE
