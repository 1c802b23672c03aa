SPECIFICATION Spec
CONSTANTS
  Order <- MCOrder
  Names <- MCNames
  Group <- MCGroup
  Command = "cmd"
  Metric = "state"
  Rate <- MCRate
  Size <- MCSize
  IdSize = 1
  TimeSize = 1
  Room = 5
  EventMax = 2
  FrameMax = 2
  MaxTime = 2
  MaxWrites = 1
INVARIANTS SamplesConserved  GroupAtomic EventsExplain
PROPERTIES EnvLockReturned StopReturns
CHECK_DEADLOCK FALSE
