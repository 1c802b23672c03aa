\* Loss, re-ordering, repetition, restarts.
SPECIFICATION Spec
CONSTANTS
  m1 = m1
  m2 = m2
  m3 = m3
  text = text
  json = json
  Messages <- Three
  Types <- BothTypes
  Total <- Sizes
  TypeOf <- MixedTypes
INVARIANTS
  CompleteMeansAll
  ToldOnce
  NothingForgotten
  
\* A cache that cannot be constructed again stops.
CHECK_DEADLOCK FALSE
