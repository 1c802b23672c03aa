\* Up to three requests and two blocks of the application.
SPECIFICATION Spec
CONSTANTS
  Loads <- SomeLoads
  Plain <- PlainChannels
  Enums <- EnumChannels
  Commandable <- MayCommand
  EnumValues <- OnOff
  Bits = 2
  App = "speed"
  MaxRequests = 3
INVARIANTS
  AnswerTruthful
  
PROPERTIES
  WritesKept
  
\* The requests are bounded.
CHECK_DEADLOCK FALSE
