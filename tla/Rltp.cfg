SPECIFICATION LiveSpec
CONSTANTS
  Requests = 2
  InitialSeqs <- NearSeqs
  Garbage <- SomeGarbage
  MaxLosses = 2
  Capacity = 2
  MaxSent = 4
INVARIANTS
  RightAnswers
  SentIsHeard
PROPERTIES
  StuckStays
  Ends
CHECK_DEADLOCK FALSE
