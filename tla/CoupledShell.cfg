SPECIFICATION LiveSpec
CONSTANTS
  a = a
  b = b
  Shells <- TwoShells
  MaxClients = 3
  Cap = 2
  MaxLines = 3
  MaxInts = 2

  
PROPERTIES
  JamStays
  PromptReturns
CHECK_DEADLOCK FALSE
