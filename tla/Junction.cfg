SPECIFICATION FairSpec
CONSTANTS
  NumTrains = 4
  Direction <- FourMixed
INVARIANTS
  FileTruthful
  ReportSound
  OnlyGridlock
PROPERTIES
  GridlockStays
  TrainsCross
CHECK_DEADLOCK FALSE
