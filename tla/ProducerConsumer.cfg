SPECIFICATION LiveSpec
CONSTANTS
  Producers <- OneProducer
  Consumers <- TwoConsumers
  Order <- PCCOrder
  QSize = 1
  ExitModulus = 256
  MaxCount = 2
INVARIANTS
  FileTruthful
  FoundIsDeadlock
  RemovedUnused
  SeenIsSo
  
  AvoidanceWorks
PROPERTY DeadlockEndsWorkers
CHECK_DEADLOCK FALSE
