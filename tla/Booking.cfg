SPECIFICATION LiveSpec
CONSTANTS
  c1 = c1
  c2 = c2
  NoClient = NoClient
  Silent = Silent
  Clients <- TwoClients
  Berths <- FourBerths
  Train <- TrainOf
  Coach <- CoachOf
  CoachType <- TypeOf
  SeatType <- SeatOf
  Lines <- ThreeLines
  MaxClients = 2
  MaxConnections = 2
  MaxLines <- TwoAndOne
  MaxStarts = 2
INVARIANTS
  BerthsAddUp
  AsAsked
PROPERTY Answered
CHECK_DEADLOCK FALSE
