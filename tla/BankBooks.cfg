SPECIFICATION LiveSpec
CONSTANTS
  c1 = c1
  c2 = c2
  NoAccount = NoAccount
  Clients <- TwoClients
  NumAtms = 2
  LogSize = 4
  Amounts <- Ones
  MaxRequests = 2

INVARIANTS
  OneCustomer
  CardIsOwn
  ServedAreKnown
  
PROPERTY AnsweredOrDropped
CHECK_DEADLOCK FALSE
