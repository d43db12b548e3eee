SPECIFICATION Spec
CONSTANTS
  c1 = c1
  c2 = c2
  NoAccount = NoAccount
  Clients <- OneClient
  NumAtms = 2
  LogSize = 6
  Amounts <- Ones
  MaxRequests = 6
INVARIANT NoOverdraft
CHECK_DEADLOCK FALSE
