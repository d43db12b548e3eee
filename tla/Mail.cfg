SPECIFICATION LiveSpec
CONSTANTS
  s1 = s1
  s2 = s2
  ann = ann
  bob = bob
  Nobody = Nobody
  Sessions <- TwoSessions
  Users <- AnnAndBob
  MaxFiles = 2
INVARIANTS
  SentIsStored
  ListIsOwn
PROPERTIES
  AnsweredOrLost
  ChildrenEnd
CHECK_DEADLOCK FALSE
