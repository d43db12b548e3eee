SPECIFICATION Spec
CONSTANTS
  p1 = p1
  p2 = p2
  Nobody = Nobody
  Procs <- TwoProcs
  Iterations <- FirstLonger
  Algo = "PR"
  Priority <- FirstIsHigher
INVARIANTS
  Outlives
  InOnePlace
CHECK_DEADLOCK FALSE
