----------------------------- MODULE MCScheduler -----------------------------
(* Instances of Scheduler.                                                 *)
EXTENDS Scheduler

CONSTANTS p1, p2

TwoProcs == {p1, p2}
Double == [p \in TwoProcs |-> 2]
FirstLonger == [p \in TwoProcs |-> IF p = p1 THEN 2 ELSE 1]
Same == [p \in TwoProcs |-> 5]
FirstIsHigher == [p \in TwoProcs |-> IF p = p1 THEN 8 ELSE 3]
=============================================================================
