----------------------------- MODULE MCJunction -----------------------------
(* An instance of Junction: a short sequence.txt.                          *)
EXTENDS Junction

\* One train from each direction, the ring not in the order of the trains.
FourMixed == [t \in 0 .. 3 |-> CASE t = 1 -> 2 [] t = 2 -> 1 [] OTHER -> t]
=============================================================================
