------------------------------- MODULE MCFloyd -------------------------------
(* An instance of Floyd.                                                   *)
EXTENDS Floyd

TwoWeights == {1, 3}
=============================================================================
