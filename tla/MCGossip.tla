------------------------------ MODULE MCGossip ------------------------------
(* An instance of Gossip.                                                  *)
EXTENDS Gossip

\* The graph of master_input: 1-2, 2-3, 3-4, 4-1.
Square == <<<<2, 4>>, <<1, 3>>, <<2, 4>>, <<3, 1>>>>
=============================================================================
