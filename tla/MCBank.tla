------------------------------- MODULE MCBank -------------------------------
(* Instances of Bank.                                                      *)
EXTENDS Bank

CONSTANTS c1, c2

OneClient == {c1}
TwoClients == {c1, c2}
Ones == {1}
=============================================================================
