--------------------------- MODULE MCCoupledShell ---------------------------
(* An instance of CoupledShell.                                            *)
EXTENDS CoupledShell

CONSTANTS a, b
TwoShells == {a, b}
=============================================================================
