---------------------------- MODULE Neighbours ----------------------------
(***************************************************************************)
(* The graph of os_lab/labtest1/13CS30011, as each node gets it: a list of *)
(* neighbours, in the order in which the edges are in the input of the     *)
(* master, which has an edge once and none from a node to itself.          *)
(***************************************************************************)
EXTENDS Naturals, Sequences

CONSTANTS
  N,         \* number of nodes
  Nbrs       \* Nbrs[n]: the neighbours of n

Nodes == 1 .. N
IsNbr(n, m) == \E k \in 1 .. Len(Nbrs[n]) : Nbrs[n][k] = m

\* The pairs of nodes with a pipe from the first one to the second one.
Edges == {e \in Nodes \X Nodes : IsNbr(e[1], e[2])}

ASSUME GraphAssumption ==
  /\ N \in Nat \ {0}
  /\ Nbrs \in [Nodes -> Seq(Nodes)]
  /\ \A n \in Nodes : \A j, k \in 1 .. Len(Nbrs[n]) :
       Nbrs[n][j] = Nbrs[n][k] => j = k
  /\ \A n, m \in Nodes : IsNbr(n, m) => n # m /\ IsNbr(m, n)
=============================================================================
