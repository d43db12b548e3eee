----------------------------- MODULE Spreading -----------------------------
(***************************************************************************)
(* What the nodes of os_lab/labtest1/13CS30011 are to do between them: each *)
(* starts with its own value and learns more of them from its neighbours,  *)
(* until it knows all.  How and when is left open; Gossip describes the    *)
(* rounds and the pipes.  The value of a node is stood for by the node.    *)
(***************************************************************************)
EXTENDS Neighbours

VARIABLE
  known      \* known[n]: the nodes whose values n has seen

Init == known = [n \in Nodes |-> {n}]

\* Node n takes over some of what its neighbour m has seen.
Learn(n, m) ==
  /\ <<m, n>> \in Edges
  /\ \E S \in SUBSET known[m] : known' = [known EXCEPT ![n] = @ \cup S]

Next == \E n, m \in Nodes : Learn(n, m)

Spec == Init /\ [][Next]_known

-----------------------------------------------------------------------------
\* No edge leads out of C.
Closed(C) == \A e \in Edges : e[1] \in C => e[2] \in C

\* Nobody sees a value for which there is no way in the graph.
OnlyByEdges ==
  \A C \in SUBSET Nodes : Closed(C) => \A n \in C : known[n] \subseteq C
=============================================================================
