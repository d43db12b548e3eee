------------------------------ MODULE Distances ------------------------------
(***************************************************************************)
(* The matrices of os_lab/assignment7/13CS30011_fw.c and what it does to   *)
(* them.  As in the program -1 stands for no path.                         *)
(***************************************************************************)
EXTENDS Integers

CONSTANTS
  Size,      \* n, the number of nodes
  Weights    \* of the edges in the input

ASSUME DistancesAssumption ==
  /\ Size \in Nat \ {0}
  /\ Weights \subseteq Nat

Vertices == 0 .. Size - 1
INF == -1
Lengths == Nat \cup {INF}
Matrices == [Vertices -> [Vertices -> Lengths]]

\* The matrices readInput can make; the last weight given for a pair counts,
\* also for a node and itself.
Inputs ==
  {d \in [Vertices -> [Vertices -> Weights \cup {0, INF}]] :
     \A i, j \in Vertices :
       /\ d[i][j] = d[j][i]
       /\ d[i][j] \in Weights \cup {IF i = j THEN 0 ELSE INF}}

Shortens(d, i, j, k) ==
  /\ d[i][k] # INF /\ d[k][j] # INF
  /\ d[i][j] = INF \/ d[i][k] + d[k][j] < d[i][j]

\* All rows relaxed with k.
Relaxed(d, k) ==
  [i \in Vertices |-> [j \in Vertices |->
     IF Shortens(d, i, j, k) THEN d[i][k] + d[k][j] ELSE d[i][j]]]

-----------------------------------------------------------------------------
AtMost(a, b) == b = INF \/ (a # INF /\ a <= b)
Plus(a, b) == IF a = INF \/ b = INF THEN INF ELSE a + b

Below(d, e) == \A i, j \in Vertices : AtMost(d[i][j], e[i][j])

\* There is no shorter way by one of the nodes below n.
ClosedFor(d, n) ==
  \A i, j \in Vertices, m \in 0 .. n - 1 : AtMost(d[i][j], Plus(d[i][m], d[m][j]))
=============================================================================
