--------------------------- MODULE ShortestPaths ---------------------------
(***************************************************************************)
(* What os_lab/assignment7 is to compute: the matrix of shortest distances *)
(* of an undirected graph, by allowing one more intermediate node in each  *)
(* stage (Floyd and Warshall).  A stage is one step here; Floyd describes  *)
(* the threads that do it.                                                 *)
(***************************************************************************)
EXTENDS Distances

VARIABLES
  input,    \* the matrix read
  matrix,   \* the matrix after the stages done
  stage     \* number of stages done

vars == <<input, matrix, stage>>

Init ==
  /\ input \in Inputs
  /\ matrix = input
  /\ stage = 0

Stage ==
  /\ stage < Size
  /\ matrix' = Relaxed(matrix, stage)
  /\ stage' = stage + 1
  /\ UNCHANGED input

Spec == Init /\ [][Stage]_vars
=============================================================================
