----------------------------- MODULE FloydState -----------------------------
(* What main and the threads of os_lab/assignment7/13CS30011_fw.c keep, and *)
(* what they are to do with it.  Floyd has the steps.                      *)
EXTENDS Distances, FiniteSetsExt

VARIABLES
  dist,
  k,        \* of main
  main,     \* "create" or "join"
  row,      \* i of main
  thread,   \* thread[i]: where the thread of row i is
  col,      \* col[i]: j of that thread
  input,    \* history: the matrix read
  start     \* history: dist when the threads of this k were created

\* In whatever order the threads run, all rows are relaxed when they are joined,
\* each cell once: the program does the stages of ShortestPaths.
Paths == INSTANCE ShortestPaths WITH matrix <- start, stage <- k
DoesStages == Paths!Spec

\* The ways from u to v along n edges that come to no node twice, if not from u
\* back to u.
Ways(u, v, n) ==
  {w \in [0 .. n -> Vertices] :
     /\ w[0] = u /\ w[n] = v
     /\ \A m \in 1 .. n : input[w[m - 1]][w[m]] # INF
     /\ \A p, q \in 0 .. n : w[p] = w[q] => p = q \/ {p, q} = {0, n}}

WayLength(w, n) ==
  LET upto[m \in 0 .. n] ==
        IF m = 0 THEN 0 ELSE upto[m - 1] + input[w[m - 1]][w[m]]
  IN  upto[n]

WayLengths(u, v) ==
  UNION {{WayLength(w, n) : w \in Ways(u, v, n)} : n \in 1 .. Size}

\* What is printed are the lengths of the shortest ways in the graph read.
IsShortest ==
  k = Size => \A u, v \in Vertices :
    dist[u][v] = IF WayLengths(u, v) = {} THEN INF ELSE Min(WayLengths(u, v))
=============================================================================
