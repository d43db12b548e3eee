---------------------------- MODULE GraphProofs ----------------------------
(***************************************************************************)
(* Theorems about the two programs on graphs.  Floyd, for every number of  *)
(* nodes and any weights: the threads do the stages of ShortestPaths, and  *)
(* what is printed are the lengths of the shortest ways in the graph read. *)
(* Gossip, for any graph and any size of the pipes: types, no value is     *)
(* lost at any edge, what the nodes do is what Spreading says, copies of a *)
(* value have come on different ways, and the nodes never wait for each    *)
(* other in a ring.                                                        *)
(***************************************************************************)
EXTENDS Gossip, FloydState, WellFoundedInduction, FiniteSetTheorems, SequenceTheorems, TLAPS

-----------------------------------------------------------------------------
(* Floyd, with a graph of its own; r is the row of a thread.               *)

F == INSTANCE Floyd

FloydAssumption == Size \in Nat \ {0} /\ Weights \subseteq Nat

(* Lengths, and one stage.                                             *)

LEMMA AtMostTransitive ==
  ASSUME NEW a \in F!Lengths, NEW b \in F!Lengths, NEW c \in F!Lengths,
         F!AtMost(a, b), F!AtMost(b, c)
  PROVE  F!AtMost(a, c)
BY DEF F!AtMost, F!Lengths, F!INF

LEMMA PlusMonotone ==
  ASSUME NEW a \in F!Lengths, NEW b \in F!Lengths, NEW c \in F!Lengths, NEW d \in F!Lengths,
         F!AtMost(a, b), F!AtMost(c, d)
  PROVE  F!AtMost(F!Plus(a, c), F!Plus(b, d))
BY DEF F!AtMost, F!Plus, F!Lengths, F!INF

LEMMA PlusAlgebra ==
  ASSUME NEW a \in F!Lengths, NEW b \in F!Lengths, NEW c \in F!Lengths
  PROVE  /\ F!Plus(a, b) \in F!Lengths
         /\ F!Plus(F!Plus(a, b), c) = F!Plus(a, F!Plus(b, c))
         /\ F!AtMost(b, F!Plus(a, b))
         /\ F!AtMost(a, F!Plus(a, b))
         /\ F!AtMost(a, a)
BY DEF F!AtMost, F!Plus, F!Lengths, F!INF

\* A relaxed cell is the less of the old one and the way by n.
LEMMA RelaxedCell ==
  ASSUME NEW d \in F!Matrices, NEW n \in F!Vertices, NEW r \in F!Vertices, NEW j \in F!Vertices
  PROVE  /\ d[r][j] \in F!Lengths
         /\ F!Relaxed(d, n)[r][j] \in F!Lengths
         /\ F!AtMost(F!Relaxed(d, n)[r][j], d[r][j])
         /\ F!AtMost(F!Relaxed(d, n)[r][j], F!Plus(d[r][n], d[n][j]))
         /\ F!Relaxed(d, n)[r][j] \in {d[r][j], F!Plus(d[r][n], d[n][j])}
<1>1. d[r][j] \in F!Lengths /\ d[r][n] \in F!Lengths /\ d[n][j] \in F!Lengths
  BY DEF F!Matrices
<1>2. F!Relaxed(d, n)[r][j]
      = IF F!Shortens(d, r, j, n) THEN d[r][n] + d[n][j] ELSE d[r][j]
  BY DEF F!Relaxed
<1> QED BY <1>1, <1>2 DEF F!Shortens, F!AtMost, F!Plus, F!Lengths, F!INF

LEMMA RelaxedType ==
  ASSUME NEW d \in F!Matrices, NEW n \in F!Vertices
  PROVE  F!Relaxed(d, n) \in F!Matrices
<1>1. \A r, j \in F!Vertices : F!Relaxed(d, n)[r][j] \in F!Lengths
  BY RelaxedCell
<1> QED BY <1>1 DEF F!Relaxed, F!Matrices

\* Row n and column n are the same after the stage of n: a way from n by n to
\* a node is not shorter than the way from n to the node.
LEMMA RelaxedStill ==
  ASSUME NEW d \in F!Matrices, NEW n \in F!Vertices, NEW r \in F!Vertices
  PROVE  /\ F!Relaxed(d, n)[n][r] = d[n][r]
         /\ F!Relaxed(d, n)[r][n] = d[r][n]
<1>1. d[n][n] \in F!Lengths /\ d[n][r] \in F!Lengths /\ d[r][n] \in F!Lengths
  BY DEF F!Matrices
<1>2. ~ F!Shortens(d, n, r, n) /\ ~ F!Shortens(d, r, n, n)
  BY <1>1 DEF F!Shortens, F!Lengths, F!INF
<1> QED BY <1>2 DEF F!Relaxed

LEMMA RelaxedBelow ==
  ASSUME NEW d \in F!Matrices, NEW n \in F!Vertices, NEW e \in F!Matrices, F!Below(d, e)
  PROVE  F!Below(F!Relaxed(d, n), e)
<1> SUFFICES ASSUME NEW r \in F!Vertices, NEW j \in F!Vertices
             PROVE  F!AtMost(F!Relaxed(d, n)[r][j], e[r][j])
  BY DEF F!Below
<1>1. F!AtMost(d[r][j], e[r][j]) /\ e[r][j] \in F!Lengths
  BY DEF F!Below, F!Matrices
<1> QED BY <1>1, RelaxedCell, AtMostTransitive

\* A stage keeps what the stages before have reached, and adds its own node.
LEMMA RelaxedCloses ==
  ASSUME FloydAssumption, NEW d \in F!Matrices, NEW n \in F!Vertices, F!ClosedFor(d, n)
  PROVE  F!ClosedFor(F!Relaxed(d, n), n + 1)
<1> DEFINE e == F!Relaxed(d, n)
<1> SUFFICES ASSUME NEW r \in F!Vertices, NEW j \in F!Vertices, NEW m \in 0 .. n
             PROVE  F!AtMost(e[r][j], F!Plus(e[r][m], e[m][j]))
  BY DEF F!ClosedFor, F!Vertices
<1>0. m \in F!Vertices
  BY DEF FloydAssumption, F!Vertices
<1>1. CASE m = n
  <2>1. e[r][n] = d[r][n] /\ e[n][j] = d[n][j]
    BY RelaxedStill
  <2>2. F!AtMost(e[r][j], F!Plus(d[r][n], d[n][j]))
    BY RelaxedCell
  <2> HIDE DEF e
  <2> QED BY <1>1, <2>1, <2>2
<1>2. CASE m # n
  <2> DEFINE in == d[r][n]    nj == d[n][j]
             im == d[r][m]    mj == d[m][j]
             nm == d[n][m]    mn == d[m][n]
  <2>1. /\ in \in F!Lengths /\ nj \in F!Lengths /\ im \in F!Lengths
        /\ mj \in F!Lengths /\ nm \in F!Lengths /\ mn \in F!Lengths
        /\ d[r][j] \in F!Lengths /\ e[r][j] \in F!Lengths
    BY <1>0, RelaxedCell
  <2>2. /\ F!AtMost(d[r][j], F!Plus(im, mj))
        /\ F!AtMost(in, F!Plus(im, mn))
        /\ F!AtMost(nj, F!Plus(nm, mj))
    BY <1>2 DEF F!ClosedFor, F!Vertices
  <2>3. F!AtMost(e[r][j], d[r][j]) /\ F!AtMost(e[r][j], F!Plus(in, nj))
    BY RelaxedCell
  <2>4. e[r][m] \in {im, F!Plus(in, nm)} /\ e[m][j] \in {mj, F!Plus(mn, nj)}
    BY <1>0, RelaxedCell
  <2> HIDE DEF e, in, nj, im, mj, nm, mn
  <2> QED BY <2>1, <2>2, <2>3, <2>4 DEF F!AtMost, F!Plus, F!Lengths, F!INF
<1> QED BY <1>1, <1>2

\* What has no shorter way by n and is below a matrix is below the relaxed one.
LEMMA RelaxedAbove ==
  ASSUME NEW d \in F!Matrices, NEW n \in F!Vertices, NEW e \in F!Matrices,
         F!Below(e, d), F!ClosedFor(e, Size)
  PROVE  F!Below(e, F!Relaxed(d, n))
<1> SUFFICES ASSUME NEW r \in F!Vertices, NEW j \in F!Vertices
             PROVE  F!AtMost(e[r][j], F!Relaxed(d, n)[r][j])
  BY DEF F!Below
<1>1. /\ F!AtMost(e[r][j], d[r][j])
      /\ F!AtMost(e[r][n], d[r][n]) /\ F!AtMost(e[n][j], d[n][j])
  BY DEF F!Below
<1>2. F!AtMost(e[r][j], F!Plus(e[r][n], e[n][j]))
  BY DEF F!ClosedFor, F!Vertices
<1>3. /\ e[r][j] \in F!Lengths /\ e[r][n] \in F!Lengths /\ e[n][j] \in F!Lengths
      /\ d[r][j] \in F!Lengths /\ d[r][n] \in F!Lengths /\ d[n][j] \in F!Lengths
  BY RelaxedCell
<1>4. F!AtMost(e[r][j], F!Plus(d[r][n], d[n][j]))
  <2>1. F!AtMost(F!Plus(e[r][n], e[n][j]), F!Plus(d[r][n], d[n][j]))
    BY <1>1, <1>3, PlusMonotone
  <2>2. F!Plus(e[r][n], e[n][j]) \in F!Lengths /\ F!Plus(d[r][n], d[n][j]) \in F!Lengths
    BY <1>3, PlusAlgebra
  <2> QED BY <1>2, <1>3, <2>1, <2>2, AtMostTransitive
<1>5. F!Relaxed(d, n)[r][j] \in {d[r][j], F!Plus(d[r][n], d[n][j])}
  BY RelaxedCell
<1> QED BY <1>1, <1>4, <1>5

-----------------------------------------------------------------------------
(* The inductive invariant: where the threads are while main creates and   *)
(* joins, and what they have written.                                      *)

Running(r) == thread[r] \in {"reach", "compare", "write"}

\* Thread i is done with its cell j.
Done(r, j) ==
  \/ thread[r] = "ended"
  \/ thread[r] = "none" /\ main = "join"
  \/ Running(r) /\ j < col[r]

Places ==
  /\ main = "create" => \A r \in F!Vertices : thread[r] = "none" <=> r >= row
  /\ main = "join" => k < Size /\ \A r \in F!Vertices : thread[r] = "none" <=> r < row
  /\ k = Size => row = 0 /\ dist = start

Cells ==
  k < Size => \A r, j \in F!Vertices :
    dist[r][j] = IF Done(r, j) THEN F!Relaxed(start, k)[r][j] ELSE start[r][j]

Looked ==
  \A r \in F!Vertices :
    /\ thread[r] = "compare" => start[r][k] # F!INF /\ start[k][col[r]] # F!INF
    /\ thread[r] = "write" => F!Shortens(start, r, col[r], k)

IInv == FloydAssumption /\ F!TypeOK /\ Places /\ Cells /\ Looked

LEMMA InputType == ASSUME FloydAssumption PROVE \A d \in F!Inputs : d \in F!Matrices
<1> SUFFICES ASSUME NEW d \in F!Inputs PROVE d \in F!Matrices
  OBVIOUS
<1>1. d \in [F!Vertices -> [F!Vertices -> Weights \cup {0, F!INF}]]
  BY DEF F!Inputs
<1>2. Weights \cup {0, F!INF} \subseteq F!Lengths
  BY DEF FloydAssumption, F!Lengths, F!INF
<1> QED BY <1>1, <1>2 DEF F!Matrices

LEMMA InitIInv == FloydAssumption /\ F!Init => IInv
<1> SUFFICES ASSUME FloydAssumption, F!Init PROVE IInv
  OBVIOUS
<1>1. F!TypeOK
  <2>1. input \in F!Matrices
    BY InputType DEF F!Init
  <2> QED BY <2>1 DEF F!Init, F!TypeOK, FloydAssumption, F!Vertices
<1>2. Places
  BY DEF F!Init, Places, FloydAssumption, F!Vertices
<1>3. Cells
  BY DEF F!Init, Cells, Done, Running
<1>4. Looked
  BY DEF F!Init, Looked
<1> QED BY <1>1, <1>2, <1>3, <1>4 DEF IInv

\* A thread runs only before the last stage is over.
LEMMA RunningBefore ==
  ASSUME IInv, NEW r \in F!Vertices, thread[r] # "none"
  PROVE  k \in F!Vertices /\ k < Size
BY DEF FloydAssumption, IInv, F!TypeOK, Places, F!Vertices

\* While thread i is at a cell, that cell and the two it reads are as when the
\* threads were created.
LEMMA CellsRead ==
  ASSUME IInv, NEW r \in F!Vertices, Running(r)
  PROVE  /\ col[r] \in F!Vertices
         /\ \A n \in F!Vertices : dist[k][n] = start[k][n] /\ dist[n][k] = start[n][k]
         /\ dist[r][col[r]] = start[r][col[r]]
<1>1. k \in F!Vertices /\ k < Size
  BY RunningBefore DEF Running
<1>2. col[r] \in F!Vertices
  BY DEF FloydAssumption, IInv, F!TypeOK, Running, F!Vertices
<1>3. start \in F!Matrices
  BY DEF IInv, F!TypeOK
<1>4. \A n \in F!Vertices : dist[k][n] = start[k][n] /\ dist[n][k] = start[n][k]
  BY <1>1, <1>3, RelaxedStill DEF IInv, Cells
<1>5. ~ Done(r, col[r])
  BY <1>2 DEF Done, Running, F!Vertices
<1>6. dist[r][col[r]] = start[r][col[r]]
  BY <1>1, <1>2, <1>5 DEF IInv, Cells
<1> QED BY <1>2, <1>4, <1>6

LEMMA StillInvariant == IInv => F!SharedIsStill
<1> SUFFICES ASSUME IInv, k < Size, NEW r \in F!Vertices
             PROVE  dist[k][r] = start[k][r] /\ dist[r][k] = start[r][k]
  BY DEF F!SharedIsStill
<1>1. k \in F!Vertices /\ start \in F!Matrices
  BY DEF FloydAssumption, IInv, F!TypeOK, F!Vertices
<1> QED BY <1>1, RelaxedStill DEF IInv, Cells

-----------------------------------------------------------------------------
(* Every step keeps the invariant.                                         *)

\* A step of thread i that does not write: if it leaves a cell, that is final.
LEMMA AdvanceKeeps ==
  ASSUME IInv, NEW r \in F!Vertices, Running(r), F!Advance(r),
         UNCHANGED <<k, main, row, input, start>>,
         dist' \in F!Matrices,
         \A a, b \in F!Vertices : dist'[a][b]
           = IF a = r /\ b = col[r] THEN F!Relaxed(start, k)[a][b] ELSE dist[a][b]
  PROVE  IInv'
<1>0. FloydAssumption
  BY DEF IInv
<1> USE <1>0 DEF FloydAssumption
<1>1. k \in F!Vertices /\ k < Size /\ col[r] \in F!Vertices
  BY RunningBefore, CellsRead DEF Running
<1>2. /\ thread \in [F!Vertices -> {"none", "reach", "compare", "write", "ended"}]
      /\ col \in [F!Vertices -> 0 .. Size]
  BY DEF IInv, F!TypeOK
<1>3. /\ thread' = [thread EXCEPT ![r] = IF col[r] = Size - 1 THEN "ended" ELSE "reach"]
      /\ col' = [col EXCEPT ![r] = col[r] + 1]
  BY DEF F!Advance
<1>4. F!TypeOK'
  <2>1. thread' \in [F!Vertices -> {"none", "reach", "compare", "write", "ended"}]
    BY <1>2, <1>3
  <2>2. col' \in [F!Vertices -> 0 .. Size]
    BY <1>1, <1>2, <1>3 DEF F!Vertices
  <2>3. ASSUME NEW a \in F!Vertices, thread'[a] \in {"reach", "compare", "write"}
        PROVE  col'[a] < Size
    <3>1. CASE a = r
      <4>1. col[r] # Size - 1 /\ col'[r] = col[r] + 1
        BY <1>2, <1>3, <2>3, <3>1
      <4> QED BY <1>1, <3>1, <4>1 DEF F!Vertices
    <3>2. CASE a # r
      BY <1>2, <1>3, <2>3, <3>2 DEF IInv, F!TypeOK
    <3> QED BY <3>1, <3>2
  <2> QED BY <2>1, <2>2, <2>3 DEF IInv, F!TypeOK
<1>5. Places'
  <2>1. \A a \in F!Vertices : thread'[a] = "none" <=> thread[a] = "none"
    BY <1>2, <1>3 DEF Running
  <2> QED BY <1>1, <2>1 DEF IInv, Places
<1>6. Cells'
  <2> SUFFICES ASSUME NEW a \in F!Vertices, NEW b \in F!Vertices
      PROVE dist'[a][b]
            = IF Done(a, b)' THEN F!Relaxed(start, k)[a][b] ELSE start[a][b]
    BY DEF Cells, F!Relaxed, F!Shortens
  <2>1. CASE a # r
    <3>1. Done(a, b)' <=> Done(a, b)
      BY <1>2, <1>3, <2>1 DEF Done, Running
    <3> QED BY <1>1, <2>1, <3>1 DEF IInv, Cells
  <2>2. CASE a = r
    <3>1. Done(r, b)' <=> b <= col[r]
      BY <1>1, <1>2, <1>3 DEF Done, Running, F!Vertices
    <3>2. Done(r, b) <=> b < col[r]
      BY <1>1 DEF Done, Running
    <3>3. b \in 0 .. Size - 1 /\ col[r] \in 0 .. Size - 1
      BY <1>1 DEF F!Vertices
    <3> QED BY <1>1, <2>2, <3>1, <3>2, <3>3 DEF IInv, Cells
  <2> QED BY <2>1, <2>2
<1>7. Looked'
  BY <1>2, <1>3 DEF IInv, Looked, F!Shortens
<1> QED BY <1>4, <1>5, <1>6, <1>7 DEF IInv

LEMMA GotoKeeps ==
  ASSUME IInv, NEW r \in F!Vertices, Running(r),
         NEW to \in {"compare", "write"}, F!Goto(r, to),
         to = "compare" => start[r][k] # F!INF /\ start[k][col[r]] # F!INF,
         to = "write" => F!Shortens(start, r, col[r], k),
         UNCHANGED <<dist, k, main, row, input, start>>
  PROVE  IInv'
<1>1. /\ thread \in [F!Vertices -> {"none", "reach", "compare", "write", "ended"}]
      /\ col' = col
      /\ thread' = [thread EXCEPT ![r] = to]
  BY DEF IInv, F!TypeOK, F!Goto
<1>2. F!TypeOK'
  BY <1>1 DEF IInv, F!TypeOK, Running
<1>3. \A a \in F!Vertices : /\ thread'[a] = "none" <=> thread[a] = "none"
                            /\ thread'[a] = "ended" <=> thread[a] = "ended"
                            /\ Running(a)' <=> Running(a)
  BY <1>1 DEF Running
<1>4. Places'
  BY <1>3 DEF IInv, Places
<1>5. Cells'
  <2>1. \A a, b \in F!Vertices : Done(a, b)' <=> Done(a, b)
    BY <1>1, <1>3 DEF Done
  <2> QED BY <2>1 DEF IInv, Cells, F!Relaxed, F!Shortens
<1>6. Looked'
  BY <1>1 DEF IInv, Looked, F!Shortens
<1> QED BY <1>2, <1>4, <1>5, <1>6 DEF IInv

LEMMA ThreadKeeps ==
  ASSUME IInv, NEW r \in F!Vertices, F!Thread(r)
  PROVE  IInv'
<1>0. /\ Running(r)
      /\ UNCHANGED <<k, main, row, input, start>>
  BY DEF F!Thread, F!Reach, F!Compare, F!Write, Running
<1>1. /\ k \in F!Vertices /\ k < Size /\ col[r] \in F!Vertices
      /\ dist[r][k] = start[r][k] /\ dist[k][col[r]] = start[k][col[r]]
      /\ dist[r][col[r]] = start[r][col[r]]
  BY <1>0, RunningBefore, CellsRead DEF Running
<1>2. dist \in F!Matrices /\ start \in F!Matrices
  BY DEF IInv, F!TypeOK
<1>3. ASSUME F!Advance(r), dist' = dist, ~ F!Shortens(start, r, col[r], k)
      PROVE  IInv'
  <2>1. F!Relaxed(start, k)[r][col[r]] = start[r][col[r]]
    BY <1>1, <1>3 DEF F!Relaxed
  <2>2. \A a, b \in F!Vertices : dist'[a][b]
          = IF a = r /\ b = col[r] THEN F!Relaxed(start, k)[a][b] ELSE dist[a][b]
    BY <1>1, <1>3, <2>1
  <2> QED BY <1>0, <1>2, <1>3, <2>2, AdvanceKeeps
<1>4. CASE F!Reach(r)
  <2>1. CASE dist[r][k] = F!INF \/ dist[k][col[r]] = F!INF
    BY <1>1, <1>3, <1>4, <2>1 DEF F!Reach, F!Shortens
  <2>2. CASE ~ (dist[r][k] = F!INF \/ dist[k][col[r]] = F!INF)
    <3>1. F!Goto(r, "compare") /\ dist' = dist
      BY <1>4, <2>2 DEF F!Reach
    <3> QED BY <1>0, <1>1, <2>2, <3>1, GotoKeeps
  <2> QED BY <2>1, <2>2
<1>5. CASE F!Compare(r)
  <2>1. start[r][k] # F!INF /\ start[k][col[r]] # F!INF
    BY <1>5 DEF F!Compare, IInv, Looked
  <2>2. dist' = dist
    BY <1>5 DEF F!Compare
  <2>3. CASE F!Shortens(start, r, col[r], k)
    <3>1. F!Goto(r, "write")
      BY <1>1, <1>5, <2>3 DEF F!Compare, F!Shortens
    <3> QED BY <1>0, <2>2, <2>3, <3>1, GotoKeeps
  <2>4. CASE ~ F!Shortens(start, r, col[r], k)
    <3>1. F!Advance(r)
      BY <1>1, <1>5, <2>1, <2>4 DEF F!Compare, F!Shortens
    <3> QED BY <1>3, <2>2, <2>4, <3>1
  <2> QED BY <2>3, <2>4
<1>6. CASE F!Write(r)
  <2>1. F!Shortens(start, r, col[r], k)
    BY <1>6 DEF F!Write, IInv, Looked
  <2> DEFINE sum == start[r][k] + start[k][col[r]]
  <2>2. sum \in F!Lengths /\ F!Relaxed(start, k)[r][col[r]] = sum
    <3>1. F!Relaxed(start, k)[r][col[r]] = sum
      BY <1>1, <2>1 DEF F!Relaxed
    <3> QED BY <1>1, <1>2, <3>1, RelaxedCell
  <2>3. dist' = [dist EXCEPT ![r][col[r]] = sum] /\ F!Advance(r)
    BY <1>1, <1>6 DEF F!Write
  <2> HIDE DEF sum
  <2>4. /\ dist' \in F!Matrices
        /\ \A a, b \in F!Vertices : dist'[a][b]
             = IF a = r /\ b = col[r] THEN sum ELSE dist[a][b]
    BY <1>1, <1>2, <2>2, <2>3 DEF F!Matrices
  <2>5. \A a, b \in F!Vertices : dist'[a][b]
          = IF a = r /\ b = col[r] THEN F!Relaxed(start, k)[a][b] ELSE dist[a][b]
    BY <2>2, <2>4
  <2>6. F!Advance(r) /\ dist' \in F!Matrices
    BY <2>3, <2>4
  <2> QED BY ONLY IInv, r \in F!Vertices, <1>0, <2>5, <2>6, AdvanceKeeps
<1> QED BY <1>4, <1>5, <1>6 DEF F!Thread

LEMMA CreateKeeps ==
  ASSUME IInv, F!Create
  PROVE  IInv'
<1>0. FloydAssumption
  BY DEF IInv
<1> USE <1>0 DEF FloydAssumption
<1>1. /\ k < Size /\ main = "create" /\ row \in F!Vertices
      /\ thread \in [F!Vertices -> {"none", "reach", "compare", "write", "ended"}]
      /\ col \in [F!Vertices -> 0 .. Size]
      /\ thread' = [thread EXCEPT ![row] = "reach"]
      /\ col' = [col EXCEPT ![row] = 0]
      /\ UNCHANGED <<dist, k, input, start>>
  BY DEF IInv, F!TypeOK, F!Create
<1>2. \A a \in F!Vertices : thread[a] = "none" <=> a >= row
  BY <1>1 DEF IInv, Places
<1>3. \/ row = Size - 1 /\ main' = "join" /\ row' = 0
      \/ row # Size - 1 /\ main' = "create" /\ row' = row + 1
  BY <1>1 DEF F!Create
<1>4. F!TypeOK'
  <2>1. thread' \in [F!Vertices -> {"none", "reach", "compare", "write", "ended"}]
    BY <1>1
  <2>2. col' \in [F!Vertices -> 0 .. Size]
    BY <1>1 DEF F!Vertices
  <2>3. \A a \in F!Vertices : thread'[a] \in {"reach", "compare", "write"} => col'[a] < Size
    BY <1>1 DEF IInv, F!TypeOK
  <2>4. row' \in F!Vertices /\ main' \in {"create", "join"}
    BY <1>1, <1>3 DEF F!Vertices
  <2> QED BY <1>1, <2>1, <2>2, <2>3, <2>4 DEF IInv, F!TypeOK
<1>5. Places'
  <2>1. \A a \in F!Vertices : thread'[a] = "none" <=> a >= row + 1
    BY <1>1, <1>2 DEF F!Vertices
  <2>2. \A a \in F!Vertices : ~ (a >= Size) /\ ~ (a < 0)
    BY DEF F!Vertices
  <2>3. k' # Size /\ k' < Size
    BY <1>1 DEF IInv, F!TypeOK
  <2>4. CASE row = Size - 1 /\ main' = "join" /\ row' = 0
    <3>1. \A a \in F!Vertices : thread'[a] # "none"
      BY <2>1, <2>2, <2>4
    <3> QED BY <2>2, <2>3, <2>4, <3>1 DEF Places
  <2>5. CASE row # Size - 1 /\ main' = "create" /\ row' = row + 1
    BY <2>1, <2>3, <2>5 DEF Places
  <2> QED BY <1>3, <2>4, <2>5
<1>6. Cells'
  <2>1. ASSUME NEW a \in F!Vertices, NEW b \in F!Vertices
        PROVE  Done(a, b)' <=> Done(a, b)
    <3>1. CASE a = row
      <4>1. ~ Done(a, b)
        BY <1>1, <1>2, <3>1 DEF Done, Running, F!Vertices
      <4>2. ~ Done(a, b)'
        BY <1>1, <3>1 DEF Done, Running, F!Vertices
      <4> QED BY <4>1, <4>2
    <3>2. CASE a # row
      <4>1. thread'[a] = thread[a] /\ col'[a] = col[a]
        BY <1>1, <3>2
      <4>2. CASE thread[a] = "none"
        <5>1. a >= row + 1 /\ a \in 0 .. Size - 1
          BY <1>1, <1>2, <3>2, <4>2 DEF F!Vertices
        <5>2. row # Size - 1
          BY <1>1, <5>1 DEF F!Vertices
        <5> QED BY <1>1, <1>3, <4>1, <4>2, <5>2 DEF Done, Running
      <4>3. CASE thread[a] # "none"
        BY <4>1, <4>3 DEF Done, Running
      <4> QED BY <4>2, <4>3
    <3> QED BY <3>1, <3>2
  <2> QED BY <1>1, <2>1 DEF IInv, Cells, F!Relaxed, F!Shortens
<1>7. Looked'
  BY <1>1 DEF IInv, Looked, F!Shortens
<1> QED BY <1>4, <1>5, <1>6, <1>7 DEF IInv

\* The last thread is joined: all rows are relaxed.
LEMMA LastJoin ==
  ASSUME IInv, F!Join, row = Size - 1
  PROVE  dist = F!Relaxed(start, k)
<1>1. /\ main = "join" /\ thread[row] = "ended" /\ k < Size
      /\ \A a \in F!Vertices : thread[a] = "none" <=> a < row
  BY DEF F!Join, IInv, Places
<1>2. \A a, b \in F!Vertices : Done(a, b)
  <2> SUFFICES ASSUME NEW a \in F!Vertices, NEW b \in F!Vertices PROVE Done(a, b)
    OBVIOUS
  <2>1. CASE a = row
    BY <1>1, <2>1 DEF Done
  <2>2. CASE a # row
    BY <1>1, <2>2 DEF Done, F!Vertices, FloydAssumption, IInv
  <2> QED BY <2>1, <2>2
<1>3. \A a, b \in F!Vertices : dist[a][b] = F!Relaxed(start, k)[a][b]
  BY <1>1, <1>2 DEF IInv, Cells
<1>4. dist \in F!Matrices /\ F!Relaxed(start, k) \in F!Matrices
  BY <1>1, RelaxedType DEF IInv, F!TypeOK, F!Vertices, FloydAssumption
<1>5. \A a \in F!Vertices : dist[a] = F!Relaxed(start, k)[a]
  BY <1>3, <1>4 DEF F!Matrices
<1> QED BY <1>4, <1>5 DEF F!Matrices

LEMMA JoinKeeps ==
  ASSUME IInv, F!Join
  PROVE  IInv'
<1>0. FloydAssumption
  BY DEF IInv
<1> USE <1>0 DEF FloydAssumption
<1>1. /\ k < Size /\ k \in 0 .. Size /\ main = "join" /\ row \in F!Vertices
      /\ thread \in [F!Vertices -> {"none", "reach", "compare", "write", "ended"}]
      /\ thread[row] = "ended"
      /\ thread' = [thread EXCEPT ![row] = "none"]
      /\ UNCHANGED <<dist, col, input>>
  BY DEF IInv, F!TypeOK, Places, F!Join
<1>2. \A a \in F!Vertices : thread'[a] = "none" <=> a < row + 1
  BY <1>1 DEF IInv, Places, F!Vertices
<1>3. thread' \in [F!Vertices -> {"none", "reach", "compare", "write", "ended"}]
  BY <1>1
<1>4. \A a \in F!Vertices : thread'[a] \in {"reach", "compare", "write"} => col'[a] < Size
  BY <1>1 DEF IInv, F!TypeOK
<1>5. CASE row = Size - 1
  <2>1. main' = "create" /\ row' = 0 /\ k' = k + 1 /\ start' = dist
    BY <1>5 DEF F!Join
  <2>2. \A a \in F!Vertices : thread'[a] = "none" /\ a >= 0
    BY <1>2, <1>5 DEF F!Vertices
  <2>3. F!TypeOK'
    <3>1. k' \in 0 .. Size /\ row' \in F!Vertices
      BY <1>1, <2>1 DEF F!Vertices
    <3> QED BY <1>1, <1>3, <1>4, <2>1, <3>1 DEF IInv, F!TypeOK
  <2>4. Places'
    BY <1>1, <2>1, <2>2 DEF Places
  <2>5. Cells'
    BY <1>1, <2>1, <2>2 DEF Cells, Done, Running
  <2>6. Looked'
    BY <2>2 DEF Looked
  <2> QED BY <2>3, <2>4, <2>5, <2>6 DEF IInv
<1>6. CASE row # Size - 1
  <2>1. main' = main /\ row' = row + 1 /\ k' = k /\ start' = start
    BY <1>6 DEF F!Join
  <2>2. F!TypeOK'
    <3>1. row' \in F!Vertices
      BY <1>1, <1>6, <2>1 DEF F!Vertices
    <3> QED BY <1>1, <1>3, <1>4, <2>1, <3>1 DEF IInv, F!TypeOK
  <2>3. Places'
    BY <1>1, <1>2, <2>1 DEF Places
  <2>4. Cells'
    <3>1. \A a, b \in F!Vertices : Done(a, b)' <=> Done(a, b)
      BY <1>1, <2>1 DEF Done, Running
    <3> QED BY <1>1, <2>1, <3>1 DEF IInv, Cells, F!Relaxed, F!Shortens
  <2>5. Looked'
    BY <1>1, <2>1 DEF IInv, Looked, F!Shortens
  <2> QED BY <2>2, <2>3, <2>4, <2>5 DEF IInv
<1> QED BY <1>5, <1>6

LEMMA StepIInv == IInv /\ [F!Next]_(F!vars) => IInv'
<1> SUFFICES ASSUME IInv, [F!Next]_(F!vars) PROVE IInv'
  OBVIOUS
<1>1. CASE UNCHANGED F!vars
  BY <1>1 DEF F!vars, IInv, F!TypeOK, Places, Cells, Looked, Done, Running,
              F!Relaxed, F!Shortens
<1>2. CASE \E r \in F!Vertices : F!Thread(r)
  BY <1>2, ThreadKeeps
<1> QED BY <1>1, <1>2, CreateKeeps, JoinKeeps DEF F!Next

-----------------------------------------------------------------------------
(* What a step does to the stages.                                         *)

LEMMA StepStage ==
  ASSUME IInv, [F!Next]_(F!vars)
  PROVE  \/ UNCHANGED <<input, start, k>>
         \/ k < Size /\ start' = F!Relaxed(start, k) /\ k' = k + 1 /\ input' = input
<1>1. CASE F!Join
  <2>1. CASE row = Size - 1
    BY <1>1, <2>1, LastJoin DEF F!Join, IInv, Places
  <2>2. CASE row # Size - 1
    BY <1>1, <2>2 DEF F!Join
  <2> QED BY <2>1, <2>2
<1>2. CASE ~ F!Join
  BY <1>2 DEF F!Next, F!vars, F!Create, F!Thread, F!Reach, F!Compare, F!Write
<1> QED BY <1>1, <1>2

\* What is true of the matrix after the stages done: it has no way longer than
\* an edge or a way by the nodes done, and is nowhere too short.
SInv ==
  /\ F!Below(start, input)
  /\ F!ClosedFor(start, k)
  /\ F!NotTooShort

LEMMA InitSInv == FloydAssumption /\ F!Init => SInv
<1> SUFFICES ASSUME FloydAssumption, F!Init PROVE SInv
  OBVIOUS
<1>1. input \in F!Matrices
  BY InputType DEF F!Init
<1>2. \A r, j \in F!Vertices : input[r][j] \in F!Lengths
  BY <1>1 DEF F!Matrices
<1>3. F!Below(input, input)
  BY <1>2, PlusAlgebra DEF F!Below
<1>4. F!ClosedFor(input, 0)
  BY DEF F!ClosedFor
<1> QED BY <1>3, <1>4 DEF F!Init, SInv, F!NotTooShort

LEMMA StepSInv == IInv /\ SInv /\ [F!Next]_(F!vars) => SInv'
<1> SUFFICES ASSUME IInv, SInv, [F!Next]_(F!vars) PROVE SInv'
  OBVIOUS
<1>1. CASE UNCHANGED <<input, start, k>>
  BY <1>1 DEF SInv, F!NotTooShort, F!Below, F!ClosedFor
<1>2. CASE k < Size /\ start' = F!Relaxed(start, k) /\ k' = k + 1 /\ input' = input
  <2>1. k \in F!Vertices /\ start \in F!Matrices /\ input \in F!Matrices
    BY <1>2 DEF IInv, F!TypeOK, F!Vertices, FloydAssumption
  <2>2. F!Below(F!Relaxed(start, k), input)
    BY <2>1, RelaxedBelow DEF SInv
  <2>3. F!ClosedFor(F!Relaxed(start, k), k + 1)
    BY <2>1, RelaxedCloses DEF SInv, IInv
  <2>4. \A d \in F!Matrices :
          F!Below(d, input) /\ F!ClosedFor(d, Size) => F!Below(d, F!Relaxed(start, k))
    BY <2>1, RelaxedAbove DEF SInv, F!NotTooShort
  <2>5. F!Below(start, input)'
    BY <1>2, <2>2 DEF F!Below
  <2>6. F!ClosedFor(start, k)'
    BY <1>2, <2>3 DEF F!ClosedFor
  <2>7. F!NotTooShort'
    BY <1>2, <2>4 DEF F!NotTooShort, F!Below, F!ClosedFor
  <2> QED BY <2>5, <2>6, <2>7 DEF SInv
<1> QED BY <1>1, <1>2, StepStage

LEMMA Invariants == FloydAssumption /\ F!Spec => [](IInv /\ SInv)
<1>1. FloydAssumption /\ F!Init => IInv /\ SInv
  BY InitIInv, InitSInv
<1>2. IInv /\ SInv /\ [F!Next]_(F!vars) => (IInv /\ SInv)'
  BY StepIInv, StepSInv
<1> QED BY <1>1, <1>2, PTL DEF F!Spec

-----------------------------------------------------------------------------
(* Theorems.                                                               *)

\* Every variable keeps its type, whatever the number of nodes and the weights.
THEOREM FloydTypeCorrect == FloydAssumption /\ F!Spec => []F!TypeOK
<1>1. IInv => F!TypeOK
  BY DEF IInv
<1> QED BY <1>1, Invariants, PTL

\* updateDist takes no lock, and needs none: the row and the column that the
\* threads of k share do not change while they run.
THEOREM RaceIsHarmless == FloydAssumption /\ F!Spec => []F!SharedIsStill
<1> QED BY StillInvariant, Invariants, PTL

\* The threads, interleaved as they may be, do the stages of Floyd and Warshall.
THEOREM ThreadsDoStages == FloydAssumption /\ F!Spec => DoesStages
<1>1. F!Init => Paths!Init
  BY DEF F!Init, Paths!Init, F!Inputs, Paths!Inputs, F!Vertices, Paths!Vertices, F!INF, Paths!INF
<1>2. IInv /\ [F!Next]_(F!vars) => [Paths!Stage]_(Paths!vars)
  BY StepStage
     DEF Paths!Stage, Paths!vars, F!Relaxed, Paths!Relaxed, F!Shortens, Paths!Shortens,
         F!Vertices, Paths!Vertices, F!INF, Paths!INF
<1> QED BY <1>1, <1>2, Invariants, PTL DEF F!Spec, DoesStages, Paths!Spec

\* What is printed is not longer than an edge of the input or than any way by
\* another node.
THEOREM NoShorterWay == FloydAssumption /\ F!Spec => []F!NothingShorter
<1>1. IInv /\ SInv => F!NothingShorter
  BY DEF IInv, Places, SInv, F!NothingShorter
<1> QED BY <1>1, Invariants, PTL

\* What is printed is the greatest matrix with that property: the distances.
THEOREM NoneTooShort == FloydAssumption /\ F!Spec => []F!NotTooShort
<1>1. SInv => F!NotTooShort
  BY DEF SInv
<1> QED BY <1>1, Invariants, PTL

-----------------------------------------------------------------------------
(* Walks in the graph read.                                                *)

\* w goes from u to v along n edges, and s is its length up to each place.
Walk(u, v, n, w, s) ==
  /\ n \in Nat \ {0} /\ w \in [0 .. n -> F!Vertices] /\ s \in [0 .. n -> Nat]
  /\ w[0] = u /\ w[n] = v /\ s[0] = 0
  /\ \A m \in 1 .. n : /\ input[w[m - 1]][w[m]] # F!INF
                       /\ s[m] = s[m - 1] + input[w[m - 1]][w[m]]

WalkLengths(u, v) == {l \in Nat : \E n, w, s : Walk(u, v, n, w, s) /\ s[n] = l}

\* Between its ends it comes only to nodes below h.
Inner(w, n, h) == \A m \in 1 .. n - 1 : w[m] < h
Ends(p, q, n) == p = 0 /\ q = n
Once(w, n) ==
  \A p, q \in 0 .. n : w[p] = w[q] => p = q \/ Ends(p, q, n) \/ Ends(q, p, n)

\* A set of natural numbers that is not empty has a least element.
LEMMA Least ==
  ASSUME NEW T, T \subseteq Nat, T # {}
  PROVE  \E x \in T : \A y \in T : x <= y
<1> DEFINE R == OpToRel(<, Nat)
<1>1. IsWellFoundedOn(R, Nat)
  BY NatLessThanWellFounded
<1> HIDE DEF R
<1>2. PICK x \in T : \A y \in T : <<y, x>> \notin R
  BY <1>1, WFMin
<1>3. \A y \in T : ~ (y < x)
  BY <1>2 DEF R, OpToRel
<1> QED BY <1>3

LEMMA LengthAlgebra ==
  \A a, b, c \in F!Lengths, x, y \in Nat :
    /\ F!AtMost(a, x) /\ F!AtMost(b, y) /\ F!AtMost(c, F!Plus(a, b)) => F!AtMost(c, x + y)
    /\ F!AtMost(a, x) => 0 <= x
BY DEF F!AtMost, F!Plus, F!Lengths, F!INF

\* A matrix below the edges in which no way by a node below h is shorter is below
\* each part of a walk by such nodes: there is no first place where it is not.
LEMMA BelowWalk ==
  ASSUME input \in F!Matrices, NEW d \in F!Matrices, NEW h \in Nat,
         F!Below(d, input), F!ClosedFor(d, h),
         NEW u, NEW v, NEW n, NEW w, NEW s, Walk(u, v, n, w, s), Inner(w, n, h),
         NEW a \in 0 .. n - 1, NEW b \in a + 1 .. n
  PROVE  /\ s[b] - s[a] \in Nat
         /\ F!AtMost(d[w[a]][w[b]], s[b] - s[a])
<1>0. n \in Nat \ {0} /\ w \in [0 .. n -> F!Vertices] /\ s \in [0 .. n -> Nat]
  BY DEF Walk
<1> USE <1>0
<1> DEFINE Good(m) == s[m] - s[a] \in Nat /\ F!AtMost(d[w[a]][w[m]], s[m] - s[a])
           T == {m \in a + 1 .. n : ~ Good(m)}
<1>1. ASSUME NEW m \in T, \A y \in T : m <= y
      PROVE  FALSE
  <2> DEFINE e == input[w[m - 1]][w[m]]
  <2>1. /\ m \in 1 .. n /\ m - 1 \in 0 .. n
        /\ w[m - 1] \in F!Vertices /\ w[m] \in F!Vertices /\ w[a] \in F!Vertices
        /\ s[m - 1] \in Nat /\ s[a] \in Nat
    OBVIOUS
  <2>2. e \in Nat /\ s[m] = s[m - 1] + e /\ F!AtMost(d[w[m - 1]][w[m]], e)
    <3>1. e # F!INF /\ s[m] = s[m - 1] + e
      BY <2>1 DEF Walk
    <3>2. e \in F!Lengths
      BY <2>1 DEF F!Matrices
    <3>3. F!AtMost(d[w[m - 1]][w[m]], e)
      BY <2>1 DEF F!Below
    <3> QED BY <3>1, <3>2, <3>3 DEF F!Lengths
  <2>3. CASE m = a + 1
    <3>1. w[m - 1] = w[a] /\ s[m - 1] = s[a]
      BY <2>3
    <3>2. s[m] - s[a] = e
      <4> HIDE DEF e
      <4> QED BY <2>1, <2>2, <3>1
    <3> QED BY <2>2, <3>1, <3>2
  <2>4. CASE m # a + 1
    <3>1. m - 1 \in a + 1 .. n /\ m - 1 \in 1 .. n - 1
      BY <2>1, <2>4
    <3>2. Good(m - 1)
      BY <1>1, <3>1
    <3>3. w[m - 1] \in 0 .. h - 1
      BY <2>1, <3>1 DEF Inner, F!Vertices
    <3>4. F!AtMost(d[w[a]][w[m]], F!Plus(d[w[a]][w[m - 1]], d[w[m - 1]][w[m]]))
      BY <2>1, <3>3 DEF F!ClosedFor
    <3>5. /\ d[w[a]][w[m]] \in F!Lengths /\ d[w[a]][w[m - 1]] \in F!Lengths
          /\ d[w[m - 1]][w[m]] \in F!Lengths
      BY <2>1 DEF F!Matrices
    <3> DEFINE x == s[m - 1] - s[a]
    <3>6. x \in Nat /\ F!AtMost(d[w[a]][w[m - 1]], x)
      BY <3>2
    <3>7. s[m] = s[m - 1] + e /\ e \in Nat /\ F!AtMost(d[w[m - 1]][w[m]], e)
      BY <2>2
    <3> HIDE DEF e, x
    <3>8. F!AtMost(d[w[a]][w[m]], x + e)
      BY <3>4, <3>5, <3>6, <3>7, LengthAlgebra
    <3>9. s[m] - s[a] = x + e /\ x + e \in Nat
      <4>1. \A p, q, r \in Nat : (p + q) - r = (p - r) + q
        OBVIOUS
      <4>2. (s[m - 1] + e) - s[a] = (s[m - 1] - s[a]) + e
        BY ONLY <2>1, <3>7, <4>1
      <4>3. s[m] - s[a] = x + e
        BY ONLY <3>7, <4>2 DEF x
      <4> QED BY ONLY <3>6, <3>7, <4>3
    <3> QED BY <3>8, <3>9
  <2> QED BY <2>3, <2>4
<1>2. T = {}
  <2>1. T \subseteq Nat
    OBVIOUS
  <2> HIDE DEF T
  <2> QED BY <1>1, <2>1, Least
<1> QED BY <1>2

\* One walk and then another.
Then(f, n1, g, n2) == [m \in 0 .. n1 + n2 |-> IF m <= n1 THEN f[m] ELSE g[m - n1]]
Up(a, s, n) == [m \in 0 .. n |-> a + s[m]]

LEMMA ThenFacts ==
  ASSUME NEW n1 \in Nat \ {0}, NEW n2 \in Nat \ {0}, NEW f, NEW g, f[n1] = g[0]
  PROVE  /\ \A m \in 0 .. n1 : Then(f, n1, g, n2)[m] = f[m]
         /\ \A m \in 0 .. n2 : Then(f, n1, g, n2)[n1 + m] = g[m]
<1>1. \A m \in 0 .. n1 : Then(f, n1, g, n2)[m] = f[m]
  BY DEF Then
<1>2. ASSUME NEW m \in 0 .. n2
      PROVE  Then(f, n1, g, n2)[n1 + m] = g[m]
  <2>1. CASE m = 0
    BY <1>1, <2>1
  <2>2. CASE m # 0
    <3>1. n1 + m \in 0 .. n1 + n2 /\ ~ (n1 + m <= n1) /\ (n1 + m) - n1 = m
      BY <2>2
    <3> QED BY <3>1 DEF Then
  <2> QED BY <2>1, <2>2
<1> QED BY <1>1, <1>2

LEMMA ThenType ==
  ASSUME NEW S, NEW n1 \in Nat \ {0}, NEW n2 \in Nat \ {0}, NEW f, NEW g,
         \A m \in 0 .. n1 : f[m] \in S, \A m \in 0 .. n2 : g[m] \in S
  PROVE  Then(f, n1, g, n2) \in [0 .. n1 + n2 -> S]
<1>1. ASSUME NEW m \in 0 .. n1 + n2
      PROVE  (IF m <= n1 THEN f[m] ELSE g[m - n1]) \in S
  <2>1. CASE m <= n1
    BY <2>1
  <2>2. CASE ~ (m <= n1)
    <3>1. m - n1 \in 0 .. n2
      BY <2>2
    <3> QED BY <2>2, <3>1
  <2> QED BY <2>1, <2>2
<1> QED BY <1>1 DEF Then

Joined(u, x, n1, w1, s1, n2, w2, s2, w, s) ==
  /\ Walk(u, x, n1 + n2, w, s) /\ s[n1 + n2] = s1[n1] + s2[n2]
  /\ \A m \in 0 .. n1 : w[m] = w1[m]
  /\ \A m \in 0 .. n2 : w[n1 + m] = w2[m]

LEMMA WalksJoin ==
  ASSUME input \in F!Matrices,
         NEW u, NEW v, NEW x,
         NEW n1, NEW w1, NEW s1, Walk(u, v, n1, w1, s1),
         NEW n2, NEW w2, NEW s2, Walk(v, x, n2, w2, s2)
  PROVE  \E w, s : Joined(u, x, n1, w1, s1, n2, w2, s2, w, s)
<1> DEFINE n == n1 + n2
           up == Up(s1[n1], s2, n2)
           w == Then(w1, n1, w2, n2)
           s == Then(s1, n1, up, n2)
<1>0. /\ n1 \in Nat \ {0} /\ n2 \in Nat \ {0} /\ n \in Nat \ {0}
      /\ \A m \in 0 .. n1 : w1[m] \in F!Vertices /\ s1[m] \in Nat
      /\ \A m \in 0 .. n2 : w2[m] \in F!Vertices /\ s2[m] \in Nat
  BY DEF Walk
<1>1. /\ w1[0] = u /\ w1[n1] = v /\ s1[0] = 0
      /\ w2[0] = v /\ w2[n2] = x /\ s2[0] = 0
  BY DEF Walk
<1> USE <1>0
<1>2. /\ up[0] = s1[n1]
      /\ \A m \in 0 .. n2 : up[m] = s1[n1] + s2[m]
  BY <1>1 DEF Up
<1> HIDE DEF up
<1>3. /\ \A m \in 0 .. n1 : w[m] = w1[m] /\ s[m] = s1[m]
      /\ \A m \in 0 .. n2 : w[n1 + m] = w2[m] /\ s[n1 + m] = s1[n1] + s2[m]
      /\ s \in [0 .. n -> Nat] /\ w \in [0 .. n -> F!Vertices]
  <2>1. /\ \A m \in 0 .. n1 : w[m] = w1[m]
        /\ \A m \in 0 .. n2 : w[n1 + m] = w2[m]
    <3>1. w1[n1] = w2[0]
      BY <1>1
    <3> QED BY <3>1, ThenFacts, SMT
  <2>2. /\ \A m \in 0 .. n1 : s[m] = s1[m]
        /\ \A m \in 0 .. n2 : s[n1 + m] = up[m]
    <3>1. s1[n1] = up[0]
      BY <1>2
    <3> QED BY <3>1, ThenFacts, SMT
  <2>3. s \in [0 .. n -> Nat] /\ w \in [0 .. n -> F!Vertices]
    <3>1. \A m \in 0 .. n2 : up[m] \in Nat
      BY <1>2
    <3> QED BY <3>1, ThenType
  <2> HIDE DEF w, s
  <2> QED BY <1>2, <2>1, <2>2, <2>3
<1> HIDE DEF w, s
<1>4. w[0] = u /\ w[n] = x /\ s[0] = 0 /\ s[n] = s1[n1] + s2[n2]
  BY <1>1, <1>3
<1>5. ASSUME NEW m \in 1 .. n
      PROVE  input[w[m - 1]][w[m]] # F!INF /\ s[m] = s[m - 1] + input[w[m - 1]][w[m]]
  <2>1. CASE m <= n1
    <3>1. m \in 1 .. n1 /\ m - 1 \in 0 .. n1 /\ m \in 0 .. n1
      BY <2>1
    <3> QED BY <1>3, <3>1 DEF Walk
  <2>2. CASE ~ (m <= n1)
    <3>1. PICK p \in 1 .. n2 : m = n1 + p
      <4>1. m - n1 \in 1 .. n2 /\ m = n1 + (m - n1)
        BY <2>2
      <4> QED BY <4>1
    <3>2. m - 1 = n1 + (p - 1) /\ p - 1 \in 0 .. n2 /\ p \in 0 .. n2
      BY <3>1
    <3>3. /\ w[m - 1] = w2[p - 1] /\ w[m] = w2[p]
          /\ s[m - 1] = s1[n1] + s2[p - 1] /\ s[m] = s1[n1] + s2[p]
      BY <1>3, <3>1, <3>2
    <3>4. /\ input[w2[p - 1]][w2[p]] # F!INF
          /\ s2[p] = s2[p - 1] + input[w2[p - 1]][w2[p]]
      BY <3>1 DEF Walk
    <3>5. input[w2[p - 1]][w2[p]] \in Int
      <4>1. w2[p - 1] \in F!Vertices /\ w2[p] \in F!Vertices
        BY <3>2
      <4> QED BY <4>1 DEF F!Matrices, F!Lengths, F!INF
    <3>6. s1[n1] \in Nat /\ s2[p - 1] \in Nat
      BY <3>2
    <3>7. \A x1, x2, x3 \in Int : x1 + (x2 + x3) = (x1 + x2) + x3
      OBVIOUS
    <3>8. s1[n1] + s2[p] = (s1[n1] + s2[p - 1]) + input[w2[p - 1]][w2[p]]
      BY <3>4, <3>5, <3>6, <3>7
    <3> QED BY <3>3, <3>4, <3>8
  <2> QED BY <2>1, <2>2
<1>6. Walk(u, x, n, w, s)
  BY <1>3, <1>4, <1>5 DEF Walk
<1>7. Joined(u, x, n1, w1, s1, n2, w2, s2, w, s)
  BY <1>3, <1>4, <1>6 DEF Joined
<1> QED BY <1>7


-----------------------------------------------------------------------------
(* What is in the matrix is the length of a walk that comes to no node     *)
(* twice.                                                                  *)

Simple(u, v, h, l) ==
  \E n, w, s : Walk(u, v, n, w, s) /\ s[n] = l /\ Inner(w, n, h) /\ Once(w, n)

LEMMA EdgeIsSimple ==
  ASSUME input \in F!Matrices, NEW u \in F!Vertices, NEW v \in F!Vertices,
         input[u][v] # F!INF
  PROVE  Simple(u, v, 0, input[u][v])
<1> DEFINE w == [m \in 0 .. 1 |-> IF m = 0 THEN u ELSE v]
           s == [m \in 0 .. 1 |-> IF m = 0 THEN 0 ELSE input[u][v]]
<1>1. input[u][v] \in Nat
  BY DEF F!Matrices, F!Lengths
<1>2. /\ w \in [0 .. 1 -> F!Vertices] /\ s \in [0 .. 1 -> Nat]
      /\ w[0] = u /\ w[1] = v /\ s[0] = 0 /\ s[1] = input[u][v]
  BY <1>1
<1> HIDE DEF w, s
<1>3. ASSUME NEW m \in 1 .. 1
      PROVE  input[w[m - 1]][w[m]] # F!INF /\ s[m] = s[m - 1] + input[w[m - 1]][w[m]]
  <2>1. m = 1 /\ m - 1 = 0
    OBVIOUS
  <2> QED BY <1>1, <1>2, <2>1
<1>4. Walk(u, v, 1, w, s)
  BY <1>2, <1>3 DEF Walk
<1>5. Inner(w, 1, 0) /\ Once(w, 1)
  BY DEF Inner, Once, Ends
<1> QED BY <1>2, <1>4, <1>5 DEF Simple

\* If the way by h shortens, the walk to h and the walk from h share no node but
\* h and, if it starts where it ends, the ends: else d would not be longer.
LEMMA NoCommonNode ==
  ASSUME input \in F!Matrices, NEW d \in F!Matrices, NEW h \in F!Vertices,
         F!Below(d, input), F!ClosedFor(d, h),
         NEW u \in F!Vertices, NEW v \in F!Vertices, F!Shortens(d, u, v, h),
         NEW n1, NEW w1, NEW s1, Walk(u, h, n1, w1, s1), s1[n1] = d[u][h], Inner(w1, n1, h),
         NEW n2, NEW w2, NEW s2, Walk(h, v, n2, w2, s2), s2[n2] = d[h][v], Inner(w2, n2, h),
         NEW p \in 0 .. n1 - 1, NEW q \in 1 .. n2, w1[p] = w2[q]
  PROVE  p = 0 /\ q = n2
<1> SUFFICES ASSUME ~ (p = 0 /\ q = n2) PROVE FALSE
  OBVIOUS
<1> DEFINE y == w1[p]
           a == s1[p]
           b == s2[n2] - s2[q]
           x1 == s1[n1]
           x2 == s2[n2]
<1>0. h \in Nat /\ n1 \in Nat \ {0} /\ n2 \in Nat \ {0}
  BY DEF F!Vertices, Walk
<1>1. /\ w1[0] = u /\ w1[n1] = h /\ s1[0] = 0
      /\ w2[0] = h /\ w2[n2] = v /\ s2[0] = 0
      /\ y \in F!Vertices /\ w2[q] = y
      /\ a \in Nat /\ s2[q] \in Nat /\ x1 \in Nat /\ x2 \in Nat
  BY DEF Walk
<1>2. a <= x1
  <2>1. p \in 0 .. n1 - 1 /\ n1 \in p + 1 .. n1
    BY <1>0
  <2>2. s1[n1] - s1[p] \in Nat
    BY ONLY <1>0, <2>1, BelowWalk, input \in F!Matrices, d \in F!Matrices,
            F!Below(d, input), F!ClosedFor(d, h),
            Walk(u, h, n1, w1, s1), Inner(w1, n1, h)
  <2> QED BY <1>1, <2>2
<1>3. p # 0 => F!AtMost(d[u][y], a)
  <2> SUFFICES ASSUME p # 0 PROVE F!AtMost(d[u][y], a)
    OBVIOUS
  <2>1. 0 \in 0 .. n1 - 1 /\ p \in 0 + 1 .. n1
    BY <1>0
  <2>2. F!AtMost(d[w1[0]][w1[p]], s1[p] - s1[0])
    BY ONLY <1>0, <2>1, BelowWalk, input \in F!Matrices, d \in F!Matrices,
            F!Below(d, input), F!ClosedFor(d, h),
            Walk(u, h, n1, w1, s1), Inner(w1, n1, h)
  <2>3. s1[p] - s1[0] = a
    BY <1>1
  <2> QED BY <1>1, <2>2, <2>3
<1>4. q # n2 => F!AtMost(d[y][v], b) /\ b \in Nat
  <2> SUFFICES ASSUME q # n2 PROVE F!AtMost(d[y][v], b) /\ b \in Nat
    OBVIOUS
  <2>1. q \in 0 .. n2 - 1 /\ n2 \in q + 1 .. n2
    BY <1>0
  <2>2. F!AtMost(d[w2[q]][w2[n2]], s2[n2] - s2[q]) /\ s2[n2] - s2[q] \in Nat
    BY ONLY <1>0, <2>1, BelowWalk, input \in F!Matrices, d \in F!Matrices,
            F!Below(d, input), F!ClosedFor(d, h),
            Walk(h, v, n2, w2, s2), Inner(w2, n2, h)
  <2> QED BY <1>1, <2>2
<1>5. b <= x2 /\ b \in Int
  BY <1>1
<1>6. /\ d[u][v] \in F!Lengths /\ d[u][y] \in F!Lengths /\ d[y][v] \in F!Lengths
      /\ d[u][v] = F!INF \/ x1 + x2 < d[u][v]
  BY <1>1 DEF F!Matrices, F!Shortens
<1>7. \A l \in Nat : F!AtMost(d[u][v], l) => ~ (l <= x1 + x2)
  BY <1>1, <1>6 DEF F!AtMost, F!Lengths, F!INF
<1>8. CASE p = 0
  <2>1. q # n2 /\ y = u
    BY <1>1, <1>8
  <2>2. F!AtMost(d[u][v], b) /\ b \in Nat
    BY <1>4, <2>1
  <2> HIDE DEF b, x1, x2
  <2> QED BY <1>1, <1>5, <1>7, <2>2
<1>9. CASE p # 0 /\ q = n2
  <2>1. y = v
    BY <1>1, <1>9
  <2>2. F!AtMost(d[u][v], a) /\ a \in Nat
    BY <1>1, <1>3, <1>9, <2>1
  <2> HIDE DEF a, x1, x2
  <2> QED BY <1>1, <1>2, <1>7, <2>2
<1>10. CASE p # 0 /\ q # n2
  <2>1. y \in 0 .. h - 1
    BY <1>0, <1>1, <1>10 DEF Inner, F!Vertices
  <2>2. F!AtMost(d[u][v], F!Plus(d[u][y], d[y][v]))
    BY <2>1 DEF F!ClosedFor
  <2>3. F!AtMost(d[u][y], a) /\ F!AtMost(d[y][v], b) /\ a \in Nat /\ b \in Nat
    BY <1>1, <1>3, <1>4, <1>10
  <2> HIDE DEF a, b, x1, x2, y
  <2>4. F!AtMost(d[u][v], a + b)
    BY <1>6, <2>2, <2>3, LengthAlgebra
  <2>5. a + b \in Nat /\ a + b <= x1 + x2
    BY <1>1, <1>2, <1>5, <2>3
  <2> QED BY <1>7, <2>4, <2>5
<1> QED BY <1>8, <1>9, <1>10

\* So they make one walk with what they had.
LEMMA SimplesJoin ==
  ASSUME input \in F!Matrices, NEW d \in F!Matrices, NEW h \in F!Vertices,
         F!Below(d, input), F!ClosedFor(d, h),
         NEW u \in F!Vertices, NEW v \in F!Vertices, F!Shortens(d, u, v, h),
         Simple(u, h, h, d[u][h]), Simple(h, v, h, d[h][v])
  PROVE  Simple(u, v, h + 1, d[u][h] + d[h][v])
<1>0. h \in Nat /\ u # h /\ v # h
  <2>1. d[h][h] \in F!Lengths /\ d[u][h] \in F!Lengths /\ d[h][v] \in F!Lengths
    BY DEF F!Matrices
  <2> QED BY <2>1 DEF F!Vertices, F!Shortens, F!Lengths, F!INF
<1>1. PICK n1, w1, s1 : /\ Walk(u, h, n1, w1, s1) /\ s1[n1] = d[u][h]
                       /\ Inner(w1, n1, h) /\ Once(w1, n1)
  BY DEF Simple
<1>2. PICK n2, w2, s2 : /\ Walk(h, v, n2, w2, s2) /\ s2[n2] = d[h][v]
                       /\ Inner(w2, n2, h) /\ Once(w2, n2)
  BY DEF Simple
<1> DEFINE n == n1 + n2
<1>3. n1 \in Nat \ {0} /\ n2 \in Nat \ {0} /\ n \in Nat \ {0}
  BY <1>1, <1>2 DEF Walk
<1> USE <1>3
<1>4. /\ w1[0] = u /\ w1[n1] = h /\ w2[0] = h /\ w2[n2] = v
      /\ \A m \in 0 .. n1 : w1[m] \in F!Vertices
      /\ \A m \in 0 .. n2 : w2[m] \in F!Vertices
  BY <1>1, <1>2 DEF Walk
<1>5. PICK w, s : Joined(u, v, n1, w1, s1, n2, w2, s2, w, s)
  BY <1>1, <1>2, WalksJoin
<1>6. /\ Walk(u, v, n, w, s) /\ s[n] = s1[n1] + s2[n2]
      /\ \A m \in 0 .. n1 : w[m] = w1[m]
      /\ \A m \in 0 .. n2 : w[n1 + m] = w2[m]
  BY <1>5 DEF Joined
<1>7. \A m \in 0 .. n : m <= n1 \/ \E q \in 1 .. n2 : m = n1 + q
  <2> SUFFICES ASSUME NEW m \in 0 .. n, ~ (m <= n1) PROVE \E q \in 1 .. n2 : m = n1 + q
    OBVIOUS
  <2>1. m - n1 \in 1 .. n2 /\ m = n1 + (m - n1)
    OBVIOUS
  <2> QED BY <2>1
<1>8. Inner(w, n, h + 1)
  <2> SUFFICES ASSUME NEW m \in 1 .. n - 1 PROVE w[m] < h + 1
    BY DEF Inner
  <2>1. CASE m <= n1
    <3>1. w[m] = w1[m] /\ m \in 0 .. n1
      BY <1>6, <2>1
    <3>2. CASE m = n1
      BY <1>0, <1>4, <3>1, <3>2
    <3>3. CASE m # n1
      <4>1. w1[m] < h
        BY <1>1, <2>1, <3>3 DEF Inner
      <4>2. w1[m] \in Int
        BY <1>4, <3>1 DEF F!Vertices
      <4> QED BY <1>0, <3>1, <4>1, <4>2
    <3> QED BY <3>2, <3>3
  <2>2. CASE ~ (m <= n1)
    <3>1. PICK q \in 1 .. n2 : m = n1 + q
      BY <1>7, <2>2
    <3>2. q \in 1 .. n2 - 1 /\ q \in 0 .. n2
      BY <3>1
    <3>3. w[m] = w2[q] /\ w2[q] < h
      BY <1>2, <1>6, <3>1, <3>2 DEF Inner
    <3>4. w2[q] \in Int
      BY <1>4, <3>2 DEF F!Vertices
    <3> QED BY <1>0, <3>3, <3>4
  <2> QED BY <2>1, <2>2
<1>9. ASSUME NEW p \in 0 .. n, NEW q \in 0 .. n, w[p] = w[q], p < q
       PROVE  Ends(p, q, n)
  <2>1. CASE q <= n1
    <3>1. p \in 0 .. n1 /\ q \in 0 .. n1 /\ p # q /\ n1 # 0
      BY <1>9, <2>1
    <3>2. w1[p] = w1[q]
      BY <1>6, <1>9, <3>1
    <3>3. Ends(p, q, n1) \/ Ends(q, p, n1)
      BY <1>1, <3>1, <3>2 DEF Once
    <3> QED BY <1>0, <1>4, <3>2, <3>3 DEF Ends
  <2>2. CASE ~ (q <= n1)
    <3>1. PICK q2 \in 1 .. n2 : q = n1 + q2
      BY <1>7, <2>2
    <3>2. w[q] = w2[q2] /\ q2 \in 0 .. n2
      BY <1>6, <3>1
    <3>3. CASE p < n1
      <4>1. p \in 0 .. n1 - 1 /\ w1[p] = w2[q2]
        BY <1>6, <1>9, <3>2, <3>3
      <4>2. p = 0 /\ q2 = n2
        BY <1>1, <1>2, <3>1, <4>1, NoCommonNode
      <4> QED BY <3>1, <4>2 DEF Ends
    <3>4. CASE ~ (p < n1)
      <4>1. p - n1 \in 0 .. n2 /\ p = n1 + (p - n1) /\ p - n1 # q2 /\ q2 # 0
        BY <1>9, <3>1, <3>4
      <4>2. w[p] = w2[p - n1]
        BY <1>6, <4>1
      <4>3. w2[p - n1] = w2[q2]
        BY <1>9, <3>2, <4>2
      <4>4. Ends(p - n1, q2, n2) \/ Ends(q2, p - n1, n2)
        BY <1>2, <3>2, <4>1, <4>3 DEF Once
      <4>5. w2[q2] = w2[0] /\ w2[q2] = w2[n2]
        BY <4>1, <4>3, <4>4 DEF Ends
      <4> QED BY <1>0, <1>4, <4>5
    <3> QED BY <3>3, <3>4
  <2> QED BY <2>1, <2>2
<1>10. Once(w, n)
  <2> SUFFICES ASSUME NEW p \in 0 .. n, NEW q \in 0 .. n, w[p] = w[q], p # q
               PROVE  Ends(p, q, n) \/ Ends(q, p, n)
    BY DEF Once
  <2>1. p < q \/ q < p
    OBVIOUS
  <2> QED BY <1>9, <2>1
<1> HIDE DEF n
<1> QED BY <1>1, <1>2, <1>6, <1>8, <1>10 DEF Simple

\* A length in the matrix is that of such a walk.
Travelled ==
  \A u, v \in F!Vertices : start[u][v] # F!INF => Simple(u, v, k, start[u][v])

LEMMA InitTravelled == FloydAssumption /\ F!Init => Travelled
<1> SUFFICES ASSUME FloydAssumption, F!Init PROVE Travelled
  OBVIOUS
<1>1. input \in F!Matrices /\ start = input /\ k = 0
  BY InputType DEF F!Init
<1> QED BY <1>1, EdgeIsSimple DEF Travelled

LEMMA SimpleMore ==
  ASSUME NEW u, NEW v, NEW h \in Nat, NEW l, Simple(u, v, h, l)
  PROVE  Simple(u, v, h + 1, l)
<1>1. PICK n, w, s : Walk(u, v, n, w, s) /\ s[n] = l /\ Inner(w, n, h) /\ Once(w, n)
  BY DEF Simple
<1>2. ASSUME NEW m \in 1 .. n - 1 PROVE w[m] < h + 1
  <2>1. w[m] < h
    BY <1>1 DEF Inner
  <2>2. m \in 0 .. n /\ n \in Nat \ {0} /\ w \in [0 .. n -> F!Vertices]
    BY <1>1 DEF Walk
  <2>3. w[m] \in Int
    BY <2>2 DEF F!Vertices
  <2> QED BY <2>1, <2>3
<1>3. Inner(w, n, h + 1)
  BY <1>2 DEF Inner
<1> QED BY <1>1, <1>3 DEF Simple

LEMMA StepTravelled ==
  ASSUME IInv, SInv, Travelled, [F!Next]_(F!vars)
  PROVE  Travelled'
<1>1. ASSUME input' = input, NEW u, NEW v, NEW n, NEW w, NEW s
      PROVE  Walk(u, v, n, w, s)' <=> Walk(u, v, n, w, s)
  BY <1>1 DEF Walk
<1>2. CASE UNCHANGED <<input, start, k>>
  BY <1>1, <1>2 DEF Travelled, Simple
<1>3. CASE k < Size /\ start' = F!Relaxed(start, k) /\ k' = k + 1 /\ input' = input
  <2>1. /\ k \in F!Vertices /\ k \in Nat
        /\ start \in F!Matrices /\ input \in F!Matrices
        /\ F!Below(start, input) /\ F!ClosedFor(start, k)
    BY <1>3 DEF IInv, SInv, F!TypeOK, F!Vertices, FloydAssumption
  <2>2. ASSUME NEW u \in F!Vertices, NEW v \in F!Vertices, start'[u][v] # F!INF
        PROVE  Simple(u, v, k + 1, start'[u][v])
    <3> DEFINE a == start[u][k]
               b == start[k][v]
    <3>1. start'[u][v] = IF F!Shortens(start, u, v, k) THEN a + b ELSE start[u][v]
      BY <1>3 DEF F!Relaxed
    <3>2. CASE F!Shortens(start, u, v, k)
      <4>1. Simple(u, k, k, a) /\ Simple(k, v, k, b)
        BY <2>1, <3>2 DEF Travelled, F!Shortens
      <4>2. Simple(u, v, k + 1, a + b)
        BY <2>1, <3>2, <4>1, SimplesJoin
      <4> QED BY <3>1, <3>2, <4>2
    <3>3. CASE ~ F!Shortens(start, u, v, k)
      <4>1. start'[u][v] = start[u][v]
        BY <3>1, <3>3
      <4>2. Simple(u, v, k, start[u][v])
        BY <2>2, <4>1 DEF Travelled
      <4> QED BY <2>1, <4>1, <4>2, SimpleMore
    <3> QED BY <3>2, <3>3
  <2>3. ASSUME NEW u \in F!Vertices, NEW v \in F!Vertices, start'[u][v] # F!INF
        PROVE  Simple(u, v, k, start[u][v])'
    <3>1. PICK n, w, s : /\ Walk(u, v, n, w, s) /\ s[n] = start'[u][v]
                         /\ Inner(w, n, k + 1) /\ Once(w, n)
      BY <2>2, <2>3 DEF Simple
    <3>2. Walk(u, v, n, w, s)' /\ s[n] = start'[u][v] /\ Inner(w, n, k') /\ Once(w, n)
      BY <1>1, <1>3, <3>1
    <3> QED BY <3>2 DEF Simple
  <2> QED BY <2>3 DEF Travelled
<1> QED BY <1>2, <1>3, StepStage

-----------------------------------------------------------------------------
(* The ways of FloydState are walks that come to no node twice.            *)

LEMMA SameVertices == Vertices = F!Vertices /\ INF = F!INF
BY DEF Vertices, F!Vertices, INF, F!INF

\* s is the length of w up to each of the places 0 .. n.
Runs(w, n, s) ==
  /\ s \in [0 .. n -> Nat] /\ s[0] = 0
  /\ \A m \in 1 .. n : s[m] = s[m - 1] + input[w[m - 1]][w[m]]

\* There is no first place without a length up to there.
LEMMA RunsExist ==
  ASSUME input \in F!Matrices, NEW n \in Nat, NEW w \in [0 .. n -> F!Vertices],
         \A m \in 1 .. n : input[w[m - 1]][w[m]] # F!INF
  PROVE  \E s : Runs(w, n, s)
<1> DEFINE T == {a \in 0 .. n : ~ \E s : Runs(w, a, s)}
<1>1. ASSUME NEW a \in T, \A b \in T : a <= b
      PROVE  FALSE
  <2>1. a \in 0 .. n /\ ~ \E s : Runs(w, a, s)
    OBVIOUS
  <2>2. CASE a = 0
    <3> DEFINE s == [m \in 0 .. 0 |-> 0]
    <3>1. Runs(w, 0, s)
      BY DEF Runs
    <3> QED BY <2>1, <2>2, <3>1
  <2>3. CASE a # 0
    <3> DEFINE e == input[w[a - 1]][w[a]]
    <3>1. a - 1 \in 0 .. n /\ a - 1 \notin T
      BY <1>1, <2>1, <2>3
    <3>2. PICK s : Runs(w, a - 1, s)
      BY <3>1
    <3>3. e \in Nat
      <4>1. a \in 1 .. n
        BY <2>1, <2>3
      <4>2. e \in F!Lengths /\ e # F!INF
        BY <3>1, <4>1 DEF F!Matrices
      <4> QED BY <4>2 DEF F!Lengths
    <3> DEFINE z == [m \in 0 .. a |-> IF m = a THEN s[a - 1] + e ELSE s[m]]
    <3>4. s \in [0 .. a - 1 -> Nat] /\ s[a - 1] \in Nat
      BY <2>1, <2>3, <3>2 DEF Runs
    <3> HIDE DEF e
    <3>5. /\ z \in [0 .. a -> Nat]
          /\ \A m \in 0 .. a - 1 : z[m] = s[m]
          /\ z[a] = s[a - 1] + e
      BY <2>1, <2>3, <3>3, <3>4
    <3> HIDE DEF z
    <3>6. ASSUME NEW m \in 1 .. a
          PROVE  z[m] = z[m - 1] + input[w[m - 1]][w[m]]
      <4>1. m - 1 \in 0 .. a - 1
        BY <2>1
      <4>2. z[m - 1] = s[m - 1]
        BY <3>5, <4>1
      <4>3. CASE m = a
        BY <3>5, <4>2, <4>3 DEF e
      <4>4. CASE m # a
        <5>1. m \in 1 .. a - 1 /\ m \in 0 .. a - 1
          BY <2>1, <4>4
        <5> QED BY <3>2, <3>5, <4>2, <5>1 DEF Runs
      <4> QED BY <4>3, <4>4
    <3>7. z[0] = 0
      BY <2>1, <2>3, <3>2, <3>5 DEF Runs
    <3>8. Runs(w, a, z)
      BY <3>5, <3>6, <3>7 DEF Runs
    <3> QED BY <2>1, <3>8
  <2> QED BY <2>2, <2>3
<1>2. T = {}
  <2>1. T \subseteq Nat
    OBVIOUS
  <2> HIDE DEF T
  <2> QED BY <1>1, <2>1, Least
<1>3. n \in 0 .. n
  OBVIOUS
<1> QED BY <1>2, <1>3

\* WayLength is the length up to the last place.
LEMMA RunsLength ==
  ASSUME NEW n \in Nat, NEW w, NEW s, Runs(w, n, s)
  PROVE  WayLength(w, n) = s[n]
<1> DEFINE F1(f) == [m \in 0 .. n |-> IF m = 0 THEN 0
                                      ELSE f[m - 1] + input[w[m - 1]][w[m]]]
           upto == CHOOSE f : f = F1(f)
<1>1. s = F1(s)
  <2>1. \A m \in 0 .. n : s[m] = IF m = 0 THEN 0 ELSE s[m - 1] + input[w[m - 1]][w[m]]
    BY DEF Runs
  <2>2. s \in [0 .. n -> Nat]
    BY DEF Runs
  <2> QED BY <2>1, <2>2
<1>2. upto = F1(upto)
  <2> HIDE DEF F1
  <2> QED BY <1>1
<1>3. WayLength(w, n) = upto[n]
  BY DEF WayLength
<1> HIDE DEF upto
<1> DEFINE T == {m \in 0 .. n : upto[m] # s[m]}
<1>4. ASSUME NEW m \in T, \A y \in T : m <= y
      PROVE  FALSE
  <2>1. m \in 0 .. n /\ upto[m] # s[m]
    OBVIOUS
  <2>2. upto[m] = IF m = 0 THEN 0 ELSE upto[m - 1] + input[w[m - 1]][w[m]]
    BY <1>2, <2>1
  <2>3. CASE m = 0
    BY <2>1, <2>2, <2>3 DEF Runs
  <2>4. CASE m # 0
    <3>1. m - 1 \in 0 .. n /\ m - 1 \notin T /\ m \in 1 .. n
      BY <1>4, <2>1, <2>4
    <3>2. upto[m - 1] = s[m - 1]
      BY <3>1
    <3>3. s[m] = s[m - 1] + input[w[m - 1]][w[m]]
      BY <3>1 DEF Runs
    <3> QED BY <2>1, <2>2, <2>4, <3>2, <3>3
  <2> QED BY <2>3, <2>4
<1>5. T = {}
  <2>1. T \subseteq Nat
    OBVIOUS
  <2> HIDE DEF T
  <2> QED BY <1>4, <2>1, Least
<1> QED BY <1>3, <1>5

LEMMA WayIsWalk ==
  ASSUME input \in F!Matrices, NEW u, NEW v, NEW n \in Nat \ {0}, NEW w \in Ways(u, v, n)
  PROVE  \E s : Walk(u, v, n, w, s) /\ WayLength(w, n) = s[n]
<1>1. /\ w \in [0 .. n -> F!Vertices] /\ w[0] = u /\ w[n] = v
      /\ \A m \in 1 .. n : input[w[m - 1]][w[m]] # F!INF
  BY SameVertices DEF Ways
<1>2. PICK s : Runs(w, n, s)
  BY <1>1, RunsExist
<1>3. WayLength(w, n) = s[n]
  BY <1>2, RunsLength
<1>4. Walk(u, v, n, w, s)
  BY <1>1, <1>2 DEF Walk, Runs
<1> QED BY <1>3, <1>4

LEMMA WalkIsWay ==
  ASSUME NEW u, NEW v, NEW n, NEW w, NEW s, Walk(u, v, n, w, s), Once(w, n)
  PROVE  w \in Ways(u, v, n) /\ WayLength(w, n) = s[n]
<1>1. n \in Nat /\ Runs(w, n, s)
  BY DEF Walk, Runs
<1>2. \A p, q \in 0 .. n : w[p] = w[q] => p = q \/ {p, q} = {0, n}
  BY DEF Once, Ends
<1>3. /\ w \in [0 .. n -> Vertices] /\ w[0] = u /\ w[n] = v
      /\ \A m \in 1 .. n : input[w[m - 1]][w[m]] # INF
  BY SameVertices DEF Walk
<1>4. w \in Ways(u, v, n)
  BY <1>2, <1>3 DEF Ways
<1> QED BY <1>1, <1>4, RunsLength

\* It has no more edges than there are nodes.
LEMMA OnceIsShort ==
  ASSUME FloydAssumption, NEW n \in Nat \ {0}, NEW w \in [0 .. n -> F!Vertices], Once(w, n)
  PROVE  n \in 1 .. Size
<1> SUFFICES ASSUME n > Size PROVE FALSE
  BY DEF FloydAssumption
<1> DEFINE f == [m \in 0 .. n - 1 |-> w[m]]
<1>1. f \in [0 .. n - 1 -> 0 .. Size - 1] /\ \A m \in 0 .. n - 1 : f[m] = w[m]
  BY DEF F!Vertices
<1>2. /\ IsFiniteSet(0 .. Size - 1) /\ Cardinality(0 .. Size - 1) = Size
      /\ IsFiniteSet(0 .. n - 1) /\ Cardinality(0 .. n - 1) = n
  <2>1. /\ 0 \in Int /\ Size - 1 \in Int /\ n - 1 \in Int
        /\ ~ (0 > Size - 1) /\ ~ (0 > n - 1)
        /\ Size - 1 - 0 + 1 = Size /\ n - 1 - 0 + 1 = n
    BY DEF FloydAssumption
  <2> QED BY <2>1, FS_Interval
<1>3. Cardinality(0 .. Size - 1) < Cardinality(0 .. n - 1)
  BY <1>2 DEF FloydAssumption
<1> HIDE DEF f
<1>4. \E p, q \in 0 .. n - 1 : p # q /\ f[p] = f[q]
  <2> DEFINE S == 0 .. n - 1
             T == 0 .. Size - 1
  <2>1. /\ IsFiniteSet(S) /\ IsFiniteSet(T) /\ Cardinality(T) < Cardinality(S)
        /\ f \in [S -> T]
    BY <1>1, <1>2, <1>3
  <2> HIDE DEF S, T
  <2>2. \E p, q \in S : p # q /\ f[p] = f[q]
    BY <2>1, FS_PigeonHole
  <2> QED BY <2>2 DEF S
<1>5. PICK p \in 0 .. n - 1, q \in 0 .. n - 1 : p # q /\ w[p] = w[q]
  BY <1>1, <1>4
<1>6. p \in 0 .. n /\ q \in 0 .. n /\ p # n /\ q # n
  BY <1>5
<1> QED BY <1>5, <1>6 DEF Once, Ends

-----------------------------------------------------------------------------
(* What is printed.                                                        *)

LEMMA NoWalkShorter ==
  ASSUME FloydAssumption, input \in F!Matrices, NEW d \in F!Matrices,
         F!Below(d, input), F!ClosedFor(d, Size),
         NEW u, NEW v, NEW n, NEW w, NEW s, Walk(u, v, n, w, s)
  PROVE  s[n] \in Nat /\ F!AtMost(d[u][v], s[n])
<1>1. /\ n \in Nat \ {0} /\ w \in [0 .. n -> F!Vertices]
      /\ w[0] = u /\ w[n] = v /\ s[0] = 0 /\ s[n] \in Nat
  BY DEF Walk
<1>2. Inner(w, n, Size)
  BY <1>1 DEF Inner, F!Vertices, FloydAssumption
<1>3. Size \in Nat /\ 0 \in 0 .. n - 1 /\ n \in 0 + 1 .. n
  BY <1>1 DEF FloydAssumption
<1>4. F!AtMost(d[w[0]][w[n]], s[n] - s[0])
  BY <1>2, <1>3, BelowWalk
<1>5. s[n] - s[0] = s[n]
  BY <1>1
<1> QED BY <1>1, <1>4, <1>5

\* Of all walks there are.
ShortestOf(l, L) == IF l = F!INF THEN L = {} ELSE l \in L /\ \A m \in L : l <= m

Printed == IInv /\ SInv /\ Travelled /\ k = Size

LEMMA PrintedFacts ==
  ASSUME Printed
  PROVE  /\ FloydAssumption /\ dist = start
         /\ start \in F!Matrices /\ input \in F!Matrices
         /\ F!Below(start, input) /\ F!ClosedFor(start, Size)
BY DEF Printed, IInv, Places, F!TypeOK, SInv

LEMMA WalksShortest ==
  ASSUME Printed, NEW u \in F!Vertices, NEW v \in F!Vertices
  PROVE  ShortestOf(dist[u][v], WalkLengths(u, v))
<1>1. \A l \in WalkLengths(u, v) : l \in Nat /\ F!AtMost(dist[u][v], l)
  BY PrintedFacts, NoWalkShorter DEF WalkLengths
<1>2. ASSUME dist[u][v] # F!INF PROVE dist[u][v] \in WalkLengths(u, v)
  <2>1. Simple(u, v, k, dist[u][v])
    BY <1>2, PrintedFacts DEF Printed, Travelled
  <2>2. dist[u][v] \in Nat
    BY <1>2, PrintedFacts DEF F!Matrices, F!Lengths
  <2> QED BY <2>1, <2>2 DEF Simple, WalkLengths
<1> QED BY <1>1, <1>2 DEF ShortestOf, F!AtMost, F!INF

LEMMA LengthOfWay ==
  ASSUME Printed, NEW u, NEW v, NEW l \in WayLengths(u, v)
  PROVE  l \in Nat /\ F!AtMost(dist[u][v], l)
<1>1. PICK n \in 1 .. Size : l \in {WayLength(w, n) : w \in Ways(u, v, n)}
  BY DEF WayLengths
<1>2. PICK w \in Ways(u, v, n) : l = WayLength(w, n)
  BY <1>1
<1>3. n \in Nat \ {0}
  BY <1>1
<1>4. PICK s : Walk(u, v, n, w, s) /\ WayLength(w, n) = s[n]
  BY <1>2, <1>3, PrintedFacts, WayIsWalk
<1> QED BY <1>2, <1>4, PrintedFacts, NoWalkShorter

LEMMA WaysShortest ==
  ASSUME Printed, NEW u \in F!Vertices, NEW v \in F!Vertices
  PROVE  ShortestOf(dist[u][v], WayLengths(u, v))
<1>1. \A l \in WayLengths(u, v) : l \in Nat /\ F!AtMost(dist[u][v], l)
  BY LengthOfWay
<1>2. ASSUME dist[u][v] # F!INF PROVE dist[u][v] \in WayLengths(u, v)
  <2>1. PICK n, w, s : Walk(u, v, n, w, s) /\ s[n] = dist[u][v] /\ Once(w, n)
    BY <1>2, PrintedFacts DEF Printed, Travelled, Simple
  <2>2. n \in 1 .. Size
    BY <2>1, PrintedFacts, OnceIsShort DEF Walk
  <2>3. w \in Ways(u, v, n) /\ WayLength(w, n) = s[n]
    BY <2>1, WalkIsWay
  <2> QED BY <2>1, <2>2, <2>3 DEF WayLengths
<1> QED BY <1>1, <1>2 DEF ShortestOf, F!AtMost, F!INF

LEMMA MinIs ==
  ASSUME NEW L, L \subseteq Nat, NEW l, ShortestOf(l, L)
  PROVE  l = IF L = {} THEN INF ELSE Min(L)
<1>1. CASE l = F!INF
  BY <1>1, SameVertices DEF ShortestOf
<1>2. CASE l # F!INF
  <2>1. l \in L /\ \A m \in L : l <= m
    BY <1>2 DEF ShortestOf
  <2>2. \A x \in L : (\A m \in L : x <= m) => x = l
    BY <2>1
  <2>3. Min(L) = l
    BY <2>1, <2>2 DEF Min
  <2> QED BY <2>1, <2>3
<1> QED BY <1>1, <1>2

LEMMA PrintedWays == Printed => IsShortest
<1> SUFFICES ASSUME Printed, NEW u \in Vertices, NEW v \in Vertices
             PROVE  dist[u][v] = IF WayLengths(u, v) = {} THEN INF ELSE Min(WayLengths(u, v))
  BY DEF IsShortest, Printed
<1>1. ShortestOf(dist[u][v], WayLengths(u, v))
  BY SameVertices, WaysShortest
<1>2. WayLengths(u, v) \subseteq Nat
  BY LengthOfWay
<1> QED BY <1>1, <1>2, MinIs

LEMMA PrintedAlways == FloydAssumption /\ F!Spec => [](k = Size => Printed)
<1>1. IInv /\ SInv /\ Travelled /\ [F!Next]_(F!vars) => Travelled'
  BY StepTravelled
<1>2. IInv /\ SInv /\ Travelled => (k = Size => Printed)
  BY DEF Printed
<1> QED BY <1>1, <1>2, InitTravelled, Invariants, PTL DEF F!Spec

\* What the program prints are the lengths of the shortest ways in the graph it
\* has read, and -1 where there is none, for any number of nodes and any weights
\* (updateDist and the two loops of main).
THEOREM PrintsShortestWays == FloydAssumption /\ F!Spec => []IsShortest
<1>1. (k = Size => Printed) => IsShortest
  BY PrintedWays DEF IsShortest
<1> QED BY <1>1, PrintedAlways, PTL

\* Nor is a walk shorter that comes to nodes again, and where -1 is printed there
\* is not even a walk.
THEOREM NoWalkIsShorter ==
  FloydAssumption /\ F!Spec =>
    [](k = Size => \A u, v \in F!Vertices : ShortestOf(dist[u][v], WalkLengths(u, v)))
<1>1. (k = Size => Printed) =>
        (k = Size => \A u, v \in F!Vertices : ShortestOf(dist[u][v], WalkLengths(u, v)))
  BY WalksShortest
<1> QED BY <1>1, PrintedAlways, PTL
-----------------------------------------------------------------------------
(* Gossip.                                                                 *)

USE GraphAssumption, CapAssumption

-----------------------------------------------------------------------------
(* The graph and the bags.                                                 *)

\* The neighbour a node is at is one, in both directions.
LEMMA NbrIsEdge ==
  ASSUME TypeOK, NEW n \in Nodes, HasNbr(n)
  PROVE  /\ i[n] \in 1 .. Len(Nbrs[n])
         /\ Nbr(n) \in Nodes
         /\ Nbr(n) # n
         /\ <<n, Nbr(n)>> \in Edges
         /\ <<Nbr(n), n>> \in Edges
<1>1. i[n] \in 1 .. Len(Nbrs[n])
  BY DEF TypeOK, HasNbr
<1>2. Nbr(n) \in Nodes
  BY <1>1 DEF Nbr
<1>3. IsNbr(n, Nbr(n))
  BY <1>1 DEF IsNbr, Nbr
<1> QED
  BY <1>1, <1>2, <1>3 DEF Edges

LEMMA BagTypes ==
  /\ None \in Copies
  /\ \A n \in Nodes : [None EXCEPT ![n] = 1] \in Copies
  /\ In(None) = {}
  /\ \A n \in Nodes : In([None EXCEPT ![n] = 1]) = {n}
BY DEF None, Copies, In

LEMMA AddedIs ==
  ASSUME TypeOK, NEW n \in Nodes, NEW msg \in Copies
  PROVE  /\ Added(n, msg) \in Copies
         /\ total[n] \cup In(Added(n, msg)) = total[n] \cup In(current[n]) \cup In(msg)
<1>1. Added(n, msg) \in Copies
  BY DEF Added, Copies, TypeOK
<1>2. ASSUME NEW x \in Nodes, x \notin total[n]
      PROVE  Added(n, msg)[x] > 0 <=> current[n][x] > 0 \/ msg[x] > 0
  BY <1>2 DEF Added, Copies, TypeOK
<1> QED
  BY <1>1, <1>2 DEF In

-----------------------------------------------------------------------------
(* Types.                                                                  *)

\* While a node reads there is a neighbour to read from.
Reading == \A n \in Nodes : at[n] = "read" => HasNbr(n)

LEMMA ListTypes ==
  \A n \in Nodes : Nbrs[n] \in Seq(Nodes) /\ Len(Nbrs[n]) \in Nat
OBVIOUS

LEMMA TypesAtInit == Init => TypeOK /\ Reading
<1> SUFFICES ASSUME Init PROVE TypeOK /\ Reading
  OBVIOUS
<1>1. current \in [Nodes -> Copies]
  BY BagTypes DEF Init
<1>2. pipe \in [Edges -> Seq(Copies)]
  BY DEF Init
<1>3. aborted \in BOOLEAN
  BY Zenon DEF Init
<1>4. /\ at \in [Nodes -> {"write", "read", "ended"}]
      /\ i \in [Nodes -> Nat \ {0}]
      /\ total \in [Nodes -> SUBSET Nodes]
      /\ master \in 1 .. N + 1
  BY DEF Init
<1>5. Reading
  BY DEF Init, Reading
<1> QED
  BY <1>1, <1>2, <1>3, <1>4, <1>5 DEF TypeOK

LEMMA GotoTypes ==
  ASSUME TypeOK, NEW n \in Nodes, NEW to \in {"write", "read", "ended"}, Goto(n, to)
  PROVE  /\ at' \in [Nodes -> {"write", "read", "ended"}]
         /\ i' \in [Nodes -> Nat \ {0}]
         /\ at'[n] = to /\ i'[n] = 1
         /\ \A m \in Nodes \ {n} : at'[m] = at[m] /\ i'[m] = i[m]
BY DEF Goto, TypeOK

LEMMA MasterTypes ==
  ASSUME TypeOK, UNCHANGED <<master, aborted>>
  PROVE  master' \in 1 .. N + 1 /\ aborted' \in BOOLEAN
BY Zenon DEF TypeOK

LEMMA OnwardTypes ==
  ASSUME TypeOK, Reading, NEW n \in Nodes, at[n] = "read", Onward(n)
  PROVE  /\ at' \in [Nodes -> {"write", "read", "ended"}]
         /\ i' \in [Nodes -> Nat \ {0}]
         /\ at'[n] = "read" => i'[n] <= Len(Nbrs[n])
         /\ \A m \in Nodes \ {n} : at'[m] = at[m] /\ i'[m] = i[m]
         /\ at'[n] = "write" => i'[n] = 1
<1>1. CASE i[n] < Len(Nbrs[n])
  <2>1. i' = [i EXCEPT ![n] = @ + 1] /\ at' = at
    BY <1>1 DEF Onward
  <2> QED
    BY <1>1, <2>1, ListTypes DEF TypeOK
<1>2. CASE ~ i[n] < Len(Nbrs[n])
  BY <1>2, GotoTypes DEF Onward, EndRound
<1> QED
  BY <1>1, <1>2

LEMMA TypesKept ==
  ASSUME TypeOK, Reading, [Next]_vars
  PROVE  TypeOK' /\ Reading'
<1>1. CASE UNCHANGED vars
  <2>1. TypeOK'
    BY <1>1 DEF vars, TypeOK
  <2>2. Reading'
    BY <1>1 DEF vars, Reading, HasNbr
  <2> QED
    BY <2>1, <2>2
<1>2. CASE Verify
  <2>1. master' \in 1 .. N + 1
    BY <1>2 DEF Verify, TypeOK
  <2>2. aborted' \in BOOLEAN
    BY <1>2, Zenon DEF Verify, TypeOK
  <2>3. UNCHANGED <<at, i, current, total, pipe>>
    BY <1>2 DEF Verify
  <2> QED
    BY <2>1, <2>2, <2>3 DEF TypeOK, Reading, HasNbr
<1>3. ASSUME NEW n \in Nodes, Write(n) PROVE TypeOK' /\ Reading'
  <2>1. <<n, Nbr(n)>> \in Edges
    BY <1>3, NbrIsEdge DEF Write
  <2>2. pipe' \in [Edges -> Seq(Copies)]
    BY <1>3, <2>1 DEF Write, TypeOK
  <2>3. i' \in [Nodes -> Nat \ {0}]
    BY <1>3 DEF Write, TypeOK
  <2>4. TypeOK'
    BY <1>3, <2>2, <2>3, MasterTypes DEF Write, TypeOK
  <2>5. Reading'
    BY <1>3 DEF Write, TypeOK, Reading, HasNbr
  <2> QED
    BY <2>4, <2>5
<1>4. ASSUME NEW n \in Nodes, Fold(n) PROVE TypeOK' /\ Reading'
  <2>1. current' \in [Nodes -> Copies] /\ total' \in [Nodes -> SUBSET Nodes]
    BY <1>4, BagTypes DEF Fold, TypeOK, In
  <2>2. PICK to \in {"write", "read", "ended"} :
          Goto(n, to) /\ (to = "read" => Nbrs[n] # <<>>)
    BY <1>4 DEF Fold, EndRound
  <2>3. TypeOK'
    <3>1. UNCHANGED <<pipe, master, aborted>>
      BY <1>4 DEF Fold
    <3> QED
      BY <2>1, <2>2, <3>1, GotoTypes, MasterTypes DEF TypeOK
  <2>4. to = "read" => 1 <= Len(Nbrs[n])
    BY <2>2, ListTypes
  <2>5. Reading'
    BY <2>2, <2>4, GotoTypes DEF Reading, HasNbr
  <2> QED
    BY <2>3, <2>5
<1>5. ASSUME NEW n \in Nodes, ReadNothing(n) PROVE TypeOK' /\ Reading'
  <2>0. /\ UNCHANGED <<current, total, pipe, master, aborted>>
        /\ at' \in [Nodes -> {"write", "read", "ended"}]
        /\ i' \in [Nodes -> Nat \ {0}]
    BY <1>5, OnwardTypes DEF ReadNothing
  <2>1. TypeOK'
    BY <2>0, MasterTypes DEF TypeOK
  <2>2. Reading'
    BY <1>5, OnwardTypes DEF ReadNothing, Reading, HasNbr
  <2> QED
    BY <2>1, <2>2
<1>6. ASSUME NEW n \in Nodes, Read(n) PROVE TypeOK' /\ Reading'
  <2>1. <<Nbr(n), n>> \in Edges
    BY <1>6, NbrIsEdge DEF Read, Reading
  <2>2. Head(pipe[<<Nbr(n), n>>]) \in Copies /\ pipe' \in [Edges -> Seq(Copies)]
    BY <1>6, <2>1 DEF Read, TypeOK
  <2>3. current' \in [Nodes -> Copies]
    BY <1>6, <2>2, AddedIs DEF Read, TypeOK
  <2>4. TypeOK'
    BY <1>6, <2>2, <2>3, OnwardTypes, MasterTypes DEF Read, TypeOK
  <2>5. Reading'
    BY <1>6, OnwardTypes DEF Read, Reading, HasNbr
  <2> QED
    BY <2>4, <2>5
<1> QED
  BY <1>1, <1>2, <1>3, <1>4, <1>5, <1>6 DEF Next, Node

\* Every variable keeps its type.
THEOREM TypeCorrect == Spec => [](TypeOK /\ Reading)
BY TypesAtInit, TypesKept, PTL DEF Spec

-----------------------------------------------------------------------------
(* No value is lost.  PassedOn is about what a node has in total; a node   *)
(* copies its current there once it is written to all neighbours, so that  *)
(* the invariant is also about those it is written to already.             *)

\* Node n has written current to its neighbour m in this round.
Given(n, m) ==
  at[n] = "write" /\ \E h \in 1 .. Len(Nbrs[n]) : h < i[n] /\ Nbrs[n][h] = m

\* m has the value x, or will read it from n.
Has(x, n, m) == x \in total[m] \/ x \in In(current[m]) \/ UnderWay(x, n, m)

Delivered ==
  \A n, m, x \in Nodes :
    /\ <<n, m>> \in Edges
    /\ x \in total[n] \/ (Given(n, m) /\ x \in In(current[n]))
    => Has(x, n, m)

\* A value that a neighbour has or will read stays one.
HasStays ==
  \A n, m, x \in Nodes : <<n, m>> \in Edges /\ Has(x, n, m) => Has(x, n, m)'

LEMMA WriteKeeps ==
  ASSUME TypeOK, NEW p \in Nodes, Write(p), NEW q \in Nodes, q = Nbr(p)
  PROVE  /\ HasStays
         /\ \A x \in In(current[p]) : Has(x, p, q)'
<1>1. <<p, q>> \in Edges
  BY NbrIsEdge DEF Write
<1>2. pipe'[<<p, q>>] = Append(pipe[<<p, q>>], current[p])
  BY <1>1 DEF Write, TypeOK
<1>3. \A e \in Edges : e # <<p, q>> => pipe'[e] = pipe[e]
  BY <1>1 DEF Write, TypeOK
<1>4. ASSUME NEW n \in Nodes, NEW m \in Nodes, NEW x \in Nodes,
             <<n, m>> \in Edges, UnderWay(x, n, m)
      PROVE  UnderWay(x, n, m)'
  <2>1. pipe[<<n, m>>] \in Seq(Copies)
    BY <1>4 DEF TypeOK
  <2>2. CASE <<n, m>> = <<p, q>>
    <3>1. PICK h \in 1 .. Len(pipe[<<n, m>>]) : pipe[<<n, m>>][h][x] > 0
      BY <1>4 DEF UnderWay
    <3>2. current[p] \in Copies
      BY DEF TypeOK
    <3>3. pipe'[<<n, m>>] = Append(pipe[<<n, m>>], current[p])
      BY <1>2, <2>2
    <3>4. /\ pipe'[<<n, m>>][h] = pipe[<<n, m>>][h]
          /\ h \in 1 .. Len(pipe'[<<n, m>>])
      BY <2>1, <3>1, <3>2, <3>3
    <3> QED
      BY <3>1, <3>4 DEF UnderWay
  <2>3. CASE <<n, m>> # <<p, q>>
    BY <1>3, <1>4, <2>3 DEF UnderWay
  <2> QED
    BY <2>2, <2>3
<1>5. HasStays
  BY <1>4 DEF HasStays, Has, Write, In
<1>6. ASSUME NEW x \in In(current[p]) PROVE UnderWay(x, p, q)'
  <2>1. /\ pipe[<<p, q>>] \in Seq(Copies)
        /\ current[p] \in Copies /\ x \in Nodes /\ current[p][x] > 0
    BY <1>1 DEF TypeOK, In
  <2> DEFINE h == Len(pipe[<<p, q>>]) + 1
  <2>2. /\ h \in 1 .. Len(pipe'[<<p, q>>])
        /\ pipe'[<<p, q>>][h] = current[p]
    BY <1>2, <2>1
  <2>3. pipe'[<<p, q>>][h][x] > 0
    BY <2>1, <2>2
  <2> QED
    BY <2>2, <2>3 DEF UnderWay
<1> QED
  BY <1>5, <1>6 DEF Has

LEMMA FoldKeeps ==
  ASSUME TypeOK, NEW p \in Nodes, Fold(p)
  PROVE  /\ HasStays
         /\ total'[p] = total[p] \cup In(current[p])
<1>1. /\ total'[p] = total[p] \cup In(current[p])
      /\ \A m \in Nodes \ {p} : total'[m] = total[m] /\ current'[m] = current[m]
      /\ pipe' = pipe
  BY DEF Fold, TypeOK
<1>2. ASSUME NEW n \in Nodes, NEW m \in Nodes, NEW x \in Nodes,
             <<n, m>> \in Edges, Has(x, n, m)
      PROVE  Has(x, n, m)'
  <2>1. CASE UnderWay(x, n, m)
    BY <1>1, <2>1 DEF Has, UnderWay
  <2>2. CASE m # p /\ ~ UnderWay(x, n, m)
    BY <1>1, <1>2, <2>2 DEF Has, In
  <2>3. CASE m = p /\ ~ UnderWay(x, n, m)
    BY <1>1, <1>2, <2>3 DEF Has
  <2> QED
    BY <2>1, <2>2, <2>3
<1> QED
  BY <1>1, <1>2 DEF HasStays

LEMMA ReadKeeps ==
  ASSUME TypeOK, Reading, NEW p \in Nodes, Read(p)
  PROVE  HasStays
<1> DEFINE q == Nbr(p)
<1>1. q \in Nodes /\ <<q, p>> \in Edges
  BY NbrIsEdge DEF Read, Reading
<1>2. /\ pipe[<<q, p>>] \in Seq(Copies) /\ pipe[<<q, p>>] # <<>>
      /\ pipe'[<<q, p>>] = Tail(pipe[<<q, p>>])
      /\ \A e \in Edges : e # <<q, p>> => pipe'[e] = pipe[e]
  BY <1>1 DEF Read, TypeOK
<1> DEFINE msg == Head(pipe[<<q, p>>])
<1>3. msg \in Copies
  BY <1>2
<1>4. /\ total' = total
      /\ current'[p] = Added(p, msg)
      /\ \A m \in Nodes \ {p} : current'[m] = current[m]
  BY DEF Read, TypeOK
<1>5. total[p] \cup In(current'[p]) = total[p] \cup In(current[p]) \cup In(msg)
  BY <1>3, <1>4, AddedIs
<1> HIDE DEF q, msg
<1>6. ASSUME NEW n \in Nodes, NEW m \in Nodes, NEW x \in Nodes,
             <<n, m>> \in Edges, Has(x, n, m)
      PROVE  Has(x, n, m)'
  <2>1. CASE x \in total[m] \/ x \in In(current[m])
    BY <1>4, <1>5, <2>1 DEF Has, In
  <2>2. CASE UnderWay(x, n, m) /\ <<n, m>> # <<q, p>>
    BY <1>2, <1>6, <2>2 DEF Has, UnderWay
  <2>3. CASE UnderWay(x, n, m) /\ <<n, m>> = <<q, p>>
    <3>1. PICK h \in 1 .. Len(pipe[<<q, p>>]) : pipe[<<q, p>>][h][x] > 0
      BY <2>3 DEF UnderWay
    <3>2. CASE h = 1
      <4>1. x \in In(msg)
        BY <1>2, <3>1, <3>2 DEF In, msg
      <4> QED
        BY <1>4, <1>5, <2>3, <4>1 DEF Has, In
    <3>3. CASE h # 1
      <4>1. /\ h - 1 \in 1 .. Len(pipe'[<<q, p>>])
            /\ pipe'[<<q, p>>][h - 1] = pipe[<<q, p>>][h]
        BY <1>2, <3>1, <3>3
      <4> QED
        BY <2>3, <3>1, <4>1 DEF Has, UnderWay
    <3> QED
      BY <3>2, <3>3
  <2> QED
    BY <1>6, <2>1, <2>2, <2>3 DEF Has
<1> QED
  BY <1>6 DEF HasStays

LEMMA DeliveredKept ==
  ASSUME TypeOK, Reading, TypeOK', Delivered, [Next]_vars
  PROVE  Delivered'
<1>1. ASSUME UNCHANGED <<total, current, pipe>>
      PROVE  HasStays
  BY <1>1 DEF HasStays, Has, UnderWay, In
<1>2. CASE UNCHANGED vars \/ Verify
  <2>1. UNCHANGED <<at, i, total, current, pipe>>
    BY <1>2 DEF vars, Verify
  <2> QED
    BY <2>1 DEF Delivered, Given, Has, UnderWay, In
<1>3. ASSUME NEW p \in Nodes, Write(p) PROVE Delivered'
  <2>1. PICK q \in Nodes : q = Nbr(p)
    BY <1>3, NbrIsEdge DEF Write
  <2>2. /\ HasStays
        /\ \A x \in In(current[p]) : Has(x, p, q)'
    BY <1>3, <2>1, WriteKeeps
  <2>3. UNCHANGED <<at, total, current>> /\ i' = [i EXCEPT ![p] = @ + 1]
    BY <1>3 DEF Write
  <2>4. ASSUME NEW n \in Nodes, NEW m \in Nodes, Given(n, m)', n # p \/ m # q
        PROVE  Given(n, m)
    <3>1. PICK h \in 1 .. Len(Nbrs[n]) : h < i'[n] /\ Nbrs[n][h] = m
      BY <2>4 DEF Given
    <3>2. at[n] = "write"
      BY <2>3, <2>4 DEF Given
    <3>3. h < i[n]
      <4>1. CASE n # p
        BY <2>3, <3>1, <4>1 DEF TypeOK
      <4>2. CASE n = p /\ m # q
        BY <2>1, <2>3, <3>1, <4>2, ListTypes DEF TypeOK, Nbr
      <4> QED
        BY <2>4, <4>1, <4>2
    <3> QED
      BY <3>1, <3>2, <3>3 DEF Given
  <2> SUFFICES ASSUME NEW n \in Nodes, NEW m \in Nodes, NEW x \in Nodes,
                      <<n, m>> \in Edges,
                      x \in total[n]' \/ (Given(n, m)' /\ x \in In(current[n])')
               PROVE  Has(x, n, m)'
    BY DEF Delivered
  <2>5. CASE x \in total[n] \/ (Given(n, m) /\ x \in In(current[n]))
    BY <2>2, <2>5 DEF Delivered, HasStays
  <2>6. CASE n = p /\ m = q /\ x \in In(current[p])
    BY <2>2, <2>6
  <2>7. In(current[n])' = In(current[n])
    BY <2>3 DEF In
  <2> QED
    BY <2>3, <2>4, <2>5, <2>6, <2>7
<1>4. ASSUME NEW p \in Nodes, Fold(p) PROVE Delivered'
  <2>1. HasStays /\ total'[p] = total[p] \cup In(current[p])
    BY <1>4, FoldKeeps
  <2>2. /\ at'[p] # "write" \/ i'[p] = 1
        /\ \A n \in Nodes \ {p} :
             /\ at'[n] = at[n] /\ i'[n] = i[n]
             /\ total'[n] = total[n] /\ current'[n] = current[n]
    BY <1>4 DEF Fold, EndRound, Goto, TypeOK
  <2>5. \A m \in Nodes : <<p, m>> \in Edges => Given(p, m)
    <3> SUFFICES ASSUME NEW m \in Nodes, <<p, m>> \in Edges
                 PROVE  Given(p, m)
      OBVIOUS
    <3>1. PICK h \in 1 .. Len(Nbrs[p]) : Nbrs[p][h] = m
      BY DEF Edges, IsNbr
    <3>2. at[p] = "write" /\ h < i[p]
      BY <1>4, <3>1, ListTypes DEF Fold, HasNbr, TypeOK
    <3> QED
      BY <3>1, <3>2 DEF Given
  <2> SUFFICES ASSUME NEW n \in Nodes, NEW m \in Nodes, NEW x \in Nodes,
                      <<n, m>> \in Edges,
                      x \in total[n]' \/ (Given(n, m)' /\ x \in In(current[n])')
               PROVE  Has(x, n, m)'
    BY DEF Delivered
  <2>6. x \in total[n] \/ (Given(n, m) /\ x \in In(current[n]))
    <3>1. CASE n = p
      <4>1. ~ Given(n, m)'
        BY <2>2, <3>1, ListTypes DEF Given
      <4> QED
        BY <2>1, <2>5, <3>1, <4>1
    <3>2. CASE n # p
      BY <2>2, <3>2 DEF Given, In
    <3> QED
      BY <3>1, <3>2
  <2> QED
    BY <2>1, <2>6 DEF Delivered, HasStays
<1>5. ASSUME NEW p \in Nodes, ReadNothing(p) \/ Read(p) PROVE Delivered'
  <2>1. HasStays
    BY <1>1, <1>5, ReadKeeps DEF ReadNothing
  <2>2. /\ UNCHANGED total
        /\ \A n \in Nodes \ {p} : current'[n] = current[n]
        /\ at[p] = "read" /\ Onward(p)
    BY <1>5 DEF ReadNothing, Read, TypeOK
  <2>3. /\ at'[p] # "write" \/ i'[p] = 1
        /\ \A n \in Nodes \ {p} : at'[n] = at[n] /\ i'[n] = i[n]
    BY <2>2, OnwardTypes
  <2> SUFFICES ASSUME NEW n \in Nodes, NEW m \in Nodes, NEW x \in Nodes,
                      <<n, m>> \in Edges,
                      x \in total[n]' \/ (Given(n, m)' /\ x \in In(current[n])')
               PROVE  Has(x, n, m)'
    BY DEF Delivered
  <2>6. x \in total[n] \/ (Given(n, m) /\ x \in In(current[n]))
    <3>1. CASE n = p
      <4>1. ~ Given(n, m)'
        BY <2>3, <3>1, ListTypes DEF Given
      <4> QED
        BY <2>2, <4>1
    <3>2. CASE n # p
      BY <2>2, <2>3, <3>2 DEF Given, In
    <3> QED
      BY <3>1, <3>2
  <2> QED
    BY <2>1, <2>6 DEF Delivered, HasStays
<1> QED
  BY <1>2, <1>3, <1>4, <1>5 DEF Next, Node

LEMMA DeliveredAtInit == Init => Delivered
BY DEF Init, Delivered, Given

\* A node that ends, which never reads or writes again, has left none of its
\* neighbours without a value: what it has is there, or in the pipe.
THEOREM NothingIsLost == Spec => []PassedOn
<1>1. TypeOK /\ Delivered => PassedOn
  <2> SUFFICES ASSUME TypeOK, Delivered, NEW e \in Edges, NEW x \in total[e[1]]
               PROVE  Has(x, e[1], e[2])
    BY DEF PassedOn, Has
  <2>1. PICK n \in Nodes, m \in Nodes : e = <<n, m>>
    BY DEF Edges
  <2>2. /\ x \in Nodes /\ x \in total[n] /\ e[1] = n /\ e[2] = m
        /\ <<n, m>> \in Edges
    BY <2>1 DEF TypeOK
  <2>3. Has(x, n, m)
    BY <2>1, <2>2 DEF Delivered
  <2> QED
    BY <2>2, <2>3
<1> QED
  BY <1>1, TypeCorrect, DeliveredAtInit, DeliveredKept, PTL DEF Spec

-----------------------------------------------------------------------------
(* The nodes do what Spreading says: what is in a message has been seen by *)
(* its sender, so that reading it is a step Learn, and any other a stutter. *)

Known(n) == total[n] \cup In(current[n])

Honest ==
  \A e \in Edges : \A h \in 1 .. Len(pipe[e]) : In(pipe[e][h]) \subseteq Known(e[1])

LEMMA KnownStays ==
  ASSUME TypeOK, Reading, NEW p \in Nodes, Write(p) \/ Fold(p) \/ ReadNothing(p)
  PROVE  \A n \in Nodes : Known(n)' = Known(n)
<1>1. CASE Write(p) \/ ReadNothing(p)
  BY <1>1 DEF Write, ReadNothing, Known, In
<1>2. CASE Fold(p)
  <2>1. /\ total'[p] = total[p] \cup In(current[p])
        /\ current'[p] = None
        /\ \A n \in Nodes \ {p} : total'[n] = total[n] /\ current'[n] = current[n]
    BY <1>2 DEF Fold, TypeOK
  <2>2. In(current'[p]) = {}
    BY <2>1, BagTypes
  <2>3. Known(p)' = Known(p)
    BY <2>1, <2>2 DEF Known, In
  <2>4. \A n \in Nodes \ {p} : Known(n)' = Known(n)
    BY <2>1 DEF Known, In
  <2> QED
    BY <2>3, <2>4
<1> QED
  BY <1>1, <1>2

LEMMA ReadLearns ==
  ASSUME TypeOK, Reading, NEW p \in Nodes, Read(p), NEW q \in Nodes, q = Nbr(p)
  PROVE  /\ <<q, p>> \in Edges
         /\ pipe[<<q, p>>] \in Seq(Copies) /\ pipe[<<q, p>>] # <<>>
         /\ pipe'[<<q, p>>] = Tail(pipe[<<q, p>>])
         /\ \A e \in Edges : e # <<q, p>> => pipe'[e] = pipe[e]
         /\ Known(p)' = Known(p) \cup In(Head(pipe[<<q, p>>]))
         /\ \A n \in Nodes \ {p} : Known(n)' = Known(n)
<1>1. <<q, p>> \in Edges
  BY NbrIsEdge DEF Read, Reading
<1>2. /\ pipe[<<q, p>>] \in Seq(Copies) /\ pipe[<<q, p>>] # <<>>
      /\ pipe'[<<q, p>>] = Tail(pipe[<<q, p>>])
      /\ \A e \in Edges : e # <<q, p>> => pipe'[e] = pipe[e]
  BY <1>1 DEF Read, TypeOK
<1>3. Head(pipe[<<q, p>>]) \in Copies
  BY <1>2
<1>4. /\ total' = total
      /\ current'[p] = Added(p, Head(pipe[<<q, p>>]))
      /\ \A n \in Nodes \ {p} : current'[n] = current[n]
  BY DEF Read, TypeOK
<1>5. total[p] \cup In(current'[p]) = Known(p) \cup In(Head(pipe[<<q, p>>]))
  BY <1>3, <1>4, AddedIs DEF Known
<1>6. Known(p)' = Known(p) \cup In(Head(pipe[<<q, p>>]))
  BY <1>4, <1>5 DEF Known, In
<1>7. \A n \in Nodes \ {p} : Known(n)' = Known(n)
  BY <1>4 DEF Known, In
<1> QED
  BY <1>1, <1>2, <1>6, <1>7

LEMMA HonestKept ==
  ASSUME TypeOK, Reading, Honest, [Next]_vars
  PROVE  Honest'
<1>1. CASE UNCHANGED vars \/ Verify
  <2>1. UNCHANGED <<total, current, pipe>>
    BY <1>1 DEF vars, Verify
  <2> QED
    BY <2>1 DEF Honest, Known, In
<1>2. ASSUME NEW p \in Nodes, Fold(p) \/ ReadNothing(p) PROVE Honest'
  <2>1. pipe' = pipe /\ \A n \in Nodes : Known(n)' = Known(n)
    BY <1>2, KnownStays DEF Fold, ReadNothing
  <2> SUFFICES ASSUME NEW e \in Edges, NEW h \in 1 .. Len(pipe'[e])
               PROVE  In(pipe'[e][h]) \subseteq Known(e[1])'
    BY DEF Honest, In
  <2>2. e[1] \in Nodes
    BY DEF Edges
  <2>3. In(pipe'[e][h]) \subseteq Known(e[1])
    BY <2>1 DEF Honest
  <2> QED
    BY <2>1, <2>2, <2>3
<1>3. ASSUME NEW p \in Nodes, Write(p) PROVE Honest'
  <2>1. PICK q \in Nodes : q = Nbr(p) /\ <<p, q>> \in Edges
    BY <1>3, NbrIsEdge DEF Write
  <2>2. /\ pipe[<<p, q>>] \in Seq(Copies) /\ current[p] \in Copies
        /\ pipe'[<<p, q>>] = Append(pipe[<<p, q>>], current[p])
        /\ \A e \in Edges : e # <<p, q>> => pipe'[e] = pipe[e]
    BY <1>3, <2>1 DEF Write, TypeOK
  <2>3. \A n \in Nodes : Known(n)' = Known(n)
    BY <1>3, KnownStays
  <2> SUFFICES ASSUME NEW e \in Edges, NEW h \in 1 .. Len(pipe'[e])
               PROVE  In(pipe'[e][h]) \subseteq Known(e[1])'
    BY DEF Honest, In
  <2>4. e[1] \in Nodes
    BY DEF Edges
  <2>5. In(pipe'[e][h]) \subseteq Known(e[1])
    <3>1. CASE e # <<p, q>>
      BY <2>2, <3>1 DEF Honest
    <3>2. CASE e = <<p, q>> /\ h <= Len(pipe[e])
      <4>0. /\ pipe[e] \in Seq(Copies) /\ current[p] \in Copies
            /\ pipe'[e] = Append(pipe[e], current[p])
        BY <2>2, <3>2
      <4>1. h \in 1 .. Len(pipe[e]) /\ pipe'[e][h] = pipe[e][h]
        BY <3>2, <4>0
      <4> QED
        BY <4>1 DEF Honest
    <3>3. CASE e = <<p, q>> /\ ~ h <= Len(pipe[e])
      <4>1. pipe'[e][h] = current[p]
        BY <2>2, <3>3
      <4> QED
        BY <3>3, <4>1 DEF Known
    <3> QED
      BY <3>1, <3>2, <3>3
  <2> QED
    BY <2>3, <2>4, <2>5
<1>4. ASSUME NEW p \in Nodes, Read(p) PROVE Honest'
  <2>1. PICK q \in Nodes : q = Nbr(p)
    BY <1>4, NbrIsEdge DEF Read, Reading
  <2>2. /\ <<q, p>> \in Edges
        /\ pipe[<<q, p>>] \in Seq(Copies) /\ pipe[<<q, p>>] # <<>>
        /\ pipe'[<<q, p>>] = Tail(pipe[<<q, p>>])
        /\ \A e \in Edges : e # <<q, p>> => pipe'[e] = pipe[e]
        /\ \A n \in Nodes : Known(n) \subseteq Known(n)'
    BY <1>4, <2>1, ReadLearns
  <2> SUFFICES ASSUME NEW e \in Edges, NEW h \in 1 .. Len(pipe'[e])
               PROVE  In(pipe'[e][h]) \subseteq Known(e[1])'
    BY DEF Honest, In
  <2>3. e[1] \in Nodes
    BY DEF Edges
  <2>4. In(pipe'[e][h]) \subseteq Known(e[1])
    <3>1. CASE e # <<q, p>>
      BY <2>2, <3>1 DEF Honest
    <3>2. CASE e = <<q, p>>
      <4>0. pipe[e] \in Seq(Copies) /\ pipe[e] # <<>> /\ pipe'[e] = Tail(pipe[e])
        BY <2>2, <3>2
      <4>1. h + 1 \in 1 .. Len(pipe[e]) /\ pipe'[e][h] = pipe[e][h + 1]
        BY <4>0
      <4> QED
        BY <4>1 DEF Honest
    <3> QED
      BY <3>1, <3>2
  <2> QED
    BY <2>2, <2>3, <2>4
<1> QED
  BY <1>1, <1>2, <1>3, <1>4 DEF Next, Node

LEMMA HonestAtInit == Init => Honest
BY DEF Init, Honest

LEMMA StartsAsSpreading == Init => Values!Init
<1> SUFFICES ASSUME Init PROVE Values!Init
  OBVIOUS
<1>1. \A n \in Nodes : total[n] \cup In(current[n]) = {n}
  BY BagTypes DEF Init
<1> QED
  BY <1>1 DEF Values!Init, Values!Nodes, Nodes


LEMMA SameGraph == Values!Nodes = Nodes /\ Values!Edges = Edges
BY DEF Values!Nodes, Nodes, Values!Edges, Edges, Values!IsNbr, IsNbr

LEMMA StepsAsSpreading ==
  ASSUME TypeOK, Reading, Honest, [Next]_vars
  PROVE  [Values!Next]_([n \in Nodes |-> Known(n)])
<1>1. ASSUME \A n \in Nodes : Known(n)' = Known(n)
      PROVE  [n \in Nodes |-> Known(n)]' = [n \in Nodes |-> Known(n)]
  BY <1>1
<1>2. CASE UNCHANGED vars \/ Verify
  <2>1. UNCHANGED <<total, current>>
    BY <1>2 DEF vars, Verify
  <2>2. \A n \in Nodes : Known(n)' = Known(n)
    BY <2>1 DEF Known, In
  <2> QED
    BY <1>1, <2>2
<1>3. ASSUME NEW p \in Nodes, Write(p) \/ Fold(p) \/ ReadNothing(p)
      PROVE  [n \in Nodes |-> Known(n)]' = [n \in Nodes |-> Known(n)]
  BY <1>1, <1>3, KnownStays
<1>4. ASSUME NEW p \in Nodes, Read(p) PROVE Values!Next
  <2>1. PICK q \in Nodes : q = Nbr(p)
    BY <1>4, NbrIsEdge DEF Read, Reading
  <2> DEFINE new == In(Head(pipe[<<q, p>>]))
  <2>2. /\ <<q, p>> \in Edges
        /\ pipe[<<q, p>>] \in Seq(Copies) /\ pipe[<<q, p>>] # <<>>
        /\ Known(p)' = Known(p) \cup new
        /\ \A n \in Nodes \ {p} : Known(n)' = Known(n)
    BY <1>4, <2>1, ReadLearns
  <2>3. new \subseteq Known(q)
    <3>1. 1 \in 1 .. Len(pipe[<<q, p>>]) /\ pipe[<<q, p>>][1] = Head(pipe[<<q, p>>])
      BY <2>2
    <3>2. <<q, p>>[1] = q
      OBVIOUS
    <3> QED
      BY <2>2, <3>1, <3>2 DEF Honest
  <2> HIDE DEF new
  <2> DEFINE h == [n \in Nodes |-> Known(n)]
             known2 == [n \in Nodes |-> Known(n)']
  <2>4. known2 = [h EXCEPT ![p] = @ \cup new]
    BY <2>2
  <2>5. new \in SUBSET h[q]
    BY <2>3
  <2>6. \E S \in SUBSET h[q] : known2 = [h EXCEPT ![p] = @ \cup S]
    BY <2>4, <2>5
  <2>7. <<q, p>> \in Values!Edges /\ p \in Values!Nodes /\ q \in Values!Nodes
    BY <2>1, <2>2, SameGraph
  <2>8. Values!Learn(p, q)
    BY <2>6, <2>7 DEF Values!Learn, Known
  <2> QED
    BY <2>7, <2>8 DEF Values!Next
<1> QED
  BY <1>2, <1>3, <1>4 DEF Next, Node

\* The nodes implement Spreading: all they do about values is to learn them from
\* neighbours, whatever is on the way in the pipes and in whatever order.
THEOREM NodesSpread == Spec => Spreads
<1>1. [Values!Next]_([n \in Nodes |-> Known(n)])
        => [Values!Next]_([n \in Nodes |-> total[n] \cup In(current[n])])
  BY DEF Known
<1> QED
  BY <1>1, TypeCorrect, StartsAsSpreading, HonestAtInit, HonestKept, StepsAsSpreading,
     PTL DEF Spec, Spreads, Values!Spec

-----------------------------------------------------------------------------
(* What follows for the graph: whoever ends is in a connected one.         *)

LEMMA ByEdgesAtInit == Values!Init => Values!OnlyByEdges
<1> SUFFICES ASSUME Values!Init PROVE Values!OnlyByEdges
  OBVIOUS
<1> DEFINE K == [n \in Nodes |-> total[n] \cup In(current[n])]
<1>1. K = [n \in Nodes |-> {n}]
  BY SameGraph DEF Values!Init
<1> HIDE DEF K
<1>2. \A n \in Nodes : K[n] = {n}
  BY <1>1
<1>3. \A C \in SUBSET Nodes : Values!Closed(C) => \A n \in C : K[n] \subseteq C
  BY <1>2
<1> QED
  BY <1>3, SameGraph DEF Values!OnlyByEdges, K

LEMMA ByEdgesKept ==
  ASSUME Values!OnlyByEdges,
         [Values!Next]_([n \in Nodes |-> total[n] \cup In(current[n])])
  PROVE  Values!OnlyByEdges'
<1> DEFINE K == [n \in Nodes |-> total[n] \cup In(current[n])]
           KK == [n \in Nodes |-> total'[n] \cup In(current'[n])]
<1>1. CASE KK = K
  BY <1>1 DEF Values!OnlyByEdges
<1>2. CASE Values!Next
  <2>1. PICK p \in Nodes, q \in Nodes : Values!Learn(p, q)
    BY <1>2, SameGraph DEF Values!Next
  <2>2. PICK S \in SUBSET K[q] : KK = [K EXCEPT ![p] = @ \cup S]
    BY <2>1 DEF Values!Learn
  <2>3. <<q, p>> \in Values!Edges
    BY <2>1 DEF Values!Learn
  <2> HIDE DEF K, KK
  <2>4. ASSUME NEW C \in SUBSET Nodes, Values!Closed(C), NEW n \in C,
               \A m \in C : K[m] \subseteq C
        PROVE  KK[n] \subseteq C
    <3>1. CASE n # p
      BY <2>2, <2>4, <3>1 DEF K
    <3>2. CASE n = p
      <4>1. q \in C
        <5>1. <<p, q>> \in Values!Edges
          BY <2>3, SameGraph, GraphAssumption DEF Edges
        <5> QED
          BY <2>4, <3>2, <5>1 DEF Values!Closed
      <4> QED
        BY <2>2, <2>4, <3>2, <4>1 DEF K
    <3> QED
      BY <3>1, <3>2
  <2>5. \A C \in SUBSET Nodes : Values!Closed(C) => \A m \in C : K[m] \subseteq C
    BY SameGraph DEF Values!OnlyByEdges, K
  <2>6. \A C \in SUBSET Nodes : Values!Closed(C) => \A n \in C : KK[n] \subseteq C
    BY <2>4, <2>5
  <2> QED
    BY <2>6, SameGraph DEF Values!OnlyByEdges, KK, Values!Closed
<1> QED
  BY <1>1, <1>2

EndedKnow == \A n \in Nodes : at[n] = "ended" => total[n] = Nodes

LEMMA EndedKnowKept ==
  ASSUME TypeOK, Reading, EndedKnow, [Next]_vars
  PROVE  EndedKnow'
<1>1. CASE UNCHANGED vars \/ Verify
  BY <1>1 DEF vars, Verify, EndedKnow
<1>2. ASSUME NEW p \in Nodes, Write(p) PROVE EndedKnow'
  BY <1>2 DEF Write, EndedKnow
<1>3. ASSUME NEW p \in Nodes, Fold(p) PROVE EndedKnow'
  BY <1>3 DEF Fold, EndRound, Goto, TypeOK, EndedKnow
<1>4. ASSUME NEW p \in Nodes, ReadNothing(p) \/ Read(p) PROVE EndedKnow'
  <2>1. total' = total /\ Onward(p) /\ at[p] = "read"
    BY <1>4 DEF ReadNothing, Read
  <2>2. at'[p] = "ended" => total[p] = Nodes
    BY <2>1 DEF Onward, EndRound, Goto, TypeOK
  <2>3. \A n \in Nodes \ {p} : at'[n] = at[n]
    BY <2>1, OnwardTypes
  <2> QED
    BY <2>1, <2>2, <2>3 DEF EndedKnow
<1> QED
  BY <1>1, <1>2, <1>3, <1>4 DEF Next, Node

\* In a graph of several parts no node ends and the master waits for ever.
THEOREM EndsInConnected ==
  Spec => [](\A n \in Nodes : at[n] = "ended" =>
               \A C \in SUBSET Nodes : Values!Closed(C) /\ n \in C => C = Nodes)
<1>1. Init => EndedKnow
  BY DEF Init, EndedKnow
<1>2. [Values!Next]_([n \in Nodes |-> Known(n)])
        => [Values!Next]_([n \in Nodes |-> total[n] \cup In(current[n])])
  BY DEF Known
<1>3. TypeOK /\ EndedKnow /\ Values!OnlyByEdges =>
        \A n \in Nodes : at[n] = "ended" =>
          \A C \in SUBSET Nodes : Values!Closed(C) /\ n \in C => C = Nodes
  BY SameGraph DEF EndedKnow, Values!OnlyByEdges, TypeOK
<1> QED
  BY <1>1, <1>2, <1>3, TypeCorrect, StartsAsSpreading, HonestAtInit, HonestKept,
     StepsAsSpreading, ByEdgesAtInit, ByEdgesKept, EndedKnowKept, PTL DEF Spec

-----------------------------------------------------------------------------
(* The routes of the copies.                                               *)

LEMMA InjectionBounds ==
  ASSUME NEW S, NEW T, IsFiniteSet(T), NEW f \in [S -> T],
         \A a, b \in S : f[a] = f[b] => a = b
  PROVE  IsFiniteSet(S) /\ Cardinality(S) <= Cardinality(T)
<1>1. f \in Injection(S, T)
  BY DEF Injection, IsInjective
<1> QED BY <1>1, FS_Injection

LEMMA RouteIsList ==
  ASSUME NEW x, NEW n, NEW w \in Routes(x, n)
  PROVE  /\ w \in Seq(Nodes) /\ Len(w) \in 1 .. N
         /\ w[1] = x /\ w[Len(w)] = n
         /\ \A j \in 1 .. Len(w) - 1 : <<w[j], w[j + 1]>> \in Edges
         /\ \A p, q \in 1 .. Len(w) : w[p] = w[q] => p = q
<1>1. PICK m \in 1 .. N : w \in [1 .. m -> Nodes]
  BY DEF Routes
<1>2. w \in Seq(Nodes) /\ Len(w) = m
  BY <1>1
<1> QED BY <1>1, <1>2 DEF Routes

\* There are finitely many: a route is one of the sets of places and nodes.
LEMMA RoutesFinite ==
  ASSUME NEW x, NEW n
  PROVE  IsFiniteSet(Routes(x, n))
<1> DEFINE P == SUBSET ((1 .. N) \X (1 .. N))
           graph(w) == {<<j, w[j]>> : j \in 1 .. Len(w)}
           f == [w \in Routes(x, n) |-> graph(w)]
<1>1. IsFiniteSet(P)
  <2>1. 1 \in Int /\ N \in Int
    OBVIOUS
  <2>2. IsFiniteSet(1 .. N)
    BY <2>1, FS_Interval
  <2>3. IsFiniteSet((1 .. N) \X (1 .. N))
    BY <2>2, FS_Product
  <2> QED BY <2>3, FS_SUBSET
<1>2. ASSUME NEW w \in Routes(x, n) PROVE graph(w) \in P
  <2>1. \A j \in 1 .. Len(w) : j \in 1 .. N /\ w[j] \in 1 .. N
    BY RouteIsList DEF Nodes
  <2> QED BY <2>1
<1>3. ASSUME NEW w \in Routes(x, n), NEW v \in Routes(x, n), graph(w) = graph(v)
      PROVE  w = v
  <2>1. /\ w \in Seq(Nodes) /\ Len(w) \in 1 .. N
        /\ v \in Seq(Nodes) /\ Len(v) \in 1 .. N
    BY RouteIsList
  <2>2. \A j \in 1 .. Len(w) : j \in 1 .. Len(v) /\ w[j] = v[j]
    <3> SUFFICES ASSUME NEW j \in 1 .. Len(w) PROVE j \in 1 .. Len(v) /\ w[j] = v[j]
      OBVIOUS
    <3>1. <<j, w[j]>> \in graph(v)
      BY <1>3
    <3> QED BY <3>1
  <2>3. \A j \in 1 .. Len(v) : j \in 1 .. Len(w)
    <3> SUFFICES ASSUME NEW j \in 1 .. Len(v) PROVE j \in 1 .. Len(w)
      OBVIOUS
    <3>1. <<j, v[j]>> \in graph(w)
      BY <1>3
    <3> QED BY <3>1
  <2>4. Len(w) = Len(v)
    <3>1. Len(w) \in 1 .. Len(w) /\ Len(v) \in 1 .. Len(v)
      BY <2>1
    <3>2. Len(w) \in 1 .. Len(v) /\ Len(v) \in 1 .. Len(w)
      BY <2>2, <2>3, <3>1
    <3> QED BY <2>1, <3>2
  <2> QED BY <2>1, <2>2, <2>4, SeqEqual
<1>4. f \in [Routes(x, n) -> P]
  BY <1>2
<1>5. \A w, v \in Routes(x, n) : f[w] = f[v] => w = v
  BY <1>3
<1> HIDE DEF P, f
<1> QED BY <1>1, <1>4, <1>5, InjectionBounds

LEMMA RouteSets ==
  ASSUME NEW x, NEW n, NEW A, A \subseteq Routes(x, n)
  PROVE  /\ IsFiniteSet(A) /\ Cardinality(A) \in Nat
         /\ \A B \in SUBSET A : Cardinality(B) <= Cardinality(A)
<1>1. IsFiniteSet(A)
  BY RoutesFinite, FS_Subset
<1> QED BY <1>1, FS_CardinalityType, FS_Subset

\* A route that leaves p out goes on to p.
LEMMA RouteGoesOn ==
  ASSUME NEW x, NEW q, NEW w \in Routes(x, q), NEW p \in Nodes, <<q, p>> \in Edges,
         \A j \in 1 .. Len(w) : w[j] # p
  PROVE  /\ Append(w, p) \in Routes(x, p)
         /\ Len(Append(w, p)) = Len(w) + 1
         /\ \A j \in 1 .. Len(w) : Append(w, p)[j] = w[j]
         /\ Append(w, p)[Len(w) + 1] = p
<1> DEFINE v == Append(w, p)
           m == Len(w) + 1
<1>1. /\ w \in Seq(Nodes) /\ Len(w) \in 1 .. N /\ w[1] = x /\ w[Len(w)] = q
      /\ \A j \in 1 .. Len(w) - 1 : <<w[j], w[j + 1]>> \in Edges
      /\ \A a, b \in 1 .. Len(w) : w[a] = w[b] => a = b
  BY RouteIsList
<1>2. /\ v \in Seq(Nodes) /\ Len(v) = m /\ v[m] = p
      /\ \A j \in 1 .. Len(w) : v[j] = w[j]
  BY <1>1
<1> HIDE DEF v
<1>3. \A j \in 1 .. m : j = m \/ j \in 1 .. Len(w)
  BY <1>1
<1>4. ASSUME NEW a \in 1 .. m, NEW b \in 1 .. m, v[a] = v[b]
      PROVE  a = b
  BY <1>1, <1>2, <1>3, <1>4
<1>5. ASSUME NEW j \in 1 .. m - 1
      PROVE  <<v[j], v[j + 1]>> \in Edges
  <2>1. CASE j = Len(w)
    <3>1. v[j] = q /\ v[j + 1] = p
      BY <1>1, <1>2, <2>1
    <3> QED BY <3>1
  <2>2. CASE j # Len(w)
    <3>1. j \in 1 .. Len(w) - 1 /\ j \in 1 .. Len(w) /\ j + 1 \in 1 .. Len(w)
      BY <1>1, <2>2
    <3> QED BY <1>1, <1>2, <3>1
  <2> QED BY <2>1, <2>2
<1>6. m \in 1 .. N
  <2> DEFINE S == 1 .. m
             T == 1 .. N
  <2>1. v \in [S -> T]
    BY <1>2 DEF Nodes
  <2>2. IsFiniteSet(S) /\ Cardinality(S) = m /\ IsFiniteSet(T) /\ Cardinality(T) = N
    <3>1. 1 \in Int /\ m \in Int /\ N \in Int /\ ~ (1 > m) /\ ~ (1 > N)
          /\ m - 1 + 1 = m /\ N - 1 + 1 = N
      BY <1>1
    <3> QED BY <3>1, FS_Interval
  <2>3. \A a, b \in S : v[a] = v[b] => a = b
    BY <1>4
  <2> HIDE DEF S, T
  <2>4. Cardinality(S) <= Cardinality(T)
    BY <2>1, <2>2, <2>3, InjectionBounds
  <2>5. m <= N
    BY <2>2, <2>4
  <2> QED BY <1>1, <2>5
<1>7. v \in Routes(x, p)
  <2>1. v \in [1 .. m -> Nodes] /\ v[1] = x
    BY <1>1, <1>2
  <2>2. v \in UNION {[1 .. h -> Nodes] : h \in 1 .. N}
    BY <1>6, <2>1
  <2> QED BY <1>2, <1>4, <1>5, <2>1, <2>2 DEF Routes
<1> QED BY <1>2, <1>7 DEF v

-----------------------------------------------------------------------------
(* Copies of x come to n along routes whose other nodes have been through  *)
(* with x, and no node is through before it has sent x to all neighbours.  *)

\* y takes no more copies of x.
Settled(y, x) == x \in total[y] \/ (at[y] = "write" /\ x \in In(current[y]))

\* n has written to m what it will ever write of x, and m has read that.
Sent(n, m, x) == x \in total[n] \/ (Given(n, m) /\ x \in In(current[n]))
Got(n, m, x) == Sent(n, m, x) /\ ~ UnderWay(x, n, m)

SettledRoutes(x, n) == {w \in Routes(x, n) : \A j \in 1 .. Len(w) : Settled(w[j], x)}

TakenRoutes(x, n) ==
  {w \in Routes(x, n) : \A j \in 1 .. Len(w) - 1 :
     Settled(w[j], x) /\ (j + 1 = Len(w) => Got(w[j], n, x))}

Fresh == \A n, x \in Nodes : x \in In(current[n]) => x \notin total[n]

TakenBound == \A n, x \in Nodes : current[n][x] <= Cardinality(TakenRoutes(x, n))

PipeBound ==
  \A n, m, x \in Nodes : <<n, m>> \in Edges =>
    \A h \in 1 .. Len(pipe[<<n, m>>]) :
      pipe[<<n, m>>][h][x] <= Cardinality(SettledRoutes(x, n))

SentOnce ==
  \A n, m, x \in Nodes : <<n, m>> \in Edges =>
    /\ UnderWay(x, n, m) => Sent(n, m, x)
    /\ \A g, h \in 1 .. Len(pipe[<<n, m>>]) :
         pipe[<<n, m>>][g][x] > 0 /\ pipe[<<n, m>>][h][x] > 0 => g = h

RInv == TypeOK /\ Reading /\ Fresh /\ TakenBound /\ PipeBound /\ SentOnce

\* What no step undoes.
Grows ==
  /\ \A y, x \in Nodes : Settled(y, x) => Settled(y, x)'
  /\ \A n, m, x \in Nodes : <<n, m>> \in Edges /\ Got(n, m, x) => Got(n, m, x)'

LEMMA RouteSetsGrow ==
  ASSUME Grows, NEW x \in Nodes, NEW n \in Nodes
  PROVE  /\ Cardinality(SettledRoutes(x, n)) <= Cardinality(SettledRoutes(x, n)')
         /\ Cardinality(SettledRoutes(x, n)) \in Nat
         /\ Cardinality(SettledRoutes(x, n)') \in Nat
         /\ TakenRoutes(x, n) \subseteq TakenRoutes(x, n)'
         /\ Cardinality(TakenRoutes(x, n)) <= Cardinality(TakenRoutes(x, n)')
         /\ Cardinality(TakenRoutes(x, n)) \in Nat
         /\ Cardinality(TakenRoutes(x, n)') \in Nat
<1>1. /\ SettledRoutes(x, n) \subseteq Routes(x, n)
      /\ SettledRoutes(x, n)' \subseteq Routes(x, n)
      /\ TakenRoutes(x, n) \subseteq Routes(x, n)
      /\ TakenRoutes(x, n)' \subseteq Routes(x, n)
  BY DEF SettledRoutes, TakenRoutes
<1>2. SettledRoutes(x, n) \subseteq SettledRoutes(x, n)'
  <2> SUFFICES ASSUME NEW w \in SettledRoutes(x, n) PROVE w \in SettledRoutes(x, n)'
    OBVIOUS
  <2>1. w \in Routes(x, n) /\ \A j \in 1 .. Len(w) : Settled(w[j], x) /\ w[j] \in Nodes
    BY RouteIsList DEF SettledRoutes
  <2> QED BY <2>1 DEF SettledRoutes, Grows
<1>3. TakenRoutes(x, n) \subseteq TakenRoutes(x, n)'
  <2> SUFFICES ASSUME NEW w \in TakenRoutes(x, n), NEW j \in 1 .. Len(w) - 1
               PROVE  Settled(w[j], x)' /\ (j + 1 = Len(w) => Got(w[j], n, x)')
    BY <1>1 DEF TakenRoutes
  <2>1. /\ Len(w) \in 1 .. N /\ w[Len(w)] = n
        /\ <<w[j], w[j + 1]>> \in Edges
    BY <1>1, RouteIsList
  <2>2. w[j] \in Nodes
    BY <2>1 DEF Edges
  <2>3. Settled(w[j], x) /\ (j + 1 = Len(w) => Got(w[j], n, x))
    BY DEF TakenRoutes
  <2> QED BY <2>1, <2>2, <2>3 DEF Grows
<1> QED BY <1>1, <1>2, <1>3, RouteSets

\* Messages stay as they are or are read, and nothing new is in current.
LEMMA BoundsStay ==
  ASSUME RInv, TypeOK', Grows,
         \A n, m, x \in Nodes : <<n, m>> \in Edges /\ Sent(n, m, x) => Sent(n, m, x)',
         pipe' = pipe
  PROVE  /\ PipeBound' /\ SentOnce'
         /\ \A n, x \in Nodes :
              current'[n][x] \in {0, current[n][x]}
              => current'[n][x] <= Cardinality(TakenRoutes(x, n)')
<1>1. PipeBound'
  <2> SUFFICES ASSUME NEW n \in Nodes, NEW m \in Nodes, NEW x \in Nodes, <<n, m>> \in Edges,
                      NEW h \in 1 .. Len(pipe[<<n, m>>])
               PROVE  pipe[<<n, m>>][h][x] <= Cardinality(SettledRoutes(x, n)')
    BY DEF PipeBound
  <2>1. pipe[<<n, m>>][h][x] <= Cardinality(SettledRoutes(x, n))
    BY DEF RInv, PipeBound
  <2>2. pipe[<<n, m>>][h][x] \in Nat
    <3>1. pipe[<<n, m>>] \in Seq(Copies)
      BY DEF RInv, TypeOK
    <3> QED BY <3>1 DEF Copies
  <2>3. /\ Cardinality(SettledRoutes(x, n)) <= Cardinality(SettledRoutes(x, n)')
        /\ Cardinality(SettledRoutes(x, n)) \in Nat
        /\ Cardinality(SettledRoutes(x, n)') \in Nat
    BY RouteSetsGrow
  <2> QED BY ONLY <2>1, <2>2, <2>3
<1>2. SentOnce'
  BY DEF RInv, SentOnce, UnderWay
<1>3. ASSUME NEW n \in Nodes, NEW x \in Nodes, current'[n][x] \in {0, current[n][x]}
      PROVE  current'[n][x] <= Cardinality(TakenRoutes(x, n)')
  <2>1. current[n][x] <= Cardinality(TakenRoutes(x, n)) /\ current[n][x] \in Nat
    BY DEF RInv, TakenBound, TypeOK, Copies
  <2>2. /\ Cardinality(TakenRoutes(x, n)) <= Cardinality(TakenRoutes(x, n)')
        /\ Cardinality(TakenRoutes(x, n)) \in Nat
        /\ Cardinality(TakenRoutes(x, n)') \in Nat
    BY RouteSetsGrow
  <2> QED BY ONLY <1>3, <2>1, <2>2
<1> QED BY <1>1, <1>2, <1>3

LEMMA FoldRoutes ==
  ASSUME RInv, TypeOK', Reading', NEW p \in Nodes, Fold(p) \/ ReadNothing(p)
  PROVE  RInv'
<1>1. /\ pipe' = pipe
      /\ total[p] \subseteq total'[p]
      /\ \A n \in Nodes \ {p} : /\ at'[n] = at[n] /\ i'[n] = i[n]
                                /\ total'[n] = total[n] /\ current'[n] = current[n]
      /\ \/ at[p] = "write" /\ total'[p] = total[p] \cup In(current[p]) /\ current'[p] = None
         \/ at[p] = "read" /\ total'[p] = total[p] /\ current'[p] = current[p]
  <2>1. CASE Fold(p)
    BY <2>1 DEF Fold, EndRound, Goto, RInv, TypeOK
  <2>2. CASE ReadNothing(p)
    <3>1. at[p] = "read" /\ Onward(p) /\ UNCHANGED <<current, total, pipe>>
      BY <2>2 DEF ReadNothing
    <3> QED BY <3>1, OnwardTypes DEF RInv
  <2> QED BY <2>1, <2>2
<1>2. ASSUME NEW y \in Nodes, NEW x \in Nodes, Settled(y, x) PROVE Settled(y, x)'
  BY <1>1, <1>2 DEF Settled, In
<1>3. ASSUME NEW n \in Nodes, NEW m \in Nodes, NEW x \in Nodes, Sent(n, m, x)
      PROVE  Sent(n, m, x)'
  <2>1. CASE n = p
    BY <1>1, <1>3, <2>1 DEF Sent, Given
  <2>2. CASE n # p
    BY <1>1, <1>3, <2>2 DEF Sent, Given, In
  <2> QED BY <2>1, <2>2
<1>4. Grows
  BY <1>1, <1>2, <1>3 DEF Grows, Got, UnderWay
<1>5. PipeBound' /\ SentOnce'
  BY <1>1, <1>3, <1>4, BoundsStay
<1>6. ASSUME NEW n \in Nodes, NEW x \in Nodes
      PROVE  current'[n][x] \in {0, current[n][x]}
  <2>1. CASE n = p
    BY <1>1, <2>1 DEF None
  <2>2. CASE n # p
    BY <1>1, <2>2
  <2> QED BY <2>1, <2>2
<1>7. TakenBound'
  BY <1>1, <1>3, <1>4, <1>6, BoundsStay DEF TakenBound
<1>8. Fresh'
  <2> SUFFICES ASSUME NEW n \in Nodes, NEW x \in Nodes, x \in In(current'[n])
               PROVE  x \notin total'[n]
    BY DEF Fresh, In
  <2>1. current'[n] # None
    BY BagTypes
  <2>2. current'[n] = current[n] /\ total'[n] = total[n]
    BY <1>1, <2>1
  <2> QED BY <2>2 DEF RInv, Fresh
<1> QED BY <1>5, <1>7, <1>8 DEF RInv

LEMMA WriteRoutes ==
  ASSUME RInv, TypeOK', Reading', NEW p \in Nodes, Write(p)
  PROVE  RInv'
<1>0. PICK q \in Nodes : q = Nbr(p)
  BY NbrIsEdge DEF Write, RInv
<1>1. q \in Nodes /\ <<p, q>> \in Edges /\ i[p] \in 1 .. Len(Nbrs[p]) /\ Nbrs[p][i[p]] = q
  BY <1>0, NbrIsEdge DEF Write, RInv, Nbr
<1>2. /\ UNCHANGED <<at, total, current>> /\ at[p] = "write"
      /\ i'[p] = i[p] + 1 /\ \A n \in Nodes \ {p} : i'[n] = i[n]
      /\ current[p] \in Copies
      /\ pipe[<<p, q>>] \in Seq(Copies)
      /\ pipe'[<<p, q>>] = Append(pipe[<<p, q>>], current[p])
      /\ \A e \in Edges : e # <<p, q>> => pipe'[e] = pipe[e]
  BY <1>0, <1>1 DEF Write, RInv, TypeOK
<1>old. PICK old \in Seq(Copies) : old = pipe[<<p, q>>]
  BY <1>2
<1>len. PICK l \in Nat : l = Len(old)
  OBVIOUS
<1>3. /\ l \in Nat /\ Len(pipe'[<<p, q>>]) = l + 1
      /\ pipe'[<<p, q>>][l + 1] = current[p]
      /\ \A h \in 1 .. l : pipe'[<<p, q>>][h] = old[h] /\ old[h] \in Copies
  <2>1. /\ old \in Seq(Copies) /\ current[p] \in Copies
        /\ pipe'[<<p, q>>] = Append(old, current[p])
    BY <1>2, <1>old
  <2> QED BY <2>1, <1>len
\* What is written has not been written before.
<1>4. \A x \in In(current[p]) : ~ Sent(p, q, x) /\ ~ UnderWay(x, p, q)
  <2> SUFFICES ASSUME NEW x \in In(current[p]) PROVE ~ Sent(p, q, x) /\ ~ UnderWay(x, p, q)
    OBVIOUS
  <2>1. x \in Nodes /\ x \notin total[p]
    BY DEF In, RInv, Fresh
  <2>2. ~ Given(p, q)
    <3>1. \A h \in 1 .. Len(Nbrs[p]) : Nbrs[p][h] = q => h = i[p]
      BY <1>1
    <3>2. i[p] \in Nat
      BY <1>1
    <3> QED BY <3>1, <3>2 DEF Given
  <2>3. ~ Sent(p, q, x)
    BY <2>1, <2>2 DEF Sent
  <2> QED BY <1>1, <2>1, <2>3 DEF RInv, SentOnce
<1>5. ASSUME NEW n \in Nodes, NEW m \in Nodes, Given(n, m)
      PROVE  Given(n, m)'
  <2>1. PICK h \in 1 .. Len(Nbrs[n]) : h < i[n] /\ Nbrs[n][h] = m
    BY <1>5 DEF Given
  <2>2. h < i'[n]
    <3>1. i[n] \in Nat /\ h \in Nat
      BY <2>1, ListTypes DEF RInv, TypeOK
    <3>2. i'[n] = i[n] \/ i'[n] = i[n] + 1
      BY <1>2
    <3> QED BY <2>1, <3>1, <3>2
  <2> QED BY <1>2, <1>5, <2>1, <2>2 DEF Given
<1>6. \A n, m, x \in Nodes : Sent(n, m, x) => Sent(n, m, x)'
  BY <1>2, <1>5 DEF Sent, In
<1>7. Given(p, q)'
  <2>1. i[p] < i'[p]
    BY <1>1, <1>2
  <2>2. at'[p] = "write"
    BY <1>2
  <2> QED BY <1>1, <2>1, <2>2 DEF Given
<1>8. ASSUME NEW x \in Nodes
      PROVE  UnderWay(x, p, q)' <=> UnderWay(x, p, q) \/ x \in In(current[p])
  <2>1. ASSUME NEW h \in 1 .. l + 1
        PROVE  h \in 1 .. l \/ h = l + 1
    BY <1>3
  <2>2. \A h \in 1 .. l : h \in 1 .. l + 1
    BY <1>3
  <2>3. l + 1 \in 1 .. l + 1
    BY <1>3
  <2>4. UnderWay(x, p, q) <=> \E h \in 1 .. l : old[h][x] > 0
    BY <1>old, <1>len DEF UnderWay
  <2>5. UnderWay(x, p, q)' <=> \E h \in 1 .. l + 1 : pipe'[<<p, q>>][h][x] > 0
    <3>1. Len(pipe'[<<p, q>>]) = l + 1
      BY <1>3
    <3> QED BY <3>1 DEF UnderWay
  <2> QED BY <1>3, <2>1, <2>2, <2>3, <2>4, <2>5 DEF In
<1>9. \A n, m, x \in Nodes : <<n, m>> \in Edges /\ <<n, m>> # <<p, q>> =>
        (UnderWay(x, n, m)' <=> UnderWay(x, n, m))
  BY <1>2 DEF UnderWay
<1>10. Grows
  <2>1. \A y, x \in Nodes : Settled(y, x) => Settled(y, x)'
    BY <1>2 DEF Settled, In
  <2>2. ASSUME NEW n \in Nodes, NEW m \in Nodes, NEW x \in Nodes, <<n, m>> \in Edges,
               Got(n, m, x)
        PROVE  Got(n, m, x)'
    <3>1. CASE <<n, m>> = <<p, q>>
      <4>1. n = p /\ m = q /\ Sent(p, q, x) /\ ~ UnderWay(x, p, q)
        BY <2>2, <3>1 DEF Got
      <4>2. ~ UnderWay(x, p, q)'
        BY <1>4, <1>8, <4>1
      <4>3. Sent(n, m, x)'
        BY <1>6, <4>1
      <4> QED BY <4>1, <4>2, <4>3 DEF Got
    <3>2. CASE <<n, m>> # <<p, q>>
      BY <1>6, <1>9, <2>2, <3>2 DEF Got
    <3> QED BY <3>1, <3>2
  <2> QED BY <2>1, <2>2 DEF Grows
<1>11. SentOnce'
  <2> SUFFICES ASSUME NEW n \in Nodes, NEW m \in Nodes, NEW x \in Nodes, <<n, m>> \in Edges
               PROVE  /\ UnderWay(x, n, m)' => Sent(n, m, x)'
                      /\ \A g, h \in 1 .. Len(pipe'[<<n, m>>]) :
                           pipe'[<<n, m>>][g][x] > 0 /\ pipe'[<<n, m>>][h][x] > 0 => g = h
    BY DEF SentOnce
  <2>1. CASE <<n, m>> # <<p, q>>
    BY <1>2, <1>6, <1>9, <2>1 DEF RInv, SentOnce
  <2>2. CASE <<n, m>> = <<p, q>>
    <3>1. n = p /\ m = q
      BY <2>2
    <3>2. UnderWay(x, p, q) => Sent(p, q, x)
      BY <1>1 DEF RInv, SentOnce
    <3>3. x \in In(current[p]) => Sent(p, q, x)'
      BY <1>2, <1>7 DEF Sent, In
    <3>4. UnderWay(x, p, q)' => Sent(p, q, x)'
      <4>1. UnderWay(x, p, q)' => UnderWay(x, p, q) \/ x \in In(current[p])
        BY <1>8
      <4>2. Sent(p, q, x) => Sent(p, q, x)'
        BY <1>1, <1>6
      <4> QED BY <3>2, <3>3, <4>1, <4>2
    <3>5. ASSUME NEW g \in 1 .. l + 1, NEW h \in 1 .. l + 1,
                 pipe'[<<p, q>>][g][x] > 0, pipe'[<<p, q>>][h][x] > 0
          PROVE  g = h
      <4>1. \A f \in 1 .. l + 1 : f \in 1 .. l \/ f = l + 1
        BY <1>3
      <4>2. CASE x \in In(current[p])
        <5>1. \A f \in 1 .. l : ~ (old[f][x] > 0)
          BY <1>4, <1>old, <1>len, <4>2 DEF UnderWay, In
        <5> QED BY <1>3, <3>5, <4>1, <5>1
      <4>3. CASE x \notin In(current[p])
        <5>1. ~ (current[p][x] > 0)
          BY <4>3 DEF In
        <5>2. g \in 1 .. l /\ h \in 1 .. l
          BY <1>3, <3>5, <4>1, <5>1
        <5>3. old[g][x] > 0 /\ old[h][x] > 0
          BY <1>3, <3>5, <5>2
        <5> QED BY <1>1, <1>old, <1>len, <5>2, <5>3 DEF RInv, SentOnce
      <4> QED BY <4>2, <4>3
    <3>6. \A g, h \in 1 .. Len(pipe'[<<p, q>>]) :
            pipe'[<<p, q>>][g][x] > 0 /\ pipe'[<<p, q>>][h][x] > 0 => g = h
      <4>1. Len(pipe'[<<p, q>>]) = l + 1
        BY <1>3
      <4> QED BY <3>5, <4>1
    <3> QED BY <3>1, <3>4, <3>6
  <2> QED BY <2>1, <2>2
\* What p writes of x has come to it along routes on which all are through.
<1>12. ASSUME NEW x \in Nodes
       PROVE  current[p][x] <= Cardinality(SettledRoutes(x, p)')
  <2>1. current[p][x] \in Nat /\ current[p][x] <= Cardinality(TakenRoutes(x, p))
    BY <1>2 DEF RInv, TakenBound, Copies
  <2>2. CASE current[p][x] = 0
    BY <1>10, <2>2, RouteSetsGrow
  <2>3. CASE current[p][x] # 0
    <3>1. Settled(p, x)
      BY <1>2, <2>1, <2>3 DEF Settled, In
    <3>2. TakenRoutes(x, p) \subseteq SettledRoutes(x, p)
      <4> SUFFICES ASSUME NEW w \in TakenRoutes(x, p), NEW j \in 1 .. Len(w)
                   PROVE  Settled(w[j], x)
        BY DEF TakenRoutes, SettledRoutes
      <4>1. Len(w) \in 1 .. N /\ w[Len(w)] = p
        BY RouteIsList DEF TakenRoutes
      <4>2. j = Len(w) \/ j \in 1 .. Len(w) - 1
        BY <4>1
      <4> QED BY <3>1, <4>1, <4>2 DEF TakenRoutes
    <3>3. SettledRoutes(x, p) \subseteq Routes(x, p)
      BY DEF SettledRoutes
    <3>4. Cardinality(TakenRoutes(x, p)) <= Cardinality(SettledRoutes(x, p))
      BY <3>2, <3>3, RouteSets
    <3>5. /\ Cardinality(SettledRoutes(x, p)) <= Cardinality(SettledRoutes(x, p)')
          /\ Cardinality(SettledRoutes(x, p)) \in Nat
          /\ Cardinality(SettledRoutes(x, p)') \in Nat
          /\ Cardinality(TakenRoutes(x, p)) \in Nat
      BY <1>10, RouteSetsGrow
    <3> QED BY ONLY <2>1, <3>4, <3>5
  <2> QED BY <2>2, <2>3
<1>13. PipeBound'
  <2> SUFFICES ASSUME NEW n \in Nodes, NEW m \in Nodes, NEW x \in Nodes, <<n, m>> \in Edges,
                      NEW h \in 1 .. Len(pipe'[<<n, m>>])
               PROVE  pipe'[<<n, m>>][h][x] <= Cardinality(SettledRoutes(x, n)')
    BY DEF PipeBound
  <2>1. \/ h \in 1 .. Len(pipe[<<n, m>>]) /\ pipe'[<<n, m>>][h] = pipe[<<n, m>>][h]
        \/ n = p /\ pipe'[<<n, m>>][h] = current[p]
    <3>1. CASE <<n, m>> # <<p, q>>
      BY <1>2, <3>1
    <3>2. CASE <<n, m>> = <<p, q>>
      <4>1. h \in 1 .. l \/ h = l + 1
        BY <1>3, <3>2
      <4> QED BY <1>3, <1>old, <1>len, <3>2, <4>1
    <3> QED BY <3>1, <3>2
  <2>2. CASE n = p /\ pipe'[<<n, m>>][h] = current[p]
    BY <1>12, <2>2
  <2>3. CASE h \in 1 .. Len(pipe[<<n, m>>]) /\ pipe'[<<n, m>>][h] = pipe[<<n, m>>][h]
    <3>1. pipe[<<n, m>>][h][x] <= Cardinality(SettledRoutes(x, n))
      BY <2>3 DEF RInv, PipeBound
    <3>2. pipe[<<n, m>>][h][x] \in Nat
      <4>1. pipe[<<n, m>>] \in Seq(Copies)
        BY DEF RInv, TypeOK
      <4> QED BY <2>3, <4>1 DEF Copies
    <3>3. /\ Cardinality(SettledRoutes(x, n)) <= Cardinality(SettledRoutes(x, n)')
          /\ Cardinality(SettledRoutes(x, n)) \in Nat
          /\ Cardinality(SettledRoutes(x, n)') \in Nat
      BY <1>10, RouteSetsGrow
    <3>4. pipe'[<<n, m>>][h][x] = pipe[<<n, m>>][h][x]
      BY <2>3
    <3> QED BY ONLY <3>1, <3>2, <3>3, <3>4
  <2> QED BY <2>1, <2>2, <2>3
<1>14. TakenBound'
  <2> SUFFICES ASSUME NEW n \in Nodes, NEW x \in Nodes
               PROVE  current[n][x] <= Cardinality(TakenRoutes(x, n)')
    BY <1>2 DEF TakenBound
  <2>1. current[n][x] \in Nat /\ current[n][x] <= Cardinality(TakenRoutes(x, n))
    BY DEF RInv, TakenBound, TypeOK, Copies
  <2>2. /\ Cardinality(TakenRoutes(x, n)) <= Cardinality(TakenRoutes(x, n)')
        /\ Cardinality(TakenRoutes(x, n)) \in Nat
        /\ Cardinality(TakenRoutes(x, n)') \in Nat
    BY <1>10, RouteSetsGrow
  <2> QED BY ONLY <2>1, <2>2
<1>15. Fresh'
  BY <1>2 DEF RInv, Fresh, In
<1> QED BY <1>11, <1>13, <1>14, <1>15 DEF RInv

\* All through on a route from x to q make it one on which x has come to p.
LEMMA NewRoutes ==
  ASSUME NEW x \in Nodes, NEW p \in Nodes, NEW q \in Nodes, <<q, p>> \in Edges, Grows,
         ~ Settled(p, x), ~ Got(q, p, x), Got(q, p, x)'
  PROVE  Cardinality(TakenRoutes(x, p)) + Cardinality(SettledRoutes(x, q))
           <= Cardinality(TakenRoutes(x, p)')
<1> DEFINE S == SettledRoutes(x, q)
           T == TakenRoutes(x, p)
           TT == TakenRoutes(x, p)'
           f == [w \in S |-> Append(w, p)]
<1>1. ASSUME NEW w \in S
      PROVE  /\ w \in Routes(x, q) /\ w \in Seq(Nodes) /\ Len(w) \in 1 .. N /\ w[Len(w)] = q
             /\ \A j \in 1 .. Len(w) : w[j] \in Nodes /\ Settled(w[j], x) /\ w[j] # p
             /\ Append(w, p) \in Routes(x, p)
             /\ Len(Append(w, p)) = Len(w) + 1
             /\ \A j \in 1 .. Len(w) : Append(w, p)[j] = w[j]
  <2>1. w \in Routes(x, q) /\ \A j \in 1 .. Len(w) : Settled(w[j], x)
    BY DEF SettledRoutes
  <2>2. w \in Seq(Nodes) /\ Len(w) \in 1 .. N /\ w[Len(w)] = q
    BY <2>1, RouteIsList
  <2>3. \A j \in 1 .. Len(w) : w[j] \in Nodes /\ Settled(w[j], x) /\ w[j] # p
    BY <2>1, <2>2
  <2>4. /\ Append(w, p) \in Routes(x, p)
        /\ Len(Append(w, p)) = Len(w) + 1
        /\ \A j \in 1 .. Len(w) : Append(w, p)[j] = w[j]
    BY <2>1, <2>3, RouteGoesOn
  <2> QED BY <2>1, <2>2, <2>3, <2>4
<1>2. ASSUME NEW w \in S PROVE Append(w, p) \in TT
  <2> DEFINE v == Append(w, p)
  <2>1. ASSUME NEW j \in 1 .. Len(v) - 1
        PROVE  Settled(v[j], x)' /\ (j + 1 = Len(v) => Got(v[j], p, x)')
    <3>1. /\ j \in 1 .. Len(w) /\ v[j] = w[j]
          /\ j + 1 = Len(v) => v[j] = q
      BY <1>1
    <3>2. w[j] \in Nodes /\ Settled(w[j], x)
      BY <1>1, <3>1
    <3>3. Settled(w[j], x)'
      BY <3>2 DEF Grows
    <3> HIDE DEF v
    <3> QED BY <3>1, <3>3
  <2> QED BY <1>1, <2>1 DEF TakenRoutes
<1>3. ASSUME NEW w \in S PROVE Append(w, p) \notin T
  <2> DEFINE v == Append(w, p)
             j == Len(w)
  <2>1. j \in 1 .. Len(v) - 1 /\ j + 1 = Len(v) /\ v[j] = q
    BY <1>1
  <2> HIDE DEF v, j
  <2>2. v \notin T
    BY <2>1 DEF TakenRoutes
  <2> QED BY <2>2 DEF v
<1>4. ASSUME NEW w \in S, NEW u \in S, Append(w, p) = Append(u, p)
      PROVE  w = u
  <2>1. /\ w \in Seq(Nodes) /\ u \in Seq(Nodes)
        /\ Len(Append(w, p)) = Len(w) + 1
        /\ Len(Append(u, p)) = Len(u) + 1
        /\ Len(w) \in Nat /\ Len(u) \in Nat
        /\ \A j \in 1 .. Len(w) : Append(w, p)[j] = w[j]
        /\ \A j \in 1 .. Len(u) : Append(u, p)[j] = u[j]
    BY <1>1
  <2>2. Len(w) = Len(u)
    BY <1>4, <2>1
  <2>3. \A j \in 1 .. Len(w) : w[j] = u[j]
    BY <1>4, <2>1, <2>2
  <2> QED BY <2>1, <2>2, <2>3, SeqEqual
<1>5. /\ T \subseteq TT /\ IsFiniteSet(T) /\ IsFiniteSet(TT)
      /\ Cardinality(T) \in Nat /\ Cardinality(TT) \in Nat /\ Cardinality(S) \in Nat
  <2>1. T \subseteq TT /\ Cardinality(T) \in Nat /\ Cardinality(TT) \in Nat
        /\ Cardinality(S) \in Nat
    BY RouteSetsGrow
  <2>2. T \subseteq Routes(x, p) /\ TT \subseteq Routes(x, p)
    BY DEF TakenRoutes
  <2>3. IsFiniteSet(T) /\ IsFiniteSet(TT)
    BY <2>2, RouteSets
  <2> QED BY <2>1, <2>3
<1>6. f \in [S -> TT \ T]
  BY <1>2, <1>3
<1>7. \A w, u \in S : f[w] = f[u] => w = u
  BY <1>4
<1> HIDE DEF S, T, TT, f
<1>8. IsFiniteSet(TT \ T) /\ T \cap TT = T
  BY <1>5, FS_Difference
<1>9. Cardinality(TT \ T) = Cardinality(TT) - Cardinality(T)
  <2>1. TT \cap T = T
    BY <1>5
  <2> QED BY <1>5, <2>1, FS_Difference
<1>10. Cardinality(S) <= Cardinality(TT \ T)
  BY <1>6, <1>7, <1>8, InjectionBounds
<1>11. Cardinality(T) + Cardinality(S) <= Cardinality(TT)
  BY ONLY <1>5, <1>9, <1>10
<1> QED BY <1>11 DEF S, T, TT

LEMMA ReadRoutes ==
  ASSUME RInv, TypeOK', Reading', NEW p \in Nodes, Read(p)
  PROVE  RInv'
<1>0. PICK q \in Nodes : q = Nbr(p)
  BY NbrIsEdge DEF Read, RInv, Reading
<1>1. <<q, p>> \in Edges
  BY <1>0, NbrIsEdge DEF Read, RInv, Reading
<1>old. PICK old \in Seq(Copies) : old = pipe[<<q, p>>]
  BY <1>1 DEF RInv, TypeOK
<1>msg. PICK msg \in Copies : msg = Head(old)
  BY <1>0, <1>old DEF Read
<1>len. PICK l \in Nat : l = Len(old)
  OBVIOUS
<1>2. /\ UNCHANGED total /\ at[p] = "read" /\ Onward(p)
      /\ old # <<>>
      /\ pipe'[<<q, p>>] = Tail(old)
      /\ \A e \in Edges : e # <<q, p>> => pipe'[e] = pipe[e]
      /\ current'[p] = Added(p, msg)
      /\ \A n \in Nodes \ {p} : current'[n] = current[n]
  BY <1>0, <1>1, <1>old, <1>msg DEF Read, RInv, TypeOK
<1>3. /\ l \in Nat \ {0} /\ Len(pipe'[<<q, p>>]) = l - 1
      /\ old[1] = msg
      /\ \A h \in 1 .. l - 1 : pipe'[<<q, p>>][h] = old[h + 1]
  BY <1>2, <1>len, <1>msg
<1>4. \A n \in Nodes \ {p} : at'[n] = at[n] /\ i'[n] = i[n]
  BY <1>2, OnwardTypes DEF RInv
<1>5. ASSUME NEW y \in Nodes, NEW x \in Nodes, Settled(y, x) PROVE Settled(y, x)'
  <2>1. CASE y = p
    BY <1>2, <1>5, <2>1 DEF Settled
  <2>2. CASE y # p
    BY <1>2, <1>4, <1>5, <2>2 DEF Settled, In
  <2> QED BY <2>1, <2>2
<1>6. ASSUME NEW n \in Nodes, NEW m \in Nodes, NEW x \in Nodes, Sent(n, m, x)
      PROVE  Sent(n, m, x)'
  <2>1. CASE n = p
    BY <1>2, <1>6, <2>1 DEF Sent, Given
  <2>2. CASE n # p
    BY <1>2, <1>4, <1>6, <2>2 DEF Sent, Given, In
  <2> QED BY <2>1, <2>2
<1>7. ASSUME NEW x \in Nodes
      PROVE  /\ UnderWay(x, q, p) <=> \E h \in 1 .. l : old[h][x] > 0
             /\ UnderWay(x, q, p)' <=> \E h \in 1 .. l - 1 : old[h + 1][x] > 0
  <2>1. UnderWay(x, q, p) <=> \E h \in 1 .. l : old[h][x] > 0
    BY <1>old, <1>len DEF UnderWay
  <2>2. UnderWay(x, q, p)' <=> \E h \in 1 .. l - 1 : old[h + 1][x] > 0
    BY <1>3 DEF UnderWay
  <2> QED BY <2>1, <2>2
<1>8. \A h \in 1 .. l - 1 : h + 1 \in 1 .. l
  BY <1>3
<1>9. \A n, m, x \in Nodes : <<n, m>> \in Edges /\ UnderWay(x, n, m)' => UnderWay(x, n, m)
  <2> SUFFICES ASSUME NEW n \in Nodes, NEW m \in Nodes, NEW x \in Nodes,
                      <<n, m>> \in Edges, UnderWay(x, n, m)'
               PROVE  UnderWay(x, n, m)
    OBVIOUS
  <2>1. CASE <<n, m>> # <<q, p>>
    BY <1>2, <2>1 DEF UnderWay
  <2>2. CASE <<n, m>> = <<q, p>>
    <3>1. n = q /\ m = p
      BY <2>2
    <3>2. UnderWay(x, q, p)'
      BY <3>1
    <3>3. UnderWay(x, q, p)
      BY <1>7, <1>8, <3>2
    <3> QED BY <3>1, <3>3
  <2> QED BY <2>1, <2>2
<1>10. Grows
  BY <1>5, <1>6, <1>9 DEF Grows, Got
\* No two messages on the way have x.
<1>11. ASSUME NEW x \in Nodes, NEW g \in 1 .. l, NEW h \in 1 .. l,
              old[g][x] > 0, old[h][x] > 0
       PROVE  g = h
  BY <1>1, <1>old, <1>len, <1>11 DEF RInv, SentOnce
<1>12. SentOnce'
  <2> SUFFICES ASSUME NEW n \in Nodes, NEW m \in Nodes, NEW x \in Nodes, <<n, m>> \in Edges
               PROVE  /\ UnderWay(x, n, m)' => Sent(n, m, x)'
                      /\ \A g, h \in 1 .. Len(pipe'[<<n, m>>]) :
                           pipe'[<<n, m>>][g][x] > 0 /\ pipe'[<<n, m>>][h][x] > 0 => g = h
    BY DEF SentOnce
  <2>1. UnderWay(x, n, m)' => Sent(n, m, x)'
    BY <1>6, <1>9 DEF RInv, SentOnce
  <2>2. CASE <<n, m>> # <<q, p>>
    BY <1>2, <2>1, <2>2 DEF RInv, SentOnce
  <2>3. CASE <<n, m>> = <<q, p>>
    <3>1. ASSUME NEW g \in 1 .. l - 1, NEW h \in 1 .. l - 1,
                 pipe'[<<q, p>>][g][x] > 0, pipe'[<<q, p>>][h][x] > 0
          PROVE  g = h
      <4>1. /\ g + 1 \in 1 .. l /\ h + 1 \in 1 .. l
            /\ old[g + 1][x] > 0 /\ old[h + 1][x] > 0
        BY <1>3, <1>8, <3>1
      <4>2. g + 1 = h + 1
        BY <1>11, <4>1
      <4> QED BY <4>2
    <3> QED BY <1>3, <2>1, <2>3, <3>1
  <2> QED BY <2>2, <2>3
<1>13. PipeBound'
  <2> SUFFICES ASSUME NEW n \in Nodes, NEW m \in Nodes, NEW x \in Nodes, <<n, m>> \in Edges,
                      NEW h \in 1 .. Len(pipe'[<<n, m>>])
               PROVE  pipe'[<<n, m>>][h][x] <= Cardinality(SettledRoutes(x, n)')
    BY DEF PipeBound
  <2>1. PICK g \in 1 .. Len(pipe[<<n, m>>]) : pipe'[<<n, m>>][h] = pipe[<<n, m>>][g]
    <3>1. CASE <<n, m>> # <<q, p>>
      BY <1>2, <3>1
    <3>2. CASE <<n, m>> = <<q, p>>
      <4>1. h \in 1 .. l - 1 /\ pipe'[<<n, m>>][h] = old[h + 1]
        BY <1>3, <3>2
      <4>2. h + 1 \in 1 .. Len(pipe[<<n, m>>]) /\ old[h + 1] = pipe[<<n, m>>][h + 1]
        BY <1>8, <1>old, <1>len, <3>2, <4>1
      <4> QED BY <4>1, <4>2
    <3> QED BY <3>1, <3>2
  <2>2. pipe[<<n, m>>][g][x] <= Cardinality(SettledRoutes(x, n))
    BY DEF RInv, PipeBound
  <2>3. pipe[<<n, m>>][g][x] \in Nat
    <3>1. pipe[<<n, m>>] \in Seq(Copies)
      BY DEF RInv, TypeOK
    <3> QED BY <3>1 DEF Copies
  <2>4. /\ Cardinality(SettledRoutes(x, n)) <= Cardinality(SettledRoutes(x, n)')
        /\ Cardinality(SettledRoutes(x, n)) \in Nat
        /\ Cardinality(SettledRoutes(x, n)') \in Nat
    BY <1>10, RouteSetsGrow
  <2>5. pipe'[<<n, m>>][h][x] = pipe[<<n, m>>][g][x]
    BY <2>1
  <2> QED BY ONLY <2>2, <2>3, <2>4, <2>5
<1>14. TakenBound'
  <2> SUFFICES ASSUME NEW n \in Nodes, NEW x \in Nodes
               PROVE  current'[n][x] <= Cardinality(TakenRoutes(x, n)')
    BY DEF TakenBound
  <2>1. current[n][x] \in Nat /\ current[n][x] <= Cardinality(TakenRoutes(x, n))
    BY DEF RInv, TakenBound, TypeOK, Copies
  <2>2. /\ Cardinality(TakenRoutes(x, n)) <= Cardinality(TakenRoutes(x, n)')
        /\ Cardinality(TakenRoutes(x, n)) \in Nat
        /\ Cardinality(TakenRoutes(x, n)') \in Nat
    BY <1>10, RouteSetsGrow
  <2>3. CASE current'[n][x] = current[n][x]
    BY ONLY <2>1, <2>2, <2>3
  <2>4. CASE current'[n][x] # current[n][x]
    <3>1. n = p
      BY <1>2, <2>4
    <3>2. /\ x \notin total[p] /\ msg[x] \in Nat \ {0}
          /\ current'[p][x] = current[p][x] + msg[x]
      BY <1>2, <2>1, <2>4, <3>1 DEF Added, Copies
    <3>3. ~ Settled(p, x)
      BY <1>2, <3>2 DEF Settled
    <3>4. msg[x] > 0 /\ 1 \in 1 .. l
      BY <1>3, <3>2
    <3>5. UnderWay(x, q, p)
      BY <1>3, <1>7, <3>4
    <3>6. ~ UnderWay(x, q, p)'
      <4>1. ASSUME NEW h \in 1 .. l - 1, old[h + 1][x] > 0 PROVE FALSE
        <5>1. h + 1 = 1
          BY <1>3, <1>8, <1>11, <3>4, <4>1
        <5> QED BY <5>1
      <4> QED BY <1>7, <4>1
    <3>7. Sent(q, p, x)'
      BY <1>1, <1>6, <3>5 DEF RInv, SentOnce
    <3>8. ~ Got(q, p, x) /\ Got(q, p, x)'
      BY <3>5, <3>6, <3>7 DEF Got
    <3>9. Cardinality(TakenRoutes(x, p)) + Cardinality(SettledRoutes(x, q))
            <= Cardinality(TakenRoutes(x, p)')
      BY <1>1, <1>10, <3>3, <3>8, NewRoutes
    <3>10. msg[x] <= Cardinality(SettledRoutes(x, q))
      BY <1>1, <1>3, <1>old, <1>len, <3>4 DEF RInv, PipeBound
    <3>11. Cardinality(SettledRoutes(x, q)) \in Nat
      BY <1>10, RouteSetsGrow
    <3>12. /\ Cardinality(TakenRoutes(x, p)) \in Nat /\ Cardinality(TakenRoutes(x, p)') \in Nat
           /\ current[p][x] \in Nat /\ current[p][x] <= Cardinality(TakenRoutes(x, p))
      BY <2>1, <2>2, <3>1
    <3>13. current'[p][x] <= Cardinality(TakenRoutes(x, p)')
      BY ONLY <3>2, <3>9, <3>10, <3>11, <3>12
    <3> QED BY <3>1, <3>13
  <2> QED BY <2>3, <2>4
<1>15. Fresh'
  <2> SUFFICES ASSUME NEW n \in Nodes, NEW x \in Nodes, x \in In(current'[n])
               PROVE  x \notin total[n]
    BY <1>2 DEF Fresh, In
  <2>1. CASE n = p
    <3>1. current'[p][x] > 0
      BY <2>1 DEF In
    <3>2. CASE x \in total[p]
      <4>1. current'[p][x] = current[p][x]
        BY <1>2, <3>2 DEF Added
      <4> QED BY <2>1, <3>1, <4>1 DEF RInv, Fresh, In
    <3> QED BY <2>1, <3>2
  <2>2. CASE n # p
    BY <1>2, <2>2 DEF RInv, Fresh, In
  <2> QED BY <2>1, <2>2
<1> QED BY <1>12, <1>13, <1>14, <1>15 DEF RInv

LEMMA OthersRoutes ==
  ASSUME RInv, TypeOK', Reading', UNCHANGED <<at, i, current, total, pipe>>
  PROVE  RInv'
<1>1. Grows
  BY DEF Grows, Settled, Got, Sent, Given, UnderWay, In
<1>2. \A n, m, x \in Nodes : Sent(n, m, x) => Sent(n, m, x)'
  BY DEF Sent, Given, In
<1>3. PipeBound' /\ SentOnce'
  BY <1>1, <1>2, BoundsStay
<1>4. TakenBound'
  BY <1>1, <1>2, BoundsStay DEF TakenBound
<1>5. Fresh'
  BY DEF RInv, Fresh, In
<1> QED BY <1>3, <1>4, <1>5 DEF RInv

\* Each node has one copy of itself, which has come to it on the route of itself.
LEMMA RoutesAtInit == Init => RInv
<1> SUFFICES ASSUME Init PROVE RInv
  OBVIOUS
<1>1. TypeOK /\ Reading
  BY TypesAtInit
<1>2. Fresh
  BY DEF Init, Fresh
<1>3. /\ \A e \in Edges : Len(pipe[e]) = 0
      /\ \A n, m, x \in Nodes : <<n, m>> \in Edges => ~ UnderWay(x, n, m)
  BY DEF Init, UnderWay
<1>4. PipeBound /\ SentOnce
  <2>1. \A n, m \in Nodes : <<n, m>> \in Edges => \A h \in 1 .. Len(pipe[<<n, m>>]) : FALSE
    <3> SUFFICES ASSUME NEW n \in Nodes, NEW m \in Nodes, <<n, m>> \in Edges,
                        NEW h \in 1 .. Len(pipe[<<n, m>>])
                 PROVE  FALSE
      OBVIOUS
    <3>1. Len(pipe[<<n, m>>]) = 0
      BY <1>3
    <3> QED BY ONLY <3>1
  <2>2. PipeBound
    BY <2>1, Zenon DEF PipeBound
  <2>3. SentOnce
    BY <1>3, <2>1, Zenon DEF SentOnce
  <2> QED BY <2>2, <2>3
<1>5. TakenBound
  <2> SUFFICES ASSUME NEW n \in Nodes, NEW x \in Nodes
               PROVE  current[n][x] <= Cardinality(TakenRoutes(x, n))
    BY DEF TakenBound
  <2>1. TakenRoutes(x, n) \subseteq Routes(x, n)
    BY DEF TakenRoutes
  <2>2. IsFiniteSet(TakenRoutes(x, n)) /\ Cardinality(TakenRoutes(x, n)) \in Nat
    BY <2>1, RouteSets
  <2>3. CASE n = x
    <3>1. <<n>> \in TakenRoutes(x, n)
      <4>1. <<n>> \in [1 .. 1 -> Nodes] /\ Len(<<n>>) = 1 /\ <<n>>[1] = n /\ 1 \in 1 .. N
        OBVIOUS
      <4>2. <<n>> \in UNION {[1 .. m -> Nodes] : m \in 1 .. N}
        BY <4>1
      <4>3. <<n>> \in Routes(x, n)
        BY <2>3, <4>1, <4>2 DEF Routes
      <4> QED BY <4>1, <4>3 DEF TakenRoutes
    <3>2. Cardinality(TakenRoutes(x, n)) # 0
      BY <2>2, <3>1, FS_EmptySet
    <3>3. current[n][x] = 1
      BY <2>3 DEF Init, None
    <3> QED BY ONLY <2>2, <3>2, <3>3
  <2>4. CASE n # x
    <3>1. current[n][x] = 0
      BY <2>4 DEF Init, None
    <3> QED BY ONLY <2>2, <3>1
  <2> QED BY <2>3, <2>4
<1> QED BY <1>1, <1>2, <1>4, <1>5 DEF RInv

LEMMA RoutesKept ==
  ASSUME RInv, [Next]_vars
  PROVE  RInv'
<1>1. TypeOK' /\ Reading'
  BY TypesKept DEF RInv
<1>2. CASE UNCHANGED vars \/ Verify
  BY <1>1, <1>2, OthersRoutes DEF vars, Verify
<1>3. ASSUME NEW p \in Nodes, Node(p) PROVE RInv'
  BY <1>1, <1>3, WriteRoutes, FoldRoutes, ReadRoutes DEF Node
<1> QED BY <1>2, <1>3 DEF Next

\* A node has at most one copy of a value in current for each way on which no
\* node comes twice, so that the room it needs there depends on the graph alone.
THEOREM CopiesComeOnRoutes == Spec => []CopiesAreWays
<1>1. RInv => CopiesAreWays
  <2> SUFFICES ASSUME RInv, NEW x \in Nodes, NEW n \in Nodes
               PROVE  current[n][x] <= NumRoutes[x][n]
    BY DEF CopiesAreWays
  <2>1. current[n][x] \in Nat /\ current[n][x] <= Cardinality(TakenRoutes(x, n))
    BY DEF RInv, TakenBound, TypeOK, Copies
  <2>2. TakenRoutes(x, n) \subseteq Routes(x, n)
    BY DEF TakenRoutes
  <2>3. /\ Cardinality(TakenRoutes(x, n)) <= Cardinality(Routes(x, n))
        /\ Cardinality(Routes(x, n)) \in Nat /\ Cardinality(TakenRoutes(x, n)) \in Nat
    BY <2>2, RouteSets
  <2>4. NumRoutes[x][n] = Cardinality(Routes(x, n))
    BY DEF NumRoutes
  <2> QED BY ONLY <2>1, <2>3, <2>4
<1> QED BY <1>1, RoutesAtInit, RoutesKept, PTL DEF Spec

-----------------------------------------------------------------------------
(* No ring of nodes that wait.  A pipe that is full has been written to     *)
(* after its reader has read from it, and so after the reader has last      *)
(* written to any neighbour that it is yet to write to in this round.       *)

Full(e) == Len(pipe[e]) = Cap

\* n has done with its neighbour m in the loop it is in.
Past(n, m) == \E h \in 1 .. Len(Nbrs[n]) : h < i[n] /\ Nbrs[n][h] = m

\* n has read from q since it has written to m.
ReadSince(n, m, q) ==
  (at[n] = "write" /\ ~ Past(n, m)) \/ (at[n] = "read" /\ Past(n, q))

\* t[e] is the time of the last write to e.
Ordered(t) ==
  \A n, m, q \in Nodes :
    /\ <<n, m>> \in Edges /\ <<q, n>> \in Edges
    /\ Full(<<q, n>>) /\ ReadSince(n, m, q)
    => t[<<n, m>>] < t[<<q, n>>]

PipesFit == \A e \in Edges : Len(pipe[e]) <= Cap

Timed == \E c \in Nat : \E t \in [Edges -> 0 .. c] : Ordered(t)

WInv == TypeOK /\ Reading /\ PipesFit /\ Timed

LEMMA WriteTimes ==
  ASSUME WInv, TypeOK', NEW p \in Nodes, Write(p)
  PROVE  PipesFit' /\ Timed'
<1>0. PICK q \in Nodes : q = Nbr(p)
  BY NbrIsEdge DEF Write, WInv
<1>1. /\ <<p, q>> \in Edges /\ i[p] \in 1 .. Len(Nbrs[p]) /\ Nbrs[p][i[p]] = q
      /\ Len(pipe[<<p, q>>]) < Cap
  BY <1>0, NbrIsEdge DEF Write, WInv, Nbr
<1>2. /\ at' = at /\ at[p] = "write"
      /\ i'[p] = i[p] + 1 /\ \A n \in Nodes \ {p} : i'[n] = i[n]
      /\ pipe[<<p, q>>] \in Seq(Copies) /\ current[p] \in Copies
      /\ pipe'[<<p, q>>] = Append(pipe[<<p, q>>], current[p])
      /\ \A e \in Edges : e # <<p, q>> => pipe'[e] = pipe[e]
  BY <1>0, <1>1 DEF Write, WInv, TypeOK
<1>3. PipesFit'
  <2>1. Len(pipe'[<<p, q>>]) = Len(pipe[<<p, q>>]) + 1 /\ Len(pipe[<<p, q>>]) \in Nat
    BY <1>2
  <2>2. Len(pipe'[<<p, q>>]) <= Cap
    BY <1>1, <2>1
  <2> QED BY <1>2, <2>2 DEF WInv, PipesFit
<1>4. PICK c \in Nat : \E t \in [Edges -> 0 .. c] : Ordered(t)
  BY DEF WInv, Timed
<1>5. PICK t \in [Edges -> 0 .. c] : Ordered(t)
  BY <1>4
<1>6. PICK tt \in [Edges -> 0 .. c + 1] :
        tt = [e \in Edges |-> IF e = <<p, q>> THEN c + 1 ELSE t[e]]
  <2>1. c + 1 \in 0 .. c + 1 /\ \A e \in Edges : t[e] \in 0 .. c + 1
    BY <1>4, <1>5
  <2> QED BY <2>1
<1>7. /\ tt[<<p, q>>] = c + 1
      /\ \A e \in Edges : t[e] \in 0 .. c /\ (e # <<p, q>> => tt[e] = t[e])
  BY <1>1, <1>5, <1>6
<1>8. ASSUME NEW n \in Nodes, NEW m \in Nodes, Past(n, m) PROVE Past(n, m)'
  <2>1. PICK h \in 1 .. Len(Nbrs[n]) : h < i[n] /\ Nbrs[n][h] = m
    BY <1>8 DEF Past
  <2>2. i[n] \in Nat /\ h \in Nat
    BY <2>1, ListTypes DEF WInv, TypeOK
  <2>3. i'[n] = i[n] \/ i'[n] = i[n] + 1
    BY <1>2
  <2>4. h < i'[n]
    BY <2>1, <2>2, <2>3
  <2> QED BY <2>1, <2>4 DEF Past
<1>9. Past(p, q)'
  BY <1>1, <1>2 DEF Past
<1>10. Ordered(tt)'
  <2> SUFFICES ASSUME NEW n \in Nodes, NEW m \in Nodes, NEW x \in Nodes,
                      <<n, m>> \in Edges, <<x, n>> \in Edges,
                      Full(<<x, n>>)', ReadSince(n, m, x)'
               PROVE  tt[<<n, m>>] < tt[<<x, n>>]
    BY DEF Ordered
  <2>1. <<n, m>> # <<p, q>>
    BY <1>2, <1>9 DEF ReadSince
  <2>2. tt[<<n, m>>] = t[<<n, m>>] /\ t[<<n, m>>] \in 0 .. c
    BY <1>7, <2>1
  <2>3. CASE <<x, n>> = <<p, q>>
    <3>1. tt[<<x, n>>] = c + 1
      BY <1>7, <2>3
    <3> QED BY ONLY <2>2, <3>1, <1>4
  <2>4. CASE <<x, n>> # <<p, q>>
    <3>1. Full(<<x, n>>)
      BY <1>2, <2>4 DEF Full
    <3>2. ReadSince(n, m, x)
      <4>1. CASE n = p
        BY <1>2, <1>8, <4>1 DEF ReadSince
      <4>2. CASE n # p
        BY <1>2, <4>2 DEF ReadSince, Past
      <4> QED BY <4>1, <4>2
    <3>3. t[<<n, m>>] < t[<<x, n>>]
      BY <1>5, <3>1, <3>2 DEF Ordered
    <3> QED BY <1>7, <2>2, <2>4, <3>3
  <2> QED BY <2>3, <2>4
<1>11. c + 1 \in Nat
  OBVIOUS
<1>12. Timed'
  BY <1>10, <1>11 DEF Timed
<1> QED BY <1>3, <1>12

\* A step in which no pipe grows and the nodes have read before what they have
\* read after it, or else from a pipe that is not full.
LEMMA TimesStay ==
  ASSUME WInv,
         \A e \in Edges : Len(pipe'[e]) <= Len(pipe[e]) /\ Len(pipe'[e]) \in Nat
                          /\ Len(pipe[e]) \in Nat,
         \A n, m, q \in Nodes :
           <<n, m>> \in Edges /\ <<q, n>> \in Edges /\ ReadSince(n, m, q)'
           => ReadSince(n, m, q) \/ Len(pipe'[<<q, n>>]) # Cap
  PROVE  PipesFit' /\ Timed'
<1>1. PipesFit'
  BY DEF WInv, PipesFit
<1>2. PICK c \in Nat : \E t \in [Edges -> 0 .. c] : Ordered(t)
  BY DEF WInv, Timed
<1>3. PICK t \in [Edges -> 0 .. c] : Ordered(t)
  BY <1>2
<1>4. Ordered(t)'
  <2> SUFFICES ASSUME NEW n \in Nodes, NEW m \in Nodes, NEW x \in Nodes,
                      <<n, m>> \in Edges, <<x, n>> \in Edges,
                      Full(<<x, n>>)', ReadSince(n, m, x)'
               PROVE  t[<<n, m>>] < t[<<x, n>>]
    BY DEF Ordered
  <2>1. ReadSince(n, m, x)
    BY DEF Full
  <2>2. Full(<<x, n>>)
    BY DEF Full, WInv, PipesFit
  <2> QED BY <1>3, <2>1, <2>2 DEF Ordered
<1> QED BY <1>1, <1>2, <1>4 DEF Timed

LEMMA FoldTimes ==
  ASSUME WInv, TypeOK', NEW p \in Nodes, Fold(p)
  PROVE  PipesFit' /\ Timed'
<1>1. /\ pipe' = pipe
      /\ \A n \in Nodes \ {p} : at'[n] = at[n] /\ i'[n] = i[n]
      /\ i'[p] = 1 /\ (Nbrs[p] # <<>> => at'[p] = "read")
  BY DEF Fold, EndRound, Goto, WInv, TypeOK
<1>2. \A e \in Edges : Len(pipe'[e]) <= Len(pipe[e]) /\ Len(pipe'[e]) \in Nat
                       /\ Len(pipe[e]) \in Nat
  <2> SUFFICES ASSUME NEW e \in Edges PROVE Len(pipe[e]) \in Nat
    BY <1>1
  <2>1. pipe[e] \in Seq(Copies)
    BY DEF WInv, TypeOK
  <2> QED BY <2>1
<1>3. ASSUME NEW n \in Nodes, NEW m \in Nodes, NEW q \in Nodes, <<n, m>> \in Edges,
             ReadSince(n, m, q)'
      PROVE  ReadSince(n, m, q)
  <2>1. CASE n = p
    <3>1. Nbrs[p] # <<>>
      BY <1>3, <2>1, ListTypes DEF Edges, IsNbr
    <3>2. ~ Past(p, q)'
      BY <1>1, ListTypes DEF Past
    <3> QED BY <1>1, <1>3, <2>1, <3>1, <3>2 DEF ReadSince
  <2>2. CASE n # p
    BY <1>1, <1>3, <2>2 DEF ReadSince, Past
  <2> QED BY <2>1, <2>2
<1> QED BY <1>2, <1>3, TimesStay

LEMMA ReadTimes ==
  ASSUME WInv, TypeOK', NEW p \in Nodes, ReadNothing(p) \/ Read(p)
  PROVE  PipesFit' /\ Timed'
<1>0. at[p] = "read" /\ Onward(p) /\ HasNbr(p)
  BY DEF ReadNothing, Read, WInv, Reading
<1>1. PICK q \in Nodes : q = Nbr(p) /\ <<q, p>> \in Edges
  BY <1>0, NbrIsEdge DEF WInv
<1>2. i[p] \in 1 .. Len(Nbrs[p]) /\ Nbrs[p][i[p]] = q
  BY <1>0, <1>1, NbrIsEdge DEF WInv, Nbr
<1>3. PICK old \in Seq(Copies) : old = pipe[<<q, p>>]
  BY <1>1 DEF WInv, TypeOK
<1>4. /\ \A e \in Edges : e # <<q, p>> => pipe'[e] = pipe[e]
      /\ \/ old = <<>> /\ pipe'[<<q, p>>] = old
         \/ old # <<>> /\ pipe'[<<q, p>>] = Tail(old)
  <2>1. CASE ReadNothing(p)
    BY <1>1, <1>3, <2>1 DEF ReadNothing
  <2>2. CASE Read(p)
    BY <1>1, <1>3, <2>2 DEF Read, WInv, TypeOK
  <2> QED BY <2>1, <2>2
<1>5. /\ Len(pipe'[<<q, p>>]) <= Len(pipe[<<q, p>>])
      /\ Len(pipe'[<<q, p>>]) \in Nat
      /\ Len(pipe[<<q, p>>]) \in Nat
      /\ Len(pipe'[<<q, p>>]) # Cap
  <2>1. Len(old) \in Nat /\ Len(old) <= Cap
    BY <1>1, <1>3 DEF WInv, PipesFit
  <2>2. CASE old = <<>>
    BY <1>3, <1>4, <2>2
  <2>3. CASE old # <<>>
    <3>1. Len(Tail(old)) = Len(old) - 1 /\ Len(old) # 0
      BY <2>3
    <3>2. Len(pipe'[<<q, p>>]) = Len(old) - 1 /\ Len(pipe[<<q, p>>]) = Len(old)
      BY <1>3, <1>4, <2>3, <3>1
    <3>3. Cap \in Nat
      OBVIOUS
    <3>4. PICK l \in Nat : l = Len(old)
      BY <2>1
    <3>5. /\ l - 1 <= l /\ l - 1 \in Nat /\ l - 1 # Cap
      <4>1. l # 0 /\ l <= Cap
        BY <2>1, <3>1, <3>4
      <4> QED BY ONLY <3>3, <4>1, l \in Nat
    <3>6. Len(pipe'[<<q, p>>]) = l - 1 /\ Len(pipe[<<q, p>>]) = l
      BY <3>2, <3>4
    <3> QED BY ONLY <3>4, <3>5, <3>6
  <2> QED BY <2>2, <2>3
<1>6. \A e \in Edges : Len(pipe'[e]) <= Len(pipe[e]) /\ Len(pipe'[e]) \in Nat
                       /\ Len(pipe[e]) \in Nat
  <2> SUFFICES ASSUME NEW e \in Edges
               PROVE  /\ Len(pipe'[e]) <= Len(pipe[e]) /\ Len(pipe'[e]) \in Nat
                      /\ Len(pipe[e]) \in Nat
    OBVIOUS
  <2>1. CASE e = <<q, p>>
    BY <1>5, <2>1
  <2>2. CASE e # <<q, p>>
    <3>1. pipe[e] \in Seq(Copies) /\ pipe'[e] = pipe[e]
      BY <1>4, <2>2 DEF WInv, TypeOK
    <3>2. Len(pipe[e]) \in Nat
      BY <3>1
    <3> QED BY <3>1, <3>2
  <2> QED BY <2>1, <2>2
<1>7. \A n \in Nodes \ {p} : at'[n] = at[n] /\ i'[n] = i[n]
  BY <1>0, OnwardTypes DEF WInv
<1>8. ASSUME NEW x \in Nodes, x # q, <<x, p>> \in Edges, at'[p] = "read" => Past(p, x)'
      PROVE  Past(p, x) \/ at'[p] = "ended"
  <2>1. IsNbr(p, x)
    BY <1>8, GraphAssumption DEF Edges
  <2>2. PICK h \in 1 .. Len(Nbrs[p]) : Nbrs[p][h] = x
    BY <2>1 DEF IsNbr
  <2>3. h # i[p] /\ h \in Nat /\ i[p] \in Nat
    BY <1>2, <1>8, <2>2
  <2>4. CASE i[p] < Len(Nbrs[p])
    <3>1. at'[p] = "read" /\ i'[p] = i[p] + 1
      BY <1>0, <2>4 DEF Onward, WInv, TypeOK
    <3>2. PICK g \in 1 .. Len(Nbrs[p]) : g < i'[p] /\ Nbrs[p][g] = x
      BY <1>8, <3>1 DEF Past
    <3>3. g # i[p] /\ g \in Nat
      BY <1>2, <1>8, <3>2
    <3>4. g < i[p]
      BY <2>3, <3>1, <3>2, <3>3
    <3> QED BY <3>2, <3>4 DEF Past
  <2>5. CASE ~ i[p] < Len(Nbrs[p])
    <3>1. h < i[p]
      BY <1>2, <2>2, <2>3, <2>5, ListTypes
    <3> QED BY <2>2, <3>1 DEF Past
  <2> QED BY <2>4, <2>5
<1>9. ASSUME NEW n \in Nodes, NEW m \in Nodes, NEW x \in Nodes,
             <<x, n>> \in Edges, ReadSince(n, m, x)'
      PROVE  ReadSince(n, m, x) \/ Len(pipe'[<<x, n>>]) # Cap
  <2>1. CASE n = p /\ x = q
    BY <1>5, <2>1
  <2>2. CASE n = p /\ x # q
    <3>1. at'[p] = "read" => Past(p, x)'
      BY <1>9, <2>2 DEF ReadSince
    <3>2. at'[p] # "ended"
      BY <1>9, <2>2 DEF ReadSince
    <3>3. Past(p, x)
      BY <1>8, <1>9, <2>2, <3>1, <3>2
    <3> QED BY <1>0, <2>2, <3>3 DEF ReadSince
  <2>3. CASE n # p
    BY <1>7, <1>9, <2>3 DEF ReadSince, Past
  <2> QED BY <2>1, <2>2, <2>3
<1> QED BY <1>6, <1>9, TimesStay

LEMMA TimesKept ==
  ASSUME WInv, [Next]_vars
  PROVE  WInv'
<1>1. TypeOK' /\ Reading'
  BY TypesKept DEF WInv
<1>2. CASE UNCHANGED vars \/ Verify
  <2>1. UNCHANGED <<at, i, pipe>>
    BY <1>2 DEF vars, Verify
  <2>2. PipesFit' /\ Timed'
    BY <2>1 DEF WInv, PipesFit, Timed, Ordered, Full, ReadSince, Past
  <2> QED BY <1>1, <2>2 DEF WInv
<1>3. ASSUME NEW p \in Nodes, Node(p) PROVE WInv'
  BY <1>1, <1>3, WriteTimes, FoldTimes, ReadTimes DEF Node, WInv
<1> QED BY <1>2, <1>3 DEF Next

LEMMA TimesAtInit == Init => WInv
<1> SUFFICES ASSUME Init PROVE WInv
  OBVIOUS
<1>1. \A e \in Edges : Len(pipe[e]) = 0
  BY DEF Init
<1>2. PipesFit
  BY <1>1 DEF PipesFit
<1>3. [e \in Edges |-> 0] \in [Edges -> 0 .. 0] /\ 0 \in Nat
  OBVIOUS
<1>4. Ordered([e \in Edges |-> 0])
  BY <1>1 DEF Ordered, Full
<1>5. Timed
  BY <1>3, <1>4 DEF Timed
<1> QED BY <1>2, <1>5, TypesAtInit DEF WInv

\* Each of the nodes in S waits for one of them.
Ring(S) == S # {} /\ \A n \in S : Waits(n) /\ Nbr(n) \in S

LEMMA TimedIsNoRing ==
  ASSUME WInv, NEW S \in SUBSET Nodes, Ring(S)
  PROVE  FALSE
<1>1. PICK c \in Nat : \E t \in [Edges -> 0 .. c] : Ordered(t)
  BY DEF WInv, Timed
<1>2. PICK t \in [Edges -> 0 .. c] : Ordered(t)
  BY <1>1
<1>3. ASSUME NEW n \in S
      PROVE  /\ n \in Nodes /\ Nbr(n) \in S /\ <<n, Nbr(n)>> \in Edges
             /\ t[<<n, Nbr(n)>>] \in Nat
             /\ Full(<<n, Nbr(n)>>)
             /\ at[n] = "write" /\ ~ Past(n, Nbr(n))
  <2>1. Waits(n) /\ Nbr(n) \in S
    BY DEF Ring
  <2>2. <<n, Nbr(n)>> \in Edges /\ i[n] \in 1 .. Len(Nbrs[n]) /\ at[n] = "write"
        /\ Nbrs[n][i[n]] = Nbr(n) /\ Full(<<n, Nbr(n)>>)
    BY <2>1, NbrIsEdge DEF Waits, WInv, Nbr, Full
  <2>3. t[<<n, Nbr(n)>>] \in 0 .. c
    BY <1>2, <2>2
  <2>4. ~ Past(n, Nbr(n))
    <3>1. \A h \in 1 .. Len(Nbrs[n]) : Nbrs[n][h] = Nbr(n) => h = i[n]
      BY <2>2
    <3>2. i[n] \in Nat
      BY <2>2
    <3> QED BY <3>1, <3>2 DEF Past
  <2> QED BY <2>1, <2>2, <2>3, <2>4
<1> DEFINE T == {t[<<n, Nbr(n)>>] : n \in S}
<1>4. T \subseteq Nat /\ T # {}
  <2>1. \A y \in T : y \in Nat
    BY <1>3
  <2>2. PICK n \in S : TRUE
    BY DEF Ring
  <2>3. t[<<n, Nbr(n)>>] \in T
    OBVIOUS
  <2> QED BY <2>1, <2>3
<1>5. PICK least \in T : \A y \in T : least <= y
  BY <1>4, Least
<1>6. PICK n \in S : least = t[<<n, Nbr(n)>>]
  BY <1>5
<1>7. PICK m \in S : m = Nbr(n)
  BY <1>3
<1>8. t[<<m, Nbr(m)>>] < t[<<n, m>>]
  <2>1. PICK o \in Nodes : o = Nbr(m)
    BY <1>3
  <2>2. /\ n \in Nodes /\ m \in Nodes /\ <<m, o>> \in Edges /\ <<n, m>> \in Edges
        /\ Full(<<n, m>>) /\ at[m] = "write" /\ ~ Past(m, o)
    BY <1>3, <1>7, <2>1
  <2>3. t[<<m, o>>] < t[<<n, m>>]
    BY <1>2, <2>2 DEF Ordered, ReadSince
  <2> QED BY <2>1, <2>3
<1>9. t[<<m, Nbr(m)>>] \in T /\ t[<<m, Nbr(m)>>] \in Nat /\ t[<<n, m>>] \in Nat
  BY <1>3, <1>7
<1>10. least <= t[<<m, Nbr(m)>>] /\ least = t[<<n, m>>]
  BY <1>5, <1>6, <1>7, <1>9
<1> HIDE DEF T
<1> QED BY <1>8, <1>9, <1>10

\* The nodes never wait for each other in a ring: in each set of nodes there is
\* one that can go on, or that waits for a node outside.  So if some have not
\* ended, one of them can go on, or waits for a node that has ended; and this for
\* any graph, and any number of messages that fit in a pipe (node.c).
THEOREM NodesGoOn ==
  Spec => [](/\ \A S \in SUBSET Nodes : ~ Ring(S)
             /\ (\E n \in Nodes : at[n] # "ended") =>
                   \E n \in Nodes : at[n] # "ended" /\ (~ Waits(n) \/ Stuck(n)))
<1>1. ASSUME WInv
      PROVE  /\ \A S \in SUBSET Nodes : ~ Ring(S)
             /\ (\E n \in Nodes : at[n] # "ended") =>
                   \E n \in Nodes : at[n] # "ended" /\ (~ Waits(n) \/ Stuck(n))
  <2>1. \A S \in SUBSET Nodes : ~ Ring(S)
    BY <1>1, TimedIsNoRing
  <2>2. ASSUME NEW n \in Nodes, at[n] # "ended",
               \A m \in Nodes : at[m] # "ended" => Waits(m) /\ ~ Stuck(m)
        PROVE  FALSE
    <3> DEFINE S == {m \in Nodes : at[m] # "ended"}
    <3>1. ASSUME NEW m \in S PROVE Waits(m) /\ Nbr(m) \in S
      <4>1. Waits(m) /\ at[Nbr(m)] # "ended"
        BY <2>2 DEF Stuck
      <4>2. Nbr(m) \in Nodes
        BY <1>1, <4>1, NbrIsEdge DEF Waits, WInv
      <4> QED BY <4>1, <4>2
    <3>2. S # {} /\ S \in SUBSET Nodes
      BY <2>2
    <3> HIDE DEF S
    <3>3. Ring(S)
      BY <3>1, <3>2 DEF Ring
    <3> QED BY <2>1, <3>2, <3>3
  <2> QED BY <2>1, <2>2
<1> QED BY <1>1, TimesAtInit, TimesKept, PTL DEF Spec
=============================================================================
