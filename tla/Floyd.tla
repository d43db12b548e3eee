-------------------------------- MODULE Floyd --------------------------------
(***************************************************************************)
(* os_lab/assignment7/13CS30011_fw.c: for each k the main thread creates a *)
(* thread for each row i, which relaxes the cells of its row one after the *)
(* other, and joins them all before the next k.  The threads share dist    *)
(* without a lock ("TODO: wait on semaphore and then update dist"): all of *)
(* them read row k, which thread k may write.  Each read of a cell of row  *)
(* k is a step.  Sums that do not fit an int are left out.                 *)
(***************************************************************************)
EXTENDS FloydState

vars == <<dist, k, main, row, thread, col, input, start>>

Init ==
  /\ input \in Inputs
  /\ dist = input
  /\ start = input
  /\ k = 0
  /\ main = "create"
  /\ row = 0
  /\ thread = [i \in Vertices |-> "none"]
  /\ col = [i \in Vertices |-> 0]

-----------------------------------------------------------------------------
(* main.  The operators called Bad... are plausible errors in the          *)
(* definition after them, which break a property; nothing else uses them.  *)

Create ==
  /\ k < Size /\ main = "create"
  /\ thread' = [thread EXCEPT ![row] = "reach"]
  /\ col' = [col EXCEPT ![row] = 0]
  /\ IF row = Size - 1 THEN main' = "join" /\ row' = 0
                       ELSE main' = main /\ row' = row + 1
  /\ UNCHANGED <<dist, k, input, start>>

\* The threads are not waited for.
BadJoin ==
  /\ main = "join"
  /\ thread' = [thread EXCEPT ![row] = "none"]
  /\ IF row = Size - 1
     THEN main' = "create" /\ row' = 0 /\ k' = k + 1 /\ start' = dist
     ELSE main' = main /\ row' = row + 1 /\ UNCHANGED <<k, start>>
  /\ UNCHANGED <<dist, col, input>>

Join ==
  /\ main = "join" /\ thread[row] = "ended"
  /\ thread' = [thread EXCEPT ![row] = "none"]
  /\ IF row = Size - 1
     THEN main' = "create" /\ row' = 0 /\ k' = k + 1 /\ start' = dist
     ELSE main' = main /\ row' = row + 1 /\ UNCHANGED <<k, start>>
  /\ UNCHANGED <<dist, col, input>>

-----------------------------------------------------------------------------
(* The thread of row i, in updateDist(i, col[i], k).                       *)

Advance(i) ==
  /\ thread' = [thread EXCEPT ![i] = IF col[i] = Size - 1 THEN "ended" ELSE "reach"]
  /\ col' = [col EXCEPT ![i] = @ + 1]

Goto(i, to) ==
  /\ thread' = [thread EXCEPT ![i] = to]
  /\ UNCHANGED col

Reach(i) ==
  /\ thread[i] = "reach"
  /\ IF dist[i][k] = INF \/ dist[k][col[i]] = INF
     THEN Advance(i)
     ELSE Goto(i, "compare")
  /\ UNCHANGED <<dist, k, main, row, input, start>>

\* A cell without a path is not shorter.
BadCompare(i) ==
  /\ thread[i] = "compare"
  /\ IF dist[i][k] + dist[k][col[i]] < dist[i][col[i]]
     THEN Goto(i, "write")
     ELSE Advance(i)
  /\ UNCHANGED <<dist, k, main, row, input, start>>

Compare(i) ==
  /\ thread[i] = "compare"
  /\ IF \/ dist[i][col[i]] = INF
        \/ dist[i][k] + dist[k][col[i]] < dist[i][col[i]]
     THEN Goto(i, "write")
     ELSE Advance(i)
  /\ UNCHANGED <<dist, k, main, row, input, start>>

Write(i) ==
  /\ thread[i] = "write"
  /\ dist' = [dist EXCEPT ![i][col[i]] = dist[i][k] + dist[k][col[i]]]
  /\ Advance(i)
  /\ UNCHANGED <<k, main, row, input, start>>

-----------------------------------------------------------------------------
Thread(i) == Reach(i) \/ Compare(i) \/ Write(i)

Next ==
  \/ Create
  \/ Join
  \/ \E i \in Vertices : Thread(i)

Spec == Init /\ [][Next]_vars

-----------------------------------------------------------------------------
(* Properties, with DoesStages and IsShortest of FloydState.               *)

\* Every variable keeps the values its declaration in the code allows; a thread
\* that runs is in a column.
TypeOK ==
  /\ dist \in Matrices
  /\ input \in Matrices
  /\ start \in Matrices
  /\ k \in 0 .. Size
  /\ main \in {"create", "join"}
  /\ row \in Vertices
  /\ thread \in [Vertices -> {"none", "reach", "compare", "write", "ended"}]
  /\ col \in [Vertices -> 0 .. Size]
  /\ \A i \in Vertices : thread[i] \in {"reach", "compare", "write"} => col[i] < Size

\* What the threads of k share does not change while they run, though thread k
\* relaxes row k and every thread a cell of column k: the race is harmless.
SharedIsStill ==
  k < Size => \A i \in Vertices : /\ dist[k][i] = start[k][i]
                            /\ dist[i][k] = start[i][k]

\* After the stages done no two nodes have a shorter way by a node of these, or
\* a shorter edge; and the matrix after Size stages is what is printed.
NothingShorter ==
  /\ Below(start, input)
  /\ ClosedFor(start, k)
  /\ k = Size => dist = start

\* Whatever is at most every edge and has no shorter way by any node is at most
\* the matrix: no distance is too short.
NotTooShort ==
  \A d \in Matrices : Below(d, input) /\ ClosedFor(d, Size) => Below(d, start)

=============================================================================
