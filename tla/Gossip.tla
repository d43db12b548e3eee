------------------------------- MODULE Gossip -------------------------------
(***************************************************************************)
(* os_lab/labtest1/13CS30011: master.c makes a pipe in each direction for  *)
(* each edge of the graph and a process for each node.  A node (node.c)    *)
(* writes what was new to it to all neighbours, adds it to total, reads at *)
(* most one message of each neighbour without waiting, and begins again,   *)
(* until total has all nodes.  No end of a pipe is ever closed: a write to *)
(* a pipe that nobody reads any more waits once the pipe is full.          *)
(*                                                                         *)
(* An entry {nodeno, value} is stood for by the node.  current and the     *)
(* messages may have an entry several times: they are bags, as functions   *)
(* from nodes to the number of copies.                                     *)
(***************************************************************************)
EXTENDS Neighbours, FiniteSets

CONSTANT Cap \* messages that fit in a pipe (80 of 804 bytes on Linux)

ASSUME CapAssumption == Cap \in Nat \ {0}

VARIABLES
  at,        \* at[n]: the loop node n is in: "write" (and copying), "read", "ended"
  i,         \* i[n]: the neighbour that is next in it
  current,   \* current[n]: copies of each node in current
  total,     \* total[n]: the nodes whose value n has
  pipe,      \* pipe[e]: messages on the way from e[1] to e[2]
  master,    \* the node that the master waits for next
  aborted    \* the master's assert has failed

vars == <<at, i, current, total, pipe, master, aborted>>

Copies == [Nodes -> Nat]
None == [x \in Nodes |-> 0]
In(bag) == {x \in Nodes : bag[x] > 0}

Init ==
  /\ at = [n \in Nodes |-> "write"]
  /\ i = [n \in Nodes |-> 1]
  /\ current = [n \in Nodes |-> [None EXCEPT ![n] = 1]]
  /\ total = [n \in Nodes |-> {}]
  /\ pipe = [e \in Edges |-> <<>>]
  /\ master = 1
  /\ aborted = FALSE

-----------------------------------------------------------------------------
(* A node.  The operators called Bad... are plausible errors in the        *)
(* definition after them, which break a property; nothing else uses them.  *)

Nbr(n) == Nbrs[n][i[n]]
HasNbr(n) == i[n] <= Len(Nbrs[n])

\* The write is not waited for, as with O_NONBLOCK on the other end.
BadWrite(n) ==
  /\ at[n] = "write" /\ HasNbr(n)
  /\ pipe' = [pipe EXCEPT ![<<n, Nbr(n)>>] =
                IF Len(@) < Cap THEN Append(@, current[n]) ELSE @]
  /\ i' = [i EXCEPT ![n] = @ + 1]
  /\ UNCHANGED <<at, current, total, master, aborted>>

Write(n) ==
  /\ at[n] = "write" /\ HasNbr(n)
  /\ Len(pipe[<<n, Nbr(n)>>]) < Cap
  /\ pipe' = [pipe EXCEPT ![<<n, Nbr(n)>>] = Append(@, current[n])]
  /\ i' = [i EXCEPT ![n] = @ + 1]
  /\ UNCHANGED <<at, current, total, master, aborted>>

Goto(n, to) ==
  /\ at' = [at EXCEPT ![n] = to]
  /\ i' = [i EXCEPT ![n] = 1]

\* total_nodes <= N
BadEndRound(n) == Goto(n, "write")

\* while(total_nodes < N)
EndRound(n) == Goto(n, IF total'[n] = Nodes THEN "ended" ELSE "write")

\* Nothing is left of current when it is copied.
BadFold(n) ==
  /\ at[n] = "write" /\ ~ HasNbr(n)
  /\ current' = [current EXCEPT ![n] = None]
  /\ total' = [total EXCEPT ![n] = @ \cup In(current'[n])]
  /\ IF Nbrs[n] # <<>> THEN Goto(n, "read") ELSE EndRound(n)
  /\ UNCHANGED <<pipe, master, aborted>>

Fold(n) ==
  /\ at[n] = "write" /\ ~ HasNbr(n)
  /\ total' = [total EXCEPT ![n] = @ \cup In(current[n])]
  /\ current' = [current EXCEPT ![n] = None]
  /\ IF Nbrs[n] # <<>> THEN Goto(n, "read") ELSE EndRound(n)
  /\ UNCHANGED <<pipe, master, aborted>>

\* The next neighbour to read from, or while(total_nodes < N) after the last.
Onward(n) ==
  IF i[n] < Len(Nbrs[n]) THEN i' = [i EXCEPT ![n] = @ + 1] /\ UNCHANGED at
                         ELSE EndRound(n)

ReadNothing(n) ==
  /\ at[n] = "read"
  /\ pipe[<<Nbr(n), n>>] = <<>>
  /\ UNCHANGED <<current, total, pipe, master, aborted>>
  /\ Onward(n)

\* All of the message, also what n has already.
BadAdded(n, msg) == [x \in Nodes |-> current[n][x] + msg[x]]

\* What is new to n in a message is added to current, as often as it is there.
Added(n, msg) ==
  [x \in Nodes |-> IF x \in total[n] THEN current[n][x] ELSE current[n][x] + msg[x]]

Read(n) ==
  /\ at[n] = "read"
  /\ pipe[<<Nbr(n), n>>] # <<>>
  /\ current' = [current EXCEPT ![n] = Added(n, Head(pipe[<<Nbr(n), n>>]))]
  /\ pipe' = [pipe EXCEPT ![<<Nbr(n), n>>] = Tail(@)]
  /\ UNCHANGED <<total, master, aborted>>
  /\ Onward(n)

Node(n) == Write(n) \/ Fold(n) \/ ReadNothing(n) \/ Read(n)

-----------------------------------------------------------------------------
(* The master waits for the nodes in their order.  The sum of a node starts *)
(* with no value, so that its exit code is the mean or another one.        *)

Verify ==
  /\ master <= N /\ ~ aborted
  /\ at[master] = "ended"
  /\ \/ master' = master + 1 /\ UNCHANGED aborted
     \/ aborted' = TRUE /\ UNCHANGED master
  /\ UNCHANGED <<at, i, current, total, pipe>>

Next == Verify \/ \E n \in Nodes : Node(n)

Spec == Init /\ [][Next]_vars

\* The processes keep running.
LiveSpec == Spec /\ WF_vars(Verify) /\ \A n \in Nodes : WF_vars(Node(n))

-----------------------------------------------------------------------------
(* Properties.                                                             *)

\* Every variable keeps the values its declaration in the code allows.
TypeOK ==
  /\ at \in [Nodes -> {"write", "read", "ended"}]
  /\ i \in [Nodes -> Nat \ {0}]
  /\ current \in [Nodes -> Copies]
  /\ total \in [Nodes -> SUBSET Nodes]
  /\ pipe \in [Edges -> Seq(Copies)]
  /\ master \in 1 .. N + 1
  /\ aborted \in BOOLEAN

\* x is on its way from n to m.
UnderWay(x, n, m) == \E k \in 1 .. Len(pipe[<<n, m>>]) : pipe[<<n, m>>][k][x] > 0

\* Though a node sends each value once, throws away what it knows already and
\* stops reading and writing when it has all, no value is lost at any edge:
\* what a node has, each neighbour has, or has just read, or will read.
PassedOn ==
  \A e \in Edges : \A x \in total[e[1]] :
    \/ x \in total[e[2]]
    \/ x \in In(current[e[2]])
    \/ UnderWay(x, e[1], e[2])

\* The ways from x to n that come to no node twice, as lists of nodes.
Routes(x, n) ==
  {w \in UNION {[1 .. m -> Nodes] : m \in 1 .. N} :
     /\ w[1] = x /\ w[Len(w)] = n
     /\ \A j \in 1 .. Len(w) - 1 : <<w[j], w[j + 1]>> \in Edges
     /\ \A p, q \in 1 .. Len(w) : w[p] = w[q] => p = q}

NumRoutes == [x \in Nodes |-> [n \in Nodes |-> Cardinality(Routes(x, n))]]

\* A node has several copies of a value in current, which has room for
\* MAX_NODES, only if they have come on different ways.
CopiesAreWays ==
  \A x, n \in Nodes : current[n][x] <= NumRoutes[x][n]

\* With what is in total and in current the nodes do what Spreading says.
Values == INSTANCE Spreading
            WITH known <- [n \in Nodes |-> total[n] \cup In(current[n])]
Spreads == Values!Spec

\* A node waits to write to a pipe that is full; if the neighbour has ended, it
\* waits for ever.
Waits(n) ==
  /\ at[n] = "write" /\ HasNbr(n)
  /\ Len(pipe[<<n, Nbr(n)>>]) = Cap
Stuck(n) == Waits(n) /\ at[Nbr(n)] = "ended"

\* The nodes never wait for each other in a ring: in a connected graph all of
\* them end and the master looks at their results, unless one of them has
\* filled a pipe, before it knew all, that its neighbour has stopped reading.
MasterFinishes ==
  <> \/ aborted \/ master = N + 1
     \/ \E n \in Nodes : Stuck(n)
=============================================================================
