---------------------------- MODULE BookingState ----------------------------
(* networks_lab/assignment2: what the clients, the server and the table of  *)
(* the ticket counter keep, and what the answers are to be.  Booking has    *)
(* the steps.                                                               *)
EXTENDS Naturals, FiniteSets, SequencesExt

CONSTANTS
  Clients,
  NoClient,
  Silent,          \* clients that keep a slot and send nothing
  Berths,          \* the rows of tb_seat
  Train, Coach, CoachType, SeatType,    \* columns of tb_seat
  Lines,           \* lines of the request files
  MaxClients,      \* client_socket[30]
  MaxConnections,  \* that MySQL accepts from one server
  MaxLines,        \* bound: lines of each client's request file
  MaxStarts        \* bound: times the server is started

\* Of a request for which no coach has room enough.
NoCoach == ""

ASSUME BookingAssumption ==
  /\ IsFiniteSet(Berths)
  /\ {NoClient, Silent} \cap Clients = {} /\ NoClient # Silent
  /\ MaxClients \in Nat \ {0}
  /\ \A b \in Berths : Coach[b] # NoCoach
  /\ \A r \in Lines : r.qty \in 1 .. 9 /\ Len(r.prefs) \in {1, r.qty}

VARIABLES
  client,       \* client[c]: what client c does
  conn,         \* conn[c]: the connection as client c finds it
  buf,          \* buf[c] of client.c
  sent,         \* sent[c]: lines sent
  file,         \* file[c]: lines of the output file
  up,           \* up[c]: requests on their way
  down,         \* down[c]: what the server has sent and c has not received
  peer,         \* peer[c]: the connection as the server finds it
  backlog,      \* connections not accepted yet
  flag,         \* flag[b]: 1 free, 3 being booked, 2 booked
  server,       \* what the server does
  slots,        \* client_socket
  ready,        \* clients of readfds that are still to be read
  serving,      \* the client of the slot i
  line,         \* the request in buffer and field
  failed,       \* the last recv() has failed
  coach,        \* row[0]: the coach all berths are taken from
  given,        \* response
  connections,  \* connections to MySQL, which are never closed
  starts,       \* bound
  stray,        \* history: a server ended with a berth half booked
  upset,        \* history: a client was killed, or a server interrupted
  told          \* history: told[b]: how often b was in an answer sent

-----------------------------------------------------------------------------
(* The berths of a train that are free, and those of a set by coach.       *)

Free(t) == {b \in Berths : flag[b] = 1 /\ Train[b] = t}
OfType(B, y) == {b \in B : CoachType[b] = y}
InCoach(B, k) == {b \in B : Coach[b] = k}
Coaches == {Coach[b] : b \in Berths}
Roomy(B, n) == {k \in Coaches : Cardinality(InCoach(B, k)) >= n}

-----------------------------------------------------------------------------
(* Properties.                                                             *)

\* A berth is told to at most one passenger and is booked then, whatever has
\* been killed and restarted; and unless something was, no berth is booked that
\* nobody is told of (server.c:291-336, 395-407).
BerthsAddUp ==
  \A b \in Berths :
    /\ told[b] <= 1
    /\ told[b] = 1 => flag[b] = 2
    /\ ~upset /\ flag[b] = 2 => told[b] = 1 \/ Contains(given, b)

Together(B) == \E k \in Coaches : InCoach(B, k) = B

\* A client's file answers its lines one for one, with as many berths of the
\* right train as asked for or with "NA", until the server goes away or has
\* found a berth that another one left half booked.  The berths are in one
\* coach if one has room for all, and "NA" means that there are too few.
AsAsked ==
  ~stray =>
    /\ \A c \in Clients : conn[c] = "open" =>
         \A n \in DOMAIN file[c] :
           \/ file[c][n].kind = "NA"
           \/ /\ file[c][n].kind = "berths"
              /\ Len(file[c][n].berths) = sent[c][n].qty
              /\ \A b \in Range(file[c][n].berths) : Train[b] = sent[c][n].train
    /\ server = "write" =>
         LET had == OfType(Free(line.train) \union Range(given), line.type)
         IN  IF given = <<>> THEN Cardinality(had) < line.qty
             ELSE Together(Range(given)) \/ Roomy(had, line.qty) = {}
=============================================================================
