------------------------------- MODULE Booking -------------------------------
(***************************************************************************)
(* networks_lab/assignment2: the ticket counter.  A client (client.c)      *)
(* sends the lines of a file of requests one by one and writes the answers *)
(* into another file.  The server (server.c) serves all connections in one *)
(* select() loop and books in a MySQL table, which its statements change   *)
(* one at a time and which outlives it.  The server's forked child, which  *)
(* only displays sums of the table, keeps the listening socket open.       *)
(*                                                                         *)
(* One server at a time uses the table.  A line comes in one piece, asks   *)
(* for 1 to 9 berths, and has a preference for each or "NA" for all, so    *)
(* that field[10] and server_response[100] have room.  MySQL's statements  *)
(* do not fail, but it has only so many connections.  TCP as in Linux: a   *)
(* process that ends resets the connections on which it has not read       *)
(* everything and closes the others, and who has seen a close sees no      *)
(* reset.                                                                  *)
(***************************************************************************)
EXTENDS BookingState, FiniteSetsExt

clientVars == <<client, conn, buf, sent, file>>
netVars == <<up, down, peer, backlog>>
bookVars == <<coach, given>>
serverVars == <<server, slots, ready, serving, line, failed, connections>>
history == <<starts, stray, upset, told>>
vars == <<clientVars, netVars, flag, serverVars, bookVars, history>>

NoLine == [train |-> 0, type |-> "", qty |-> 0, prefs |-> <<>>]
Answer(kind, berths) == [kind |-> kind, berths |-> berths]
Blank == Answer("blank", <<>>)
Welcome == Answer("welcome", <<>>)

\* What init_database leaves.
AllFree == [b \in Berths |-> 1]

Init ==
  /\ client = [c \in Clients |-> "new"]
  /\ conn = [c \in Clients |-> "open"]
  /\ buf = [c \in Clients |-> Blank]
  /\ sent = [c \in Clients |-> <<>>]
  /\ file = [c \in Clients |-> <<>>]
  /\ up = [c \in Clients |-> <<>>]
  /\ down = [c \in Clients |-> <<>>]
  /\ peer = [c \in Clients |-> "open"]
  /\ backlog = <<>>
  /\ flag = AllFree
  /\ server = "select"
  /\ slots \in [1 .. MaxClients -> {NoClient, Silent}]
  /\ ready = {}
  /\ serving = NoClient
  /\ line = NoLine
  /\ failed = FALSE
  /\ coach = NoCoach
  /\ given = <<>>
  /\ connections = 0
  /\ starts = 1
  /\ stray = FALSE
  /\ upset = FALSE
  /\ told = [b \in Berths |-> 0]

-----------------------------------------------------------------------------
(* The client.                                                             *)

\* The status child listens, even if nobody accepts.
Connect(c) ==
  /\ client[c] = "new"
  /\ server # "none"
  /\ client' = [client EXCEPT ![c] = "greet"]
  /\ backlog' = Append(backlog, c)
  /\ UNCHANGED <<conn, buf, sent, file, up, down, peer, flag, serverVars, bookVars, history>>

\* Whether anything was received is not looked at.
Greeted(c) ==
  /\ client[c] = "greet"
  /\ \/ /\ down[c] # <<>>
        /\ down' = [down EXCEPT ![c] = Tail(@)]
        /\ buf' = [buf EXCEPT ![c] = Welcome]
        /\ UNCHANGED conn
     \/ /\ down[c] = <<>> /\ conn[c] = "reset"
        /\ conn' = [conn EXCEPT ![c] = "broken"]
        /\ UNCHANGED <<down, buf>>
  /\ client' = [client EXCEPT ![c] = "idle"]
  /\ UNCHANGED <<sent, file, up, peer, backlog, flag, serverVars, bookVars, history>>

\* The first write to a closed connection succeeds, the next one, and any to a
\* broken one, ends the client.
SendLine(c) ==
  /\ client[c] = "idle"
  /\ Len(sent[c]) < MaxLines[c]
  /\ IF conn[c] \in {"half", "broken"}
     THEN /\ client' = [client EXCEPT ![c] = "killed"]
          /\ UNCHANGED <<conn, sent, up>>
     ELSE \E r \in Lines :
            /\ client' = [client EXCEPT ![c] = "waits"]
            /\ sent' = [sent EXCEPT ![c] = Append(@, r)]
            /\ up' = IF conn[c] = "open" THEN [up EXCEPT ![c] = Append(@, r)] ELSE up
            /\ conn' = IF conn[c] = "open" THEN conn ELSE [conn EXCEPT ![c] = "half"]
  /\ UNCHANGED <<buf, file, down, peer, backlog, flag, serverVars, bookVars, history>>

\* A recv() that fails leaves buf as it is: the last answer is written again.
Receive(c) ==
  /\ client[c] = "waits"
  /\ \/ /\ down[c] # <<>>
        /\ buf' = [buf EXCEPT ![c] = Head(down[c])]
        /\ down' = [down EXCEPT ![c] = Tail(@)]
        /\ UNCHANGED conn
     \/ /\ down[c] = <<>> /\ conn[c] \in {"closed", "half"}
        /\ buf' = [buf EXCEPT ![c] = Blank]
        /\ UNCHANGED <<down, conn>>
     \/ /\ down[c] = <<>> /\ conn[c] = "reset"
        /\ conn' = [conn EXCEPT ![c] = "broken"]
        /\ UNCHANGED <<buf, down>>
  /\ file' = [file EXCEPT ![c] = Append(@, buf'[c])]
  /\ client' = [client EXCEPT ![c] = "idle"]
  /\ UNCHANGED <<sent, up, peer, backlog, flag, serverVars, bookVars, history>>

\* The end of the request file.
Close(c) ==
  /\ client[c] = "idle"
  /\ client' = [client EXCEPT ![c] = "done"]
  /\ peer' = [peer EXCEPT ![c] = "closed"]
  /\ UNCHANGED <<conn, buf, sent, file, up, down, backlog, flag, serverVars, bookVars, history>>

\* The user interrupts the client.
Kill(c) ==
  /\ client[c] \in {"greet", "idle", "waits"}
  /\ client' = [client EXCEPT ![c] = "killed"]
  /\ peer' = [peer EXCEPT ![c] = IF down[c] = <<>> THEN "closed" ELSE "reset"]
  /\ down' = [down EXCEPT ![c] = <<>>]
  /\ upset' = TRUE
  /\ UNCHANGED <<conn, buf, sent, file, up, backlog, flag, serverVars, bookVars,
                 starts, stray, told>>

-----------------------------------------------------------------------------
(* The server's connections.  The operators called Bad... are plausible    *)
(* errors in the definition after them, which break a property; nothing    *)
(* else uses them.                                                         *)

Listed == Range(slots) \ {NoClient, Silent}
Waiting(c) == up[c] # <<>> \/ peer[c] # "open"
Ends(c) == client[c] \in {"done", "killed"}

\* max_sd stays that of the listening socket.
BadReadable == {}
Readable == {c \in Listed : Waiting(c)}

Select ==
  /\ server = "select"
  /\ Readable # {} \/ backlog # <<>>
  /\ ready' = Readable
  /\ server' = IF backlog # <<>> THEN "accept" ELSE "scan"
  /\ UNCHANGED <<clientVars, netVars, flag, slots, serving, line, failed, connections,
                 bookVars, history>>

\* When client_socket is full the connection is in no slot and never read.
Accept ==
  /\ server = "accept"
  /\ LET c == Head(backlog)
         empty == {i \in DOMAIN slots : slots[i] = NoClient}
     IN  /\ slots' = IF empty = {} THEN slots ELSE [slots EXCEPT ![Min(empty)] = c]
         /\ down' = IF Ends(c) THEN down ELSE [down EXCEPT ![c] = Append(@, Welcome)]
  /\ backlog' = Tail(backlog)
  /\ server' = "scan"
  /\ UNCHANGED <<clientVars, up, peer, flag, ready, serving, line, failed, connections,
                 bookVars, history>>

ScanEnds ==
  /\ server = "scan" /\ ready = {}
  /\ server' = "select"
  /\ UNCHANGED <<clientVars, netVars, flag, slots, ready, serving, line, failed, connections,
                 bookVars, history>>

\* The slots are looked at in their order.
Turn(i) ==
  /\ server = "scan"
  /\ slots[i] \in ready
  /\ \A j \in DOMAIN slots : slots[j] \in ready => i <= j
  /\ ready' = ready \ {slots[i]}

RecvRequest(i) ==
  /\ Turn(i)
  /\ up[slots[i]] # <<>>
  /\ serving' = slots[i]
  /\ line' = Head(up[slots[i]])
  /\ up' = [up EXCEPT ![slots[i]] = Tail(@)]
  /\ failed' = FALSE
  /\ server' = "count"
  /\ UNCHANGED <<clientVars, down, peer, backlog, flag, slots, connections, bookVars, history>>

RecvEnd(i) ==
  /\ Turn(i)
  /\ up[slots[i]] = <<>> /\ peer[slots[i]] = "closed"
  /\ slots' = [slots EXCEPT ![i] = NoClient]
  /\ UNCHANGED <<clientVars, netVars, flag, server, serving, line, failed, connections,
                 bookVars, history>>

-----------------------------------------------------------------------------
(* The end of a server.                                                    *)

Accepted(c) == client[c] \notin {"new"} /\ ~Contains(backlog, c)

\* What clients find when the process is gone.
Hangup(lost) ==
  /\ conn' = [c \in Clients |->
                IF c \in lost /\ conn[c] = "open"
                THEN IF Accepted(c) /\ up[c] = <<>> THEN "closed" ELSE "reset"
                ELSE conn[c]]
  /\ up' = [c \in Clients |-> IF c \in lost THEN <<>> ELSE up[c]]
  /\ slots' = [i \in DOMAIN slots |-> NoClient]
  /\ ready' = {}
  /\ serving' = NoClient
  /\ line' = NoLine
  /\ failed' = FALSE
  /\ coach' = NoCoach
  /\ given' = <<>>
  /\ connections' = 0
  /\ UNCHANGED <<client, buf, sent, file, down, peer, flag, told, starts>>

\* The parent alone: the child keeps the port and the backlog.
Die ==
  /\ Hangup({c \in Clients : Accepted(c)})
  /\ server' = "dead"
  /\ UNCHANGED <<backlog, stray, upset>>

\* Parent and child are interrupted.
Interrupt ==
  /\ server # "none"
  /\ Hangup({c \in Clients : client[c] # "new"})
  /\ server' = "none"
  /\ backlog' = <<>>
  /\ stray' = (stray \/ \E b \in Berths : flag[b] = 3)
  /\ upset' = TRUE

\* Only then the port can be bound again.
Start ==
  /\ server = "none"
  /\ starts < MaxStarts
  /\ starts' = starts + 1
  /\ server' = "select"
  /\ UNCHANGED <<clientVars, netVars, flag, slots, ready, serving, line, failed,
                 connections, bookVars, stray, upset, told>>

\* recv() gives -1, which is not 0: what is left in buffer and field is taken
\* for a request.  The preferences have been split into field from its start,
\* so that only a single one leaves the last request whole; any other gives no
\* berth of no train.  There is nothing in field at first.  Either way the
\* write that follows ends the server.
RecvFails(i) ==
  /\ Turn(i)
  /\ up[slots[i]] = <<>> /\ peer[slots[i]] = "reset"
  /\ Len(line.prefs) = 1
  /\ serving' = slots[i]
  /\ failed' = TRUE
  /\ server' = "count"
  /\ UNCHANGED <<clientVars, netVars, flag, slots, line, connections, bookVars, history>>

RecvFailsOtherwise ==
  /\ server = "scan"
  /\ \E i \in DOMAIN slots :
       /\ slots[i] \in ready
       /\ \A j \in DOMAIN slots : slots[j] \in ready => i <= j
       /\ up[slots[i]] = <<>> /\ peer[slots[i]] = "reset"
  /\ Len(line.prefs) # 1
  /\ Die

-----------------------------------------------------------------------------
(* One request.                                                            *)

NoConnection ==
  /\ server = "count"
  /\ connections = MaxConnections
  /\ Die

\* The first coach with room for all, in the order MySQL lists them.
Count ==
  /\ server = "count"
  /\ connections < MaxConnections
  /\ connections' = connections + 1
  /\ given' = <<>>
  /\ LET free == OfType(Free(line.train), line.type)
         roomy == Roomy(free, line.qty)
     IN  IF Cardinality(free) >= line.qty
         THEN /\ server' = "take"
              /\ IF roomy = {} THEN coach' = NoCoach ELSE coach' \in roomy
         ELSE /\ server' = "write"
              /\ coach' = NoCoach
  /\ UNCHANGED <<clientVars, netVars, flag, slots, ready, serving, line, failed, history>>

\* The berths of any train.
BadPool == {b \in Berths : flag[b] = 1}
\* Without a coach for all, the type of the coach does not matter any more.
Pool ==
  IF coach = NoCoach THEN Free(line.train) ELSE InCoach(Free(line.train), coach)

\* Of "NA" the first is no seat type, and the others are what field has there.
Preferred ==
  LET n == Len(given) + 1
  IN  {b \in Pool : n <= Len(line.prefs) /\ SeatType[b] = line.prefs[n]}

Take ==
  /\ server = "take"
  /\ \E b \in IF Preferred # {} THEN Preferred ELSE Pool : flag' = [flag EXCEPT ![b] = 3]
  /\ server' = "look"
  /\ UNCHANGED <<clientVars, netVars, slots, ready, serving, line, failed, connections,
                 bookVars, history>>

\* The first of the berths being booked, whoever has marked it.
Look ==
  /\ server = "look"
  /\ \E b \in Berths : flag[b] = 3 /\ given' = Append(given, b)
  /\ server' = "settle"
  /\ UNCHANGED <<clientVars, netVars, flag, slots, ready, serving, line, failed, connections,
                 coach, history>>

\* The mark is left.
BadSettled == flag
Settled == [b \in Berths |-> IF flag[b] = 3 THEN 2 ELSE flag[b]]

Settle ==
  /\ server = "settle"
  /\ flag' = Settled
  /\ server' = IF Len(given) < line.qty THEN "take" ELSE "write"
  /\ UNCHANGED <<clientVars, netVars, slots, ready, serving, line, failed, connections,
                 bookVars, history>>

Write ==
  /\ server = "write"
  /\ ~failed
  /\ LET answer == IF given = <<>> THEN Answer("NA", <<>>) ELSE Answer("berths", given)
     IN  down' = IF Ends(serving) THEN down
                 ELSE [down EXCEPT ![serving] = Append(@, answer)]
  /\ told' = IF Ends(serving) THEN told
             ELSE [b \in Berths |-> told[b] + Cardinality({n \in DOMAIN given : given[n] = b})]
  /\ server' = "scan"
  /\ given' = <<>>
  /\ coach' = NoCoach
  /\ serving' = NoClient
  /\ UNCHANGED <<clientVars, up, peer, backlog, flag, slots, ready, line, failed,
                 connections, starts, stray, upset>>

WriteFails ==
  /\ server = "write"
  /\ failed
  /\ Die

-----------------------------------------------------------------------------
Client(c) == Greeted(c) \/ Receive(c)
User(c) == Connect(c) \/ SendLine(c) \/ Close(c) \/ Kill(c)
Slot(i) == RecvRequest(i) \/ RecvEnd(i) \/ RecvFails(i)
Server ==
  \/ Select \/ Accept \/ ScanEnds \/ RecvFailsOtherwise
  \/ \E i \in 1 .. MaxClients : Slot(i)
  \/ NoConnection \/ Count \/ Take \/ Look \/ Settle \/ Write \/ WriteFails

Next ==
  \/ \E c \in Clients : Client(c) \/ User(c)
  \/ Server
  \/ Interrupt
  \/ Start

Spec == Init /\ [][Next]_vars

\* Processes that can go on do; nobody has to type, to interrupt or to start.
LiveSpec ==
  /\ Spec
  /\ WF_vars(Server)
  /\ \A c \in Clients : WF_vars(Client(c))

-----------------------------------------------------------------------------
(* Properties, with BerthsAddUp and AsAsked of BookingState.              *)

Stuck(c) ==
  \/ server = "dead" /\ Contains(backlog, c)
  \/ /\ server # "none" /\ Accepted(c) /\ c \notin Listed
     /\ \/ Silent \in Range(slots)
        \/ Cardinality({d \in Clients : Accepted(d)}) > MaxClients

\* A client that waits goes on, unless the server is dead and only its child
\* listens, or client_socket was full when the client came.
Answered ==
  \A c \in Clients :
    client[c] \in {"greet", "waits"} ~> client[c] \notin {"greet", "waits"} \/ Stuck(c)
=============================================================================
