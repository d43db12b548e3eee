-------------------------------- MODULE Rltp --------------------------------
(***************************************************************************)
(* networks_lab/assignment3/Barno/Assign3Final: a transport over raw IP    *)
(* (client_header.h, server_header.h) and an echo client and server on it. *)
(* Each side retransmits until a packet comes with the right ack_no, and   *)
(* receives until there is silence.  Both headers have send, receive and   *)
(* fin_ack; they differ in where receive sets SEQRCV.                      *)
(*                                                                         *)
(* A channel keeps the order and may lose.  Time is left out: select may   *)
(* time out whenever it waits, also while a packet is on its way, which    *)
(* crossed remembers.  A text is one unit long; the addresses are right;   *)
(* and the length that accept hands to recvfrom without a value serves.    *)
(* The operators called Bad... are plausible errors in the definition      *)
(* after them, which break a property; nothing else uses them.             *)
(***************************************************************************)
EXTENDS Integers, Sequences, SequencesExt

CONSTANTS
  Requests,       \* the client sends this many: 10
  InitialSeqs,    \* what rand() may give for SEQNO
  Garbage,        \* the numbers that may be in the server's msg at the start
  MaxLosses,      \* bound: packets the network loses
  Capacity,       \* bound: packets on their way to one side
  MaxSent         \* bound: messages of the server

ASSUME RltpAssumption ==
  /\ Requests \in Nat \ {0}
  /\ InitialSeqs \subseteq Nat \ {0} /\ InitialSeqs # {}
  /\ Garbage \subseteq Nat /\ Garbage # {}
  /\ Capacity \in Nat \ {0}
  /\ MaxSent \in Nat
  /\ MaxLosses \in Nat

Sides == {"client", "server"}
Other(s) == IF s = "client" THEN "server" ELSE "client"

VARIABLES
  at,          \* at[s]: the select() or recvfrom() where side s waits
  seqno,       \* SEQNO
  seqrcv,      \* SEQRCV
  msg,         \* msg of main
  got,         \* got[s]: flag_not_first
  last,        \* synmsg.rltph.seq_no of the client's receive
  net,         \* net[s]: packets on their way to s
  reqno,       \* requests the client has begun
  responses,   \* responses the server has begun
  answers,     \* history: what the client has printed as received
  losses,      \* packets lost
  ackLost,     \* history: an acknowledgement lost that nobody sends again
  crossed      \* history: a timeout while a packet was on its way

vars == <<at, seqno, seqrcv, msg, got, last, net, reqno, responses, answers,
          losses, ackLost, crossed>>

Nothing == [text |-> "", num |-> 0]
Packet(type, seq, ack, data) == [type |-> type, seq |-> seq, ack |-> ack, data |-> data]
StrLen(data) == IF data.text = "" THEN 0 ELSE 1

Init ==
  /\ at = [client |-> "syn", server |-> "listen"]
  /\ \E c, s \in InitialSeqs :
       /\ seqno = [client |-> c, server |-> s]
       /\ net = [client |-> <<>>, server |-> <<Packet("SYN", c, 0, Nothing)>>]
  /\ seqrcv = [client |-> 200, server |-> 100]
  /\ \E n \in Garbage :
       msg = [client |-> Nothing, server |-> [text |-> "", num |-> n]]
  /\ got = [s \in Sides |-> FALSE]
  /\ last = 0
  /\ reqno = 0
  /\ responses = 0
  /\ answers = <<>>
  /\ losses = 0
  /\ ackLost = FALSE
  /\ crossed = FALSE

-----------------------------------------------------------------------------
(* Packets in and out.                                                     *)

\* What select() and recvfrom() give side s: silence, or the next packet.
Silence == Packet("", 0, 0, Nothing)
Arrivals(s) ==
  {[packet |-> Silence, rest |-> net[s]]}
  \cup (IF net[s] = <<>> THEN {}
        ELSE {[packet |-> Head(net[s]), rest |-> Tail(net[s])]})

\* A step of s upon arrival i, which sends the packets in out, for which there
\* has to be room.  A side that has closed its socket gets nothing.
Exchange(s, i, out) ==
  /\ out # <<>> => Len(net[Other(s)]) < Capacity
  /\ net' = [x \in Sides |-> IF x = s THEN i.rest
                             ELSE IF at[x] = "closed" THEN net[x]
                             ELSE net[x] \o out]
  /\ UNCHANGED <<losses, ackLost>>
  /\ crossed' = (crossed \/ (i.packet = Silence /\ \E x \in Sides : net[x] # <<>>))

MoveTo(s, place) == at' = [at EXCEPT ![s] = place]

\* Data packets that acknowledge too.
BadData(s) == Packet("DATA", seqno[s], seqrcv[s], msg[s])

Data(s) == Packet("DATA", seqno[s], 0, msg[s])

\* Any packet is taken for the acknowledgement.
BadAcked(s, i) == i.packet # Silence

Acked(s, i) == i.packet.ack = seqno[s]

\* send() up to its select().
BeginSend(s, i, data) ==
  /\ msg' = [msg EXCEPT ![s] = data]
  /\ seqno' = [seqno EXCEPT ![s] = @ + StrLen(data)]
  /\ Exchange(s, i, <<Data(s)'>>)
  /\ MoveTo(s, "send")

\* send() after its select(): the right ack_no ends it, all else makes it send
\* again.
Send(s) ==
  \E i \in Arrivals(s) :
    /\ at[s] = "send"
    /\ IF Acked(s, i)
       THEN /\ Exchange(s, i, <<>>)
            /\ MoveTo(s, "receive")
            /\ got' = [got EXCEPT ![s] = FALSE]
       ELSE /\ Exchange(s, i, <<Data(s)>>)
            /\ UNCHANGED <<at, got>>
    /\ UNCHANGED <<seqno, seqrcv, msg, last, reqno, responses, answers>>

\* strcpy() of an empty text leaves the number behind it.
Copied(s, data) ==
  IF data.text = "" THEN [msg[s] EXCEPT !.text = ""] ELSE data

\* The length of the text is forgotten.
BadAckNo(s, data) == seqrcv[s]

AckNo(s, data) == seqrcv[s] + StrLen(data)

\* receive() with a packet.  Only those of send() and of receive() itself have
\* the checksum it expects; the acknowledgement it sends for one is such a packet.
Receive(s) ==
  \E i \in Arrivals(s) :
    /\ at[s] = "receive" /\ i.packet # Silence
    /\ got' = [got EXCEPT ![s] = TRUE]
    /\ last' = IF s = "client" THEN i.packet.seq ELSE last
    /\ CASE i.packet.type = "FIN" ->
              /\ seqrcv' = [seqrcv EXCEPT ![s] = i.packet.seq]
              /\ Exchange(s, i, <<Packet("FINACK", seqno[s], i.packet.seq, Nothing)>>)
              /\ MoveTo(s, "finack")
              /\ UNCHANGED msg
         [] i.packet.type = "DATA" ->
              /\ msg' = [msg EXCEPT ![s] = Copied(s, i.packet.data)]
              /\ Exchange(s, i, <<Packet("DATA", seqno[s], AckNo(s, i.packet.data),
                                         Nothing)>>)
              /\ seqrcv' = IF s = "server" THEN [seqrcv EXCEPT ![s] = i.packet.seq]
                           ELSE seqrcv
              /\ UNCHANGED at
         [] OTHER ->
              /\ Exchange(s, i, <<>>)
              /\ UNCHANGED <<at, seqrcv, msg>>
    /\ UNCHANGED <<seqno, reqno, responses, answers>>

\* receive() returns at the first silence after a packet.
Over(s, i) == i.packet = Silence /\ got[s]

\* eval_checkSum: i is not initialised and does not change, so that the loop adds
\* no byte of the text or does not end.
Hang(s) ==
  /\ at[s] \in {"send", "receive"}
  /\ MoveTo(s, "hung")
  /\ UNCHANGED <<seqno, seqrcv, msg, got, last, net, reqno, responses, answers, losses,
                 ackLost, crossed>>

-----------------------------------------------------------------------------
(* The client: connect, a request and its response time after time, close. *)

MoreToSend == reqno < Requests

Request(n) == [text |-> "ECHO REQ", num |-> n]

Connect ==
  \E i \in Arrivals("client") :
    /\ at["client"] = "syn"
    /\ IF Acked("client", i)
       THEN /\ seqrcv' = [seqrcv EXCEPT !["client"] = i.packet.seq]
            /\ Exchange("client", i, <<Packet("ACK", 0, i.packet.seq, Nothing)>>)
            /\ MoveTo("client", "extra")
       ELSE /\ Exchange("client", i, <<Packet("SYN", seqno["client"], 0, Nothing)>>)
            /\ UNCHANGED <<at, seqrcv>>
    /\ UNCHANGED <<seqno, msg, got, last, reqno, responses, answers>>

\* The "Extra Receive": whatever comes is thrown away, and that was it.
Connected ==
  \E i \in Arrivals("client") :
    /\ at["client"] = "extra"
    /\ reqno' = 1
    /\ UNCHANGED <<seqrcv, got, last, responses, answers>>
    /\ BeginSend("client", i, Request(1))

Fin == Packet("FIN", seqno["client"], 0, Nothing)

\* Silence: receive() returns, with msg as it is.
Answered ==
  \E i \in Arrivals("client") :
    /\ at["client"] = "receive" /\ Over("client", i)
    /\ seqrcv' = [seqrcv EXCEPT !["client"] = last]
    /\ answers' = Append(answers, msg["client"])
    /\ IF MoreToSend
       THEN /\ reqno' = reqno + 1
            /\ BeginSend("client", i, Request(reqno + 1))
       ELSE /\ Exchange("client", i, <<Fin>>)
            /\ MoveTo("client", "fin")
            /\ UNCHANGED <<reqno, msg, seqno>>
    /\ UNCHANGED <<got, last, responses>>

Close ==
  \E i \in Arrivals("client") :
    /\ at["client"] = "fin"
    /\ IF Acked("client", i)
       THEN /\ seqrcv' = [seqrcv EXCEPT !["client"] = i.packet.seq]
            /\ Exchange("client", i, <<Packet("ACK", 0, i.packet.seq, Nothing)>>)
            /\ MoveTo("client", "finextra")
       ELSE /\ Exchange("client", i, <<Fin>>)
            /\ UNCHANGED <<at, seqrcv>>
    /\ UNCHANGED <<seqno, msg, got, last, reqno, responses, answers>>

Closed ==
  \E i \in Arrivals("client") :
    /\ at["client"] = "finextra"
    /\ Exchange("client", [i EXCEPT !.rest = <<>>], <<>>)
    /\ MoveTo("client", "closed")
    /\ UNCHANGED <<seqno, seqrcv, msg, got, last, reqno, responses, answers>>

-----------------------------------------------------------------------------
(* The server: accept, then a response to each request until a FIN.        *)

SynAck(seq) == Packet("SYNACK", seqno["server"], seq, Nothing)

\* The first packet is taken for a SYN.
Listen ==
  \E i \in Arrivals("server") :
    /\ at["server"] = "listen" /\ i.packet # Silence
    /\ seqrcv' = [seqrcv EXCEPT !["server"] = i.packet.seq]
    /\ Exchange("server", i, <<SynAck(i.packet.seq)>>)
    /\ MoveTo("server", "accept")
    /\ UNCHANGED <<seqno, msg, got, last, reqno, responses, answers>>

Accept ==
  \E i \in Arrivals("server") :
    /\ at["server"] = "accept"
    /\ IF i.packet.type # "SYN" /\ Acked("server", i)
       THEN /\ Exchange("server", i, <<>>)
            /\ MoveTo("server", "receive")
            /\ got' = [got EXCEPT !["server"] = FALSE]
            /\ UNCHANGED seqrcv
       ELSE /\ seqrcv' = IF i.packet.type = "SYN"
                         THEN [seqrcv EXCEPT !["server"] = i.packet.seq] ELSE seqrcv
            /\ Exchange("server", i, <<SynAck(seqrcv'["server"])>>)
            /\ UNCHANGED <<at, got>>
    /\ UNCHANGED <<seqno, msg, last, reqno, responses, answers>>

\* Silence: the number at msg + 9 is looked at, whatever msg is, and answered.
Respond ==
  \E i \in Arrivals("server") :
    /\ at["server"] = "receive" /\ Over("server", i)
    /\ responses < MaxSent
    /\ responses' = responses + 1
    /\ UNCHANGED <<seqrcv, got, last, reqno, answers>>
    /\ BeginSend("server", i, [text |-> "ECHO RES", num |-> msg["server"].num + 1])

FinAck ==
  \E i \in Arrivals("server") :
    /\ at["server"] = "finack"
    /\ IF i.packet.type # "FIN" /\ Acked("server", i)
       THEN /\ Exchange("server", [i EXCEPT !.rest = <<>>], <<>>)
            /\ MoveTo("server", "closed")
       ELSE /\ Exchange("server", i,
                  <<Packet("FINACK", seqno["server"], seqrcv["server"], Nothing)>>)
            /\ UNCHANGED at
    /\ UNCHANGED <<seqno, seqrcv, msg, got, last, reqno, responses, answers>>

-----------------------------------------------------------------------------
\* The network loses a packet.
Lose ==
  \E s \in Sides : \E n \in DOMAIN net[s] :
    /\ losses < MaxLosses
    /\ losses' = losses + 1
    /\ net' = [net EXCEPT ![s] = RemoveAt(@, n)]
    /\ ackLost' = (ackLost \/ (/\ net[s][n].type \in {"ACK", "DATA"}
                               /\ net[s][n].ack # 0))
    /\ UNCHANGED <<at, seqno, seqrcv, msg, got, last, reqno, responses, answers,
                   crossed>>

Client ==
  \/ Connect \/ Connected \/ Send("client") \/ Receive("client") \/ Answered
  \/ Close \/ Closed

Server ==
  \/ Listen \/ Accept \/ Receive("server") \/ Respond \/ Send("server") \/ FinAck

Next == Client \/ Server \/ Lose \/ \E s \in Sides : Hang(s)

Spec == Init /\ [][Next]_vars

\* Both processes keep running.
LiveSpec == Spec /\ WF_vars(Client) /\ WF_vars(Server)

-----------------------------------------------------------------------------
(* Properties.                                                             *)

\* Whatever packets are lost, the client prints the response to each request in
\* its turn: retransmission makes up for losses, until a timeout crosses a packet.
RightAnswers ==
  ~ crossed => \A n \in DOMAIN answers :
                 answers[n] = [text |-> "ECHO RES", num |-> n + 1]

\* When send() of the client returns, the server has had that very message.
SentIsHeard ==
  ~ crossed /\ at["client"] = "receive" => seqrcv["server"] = seqno["client"]

\* Each side sends and waits for an acknowledgement, and none is on its way.
Stuck ==
  /\ at["client"] \in {"send", "fin"}
  /\ at["server"] \in {"send", "accept"}
  /\ \A s \in Sides : \A n \in DOMAIN net[s] : net[s][n].ack # seqno[s]

\* Then they send to each other for ever: send() throws away the data it receives
\* instead of acknowledging them.  Only a loop in eval_checkSum stops one of them.
StuckStays ==
  [][Stuck => Stuck' \/ \E s \in Sides : at[s]' = "hung"]_vars

\* A lost SYN, SYN+ACK, message, FIN or FIN+ACK does not keep the two from closing
\* the connection; a lost acknowledgement of a message or the lost last ACK may.
Ends ==
  <>(\/ \A s \in Sides : at[s] = "closed"
     \/ crossed \/ ackLost \/ \E s \in Sides : at[s] = "hung")
=============================================================================
