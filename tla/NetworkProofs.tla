--------------------------- MODULE NetworkProofs ---------------------------
(* Theorems about the two network programs: about Rltp, for every number of *)
(* requests, all initial numbers and any number of losses; and about        *)
(* Booking, for any clients, berths, request lines and slots: the books are *)
(* kept, the answers are the caller's own, and nobody is forgotten.         *)
EXTENDS Rltp, BookingState, WellFoundedInduction, FiniteSetTheorems, SequenceTheorems, TLAPS

B == INSTANCE Booking

-----------------------------------------------------------------------------
(* Rltp: types.                                                            *)

Texts == [text : {"", "ECHO REQ", "ECHO RES"}, num : Nat]
Packets ==
  [type : {"SYN", "SYNACK", "ACK", "DATA", "FIN", "FINACK"},
   seq : Nat, ack : Nat, data : Texts]
ClientPlaces ==
  {"syn", "extra", "send", "receive", "fin", "finextra", "finack", "closed", "hung"}
ServerPlaces ==
  {"listen", "accept", "send", "receive", "finack", "closed", "hung"}

TypeOK ==
  /\ at \in [Sides -> ClientPlaces \cup ServerPlaces]
  /\ at["client"] \in ClientPlaces /\ at["server"] \in ServerPlaces
  /\ seqno \in [Sides -> Nat \ {0}]
  /\ seqrcv \in [Sides -> Nat]
  /\ msg \in [Sides -> Texts]
  /\ got \in [Sides -> BOOLEAN]
  /\ last \in Nat
  /\ net \in [Sides -> Seq(Packets)]
  /\ reqno \in Nat
  /\ answers \in Seq(Texts)

LEMMA SidesFacts ==
  /\ "client" \in Sides /\ "server" \in Sides
  /\ Other("client") = "server" /\ Other("server") = "client"
  /\ \A s \in Sides : s = "client" \/ s = "server"
  /\ \A s, x \in Sides : x # s => x = Other(s)
BY DEF Sides, Other

LEMMA PairType ==
  ASSUME NEW X, NEW a \in X, NEW b \in X
  PROVE  [client |-> a, server |-> b] \in [Sides -> X]
BY DEF Sides

LEMMA PacketType ==
  ASSUME NEW t \in {"SYN", "SYNACK", "ACK", "DATA", "FIN", "FINACK"},
         NEW m \in Nat, NEW n \in Nat, NEW d \in Texts
  PROVE  /\ Packet(t, m, n, d) \in Packets
         /\ <<Packet(t, m, n, d)>> \in Seq(Packets)
<1>1. Packet(t, m, n, d) \in Packets
  BY DEF Packet, Packets
<1> QED BY <1>1

LEMMA NothingType == Nothing \in Texts
BY DEF Nothing, Texts

\* Silence is no packet; it acknowledges nothing.
LEMMA SilenceFacts ==
  /\ Silence.ack = 0 /\ Silence.type = "" /\ Silence.seq = 0
  /\ Silence.data = Nothing /\ Silence \notin Packets
BY DEF Silence, Packet, Packets

LEMMA ArrivalType ==
  ASSUME TypeOK, NEW s \in Sides, NEW i \in Arrivals(s)
  PROVE  /\ i.rest \in Seq(Packets)
         /\ i = [packet |-> i.packet, rest |-> i.rest]
         /\ [i EXCEPT !.rest = <<>>] = [packet |-> i.packet, rest |-> <<>>]
         /\ i.packet.seq \in Nat /\ i.packet.ack \in Nat /\ i.packet.data \in Texts
         /\ \/ i.packet = Silence /\ i.rest = net[s]
            \/ /\ i.packet \in Packets /\ net[s] # <<>>
               /\ i.packet = Head(net[s]) /\ i.rest = Tail(net[s])
<1>1. net[s] \in Seq(Packets)
  BY DEF TypeOK
<1>2. CASE i = [packet |-> Silence, rest |-> net[s]]
  <2>1. i.packet = Silence /\ i.rest = net[s]
    BY <1>2
  <2>2. i = [packet |-> i.packet, rest |-> i.rest]
        /\ [i EXCEPT !.rest = <<>>] = [packet |-> i.packet, rest |-> <<>>]
    BY <1>2
  <2>3. i.packet.seq \in Nat /\ i.packet.ack \in Nat /\ i.packet.data \in Texts
    <3>1. Silence.seq \in Nat /\ Silence.ack \in Nat /\ Silence.data \in Texts
      BY SilenceFacts, NothingType, 0 \in Nat, Zenon
    <3> QED BY <2>1, <3>1, Zenon
  <2> QED BY <1>1, <2>1, <2>2, <2>3
<1>3. CASE net[s] # <<>> /\ i = [packet |-> Head(net[s]), rest |-> Tail(net[s])]
  <2>1. Head(net[s]) \in Packets /\ Tail(net[s]) \in Seq(Packets)
    BY <1>1, <1>3
  <2> QED BY <1>3, <2>1 DEF Packets
<1> QED BY <1>2, <1>3 DEF Arrivals

LEMMA ExchangeType ==
  ASSUME TypeOK, NEW s \in Sides, NEW i, i.rest \in Seq(Packets),
         NEW out \in Seq(Packets), Exchange(s, i, out)
  PROVE  net' \in [Sides -> Seq(Packets)]
<1>1. net' = [x \in Sides |-> IF x = s THEN i.rest
                             ELSE IF at[x] = "closed" THEN net[x]
                             ELSE net[x] \o out]
  BY DEF Exchange
<1>2. ASSUME NEW x \in Sides
      PROVE  net[x] \in Seq(Packets) /\ net[x] \o out \in Seq(Packets)
  BY DEF TypeOK
<1> QED BY <1>1, <1>2

LEMMA InitTypeOK == Init => TypeOK
<1> SUFFICES ASSUME Init PROVE TypeOK
  OBVIOUS
<1>1. PICK c \in InitialSeqs, s \in InitialSeqs :
        /\ seqno = [client |-> c, server |-> s]
        /\ net = [client |-> <<>>, server |-> <<Packet("SYN", c, 0, Nothing)>>]
  BY DEF Init
<1>2. PICK n \in Garbage :
        msg = [client |-> Nothing, server |-> [text |-> "", num |-> n]]
  BY DEF Init
<1>3. c \in Nat \ {0} /\ s \in Nat \ {0} /\ n \in Nat
  BY RltpAssumption DEF RltpAssumption
<1>4. net \in [Sides -> Seq(Packets)]
  <2>1. <<Packet("SYN", c, 0, Nothing)>> \in Seq(Packets)
    BY <1>3, PacketType, NothingType
  <2>2. <<>> \in Seq(Packets)
    OBVIOUS
  <2> QED BY <1>1, <2>1, <2>2, PairType, Zenon
<1>5. msg \in [Sides -> Texts]
  <2>1. Nothing \in Texts /\ [text |-> "", num |-> n] \in Texts
    BY <1>3 DEF Texts, Nothing
  <2> QED BY <1>2, <2>1, PairType, Zenon
<1>6. seqno \in [Sides -> Nat \ {0}]
  BY <1>1, <1>3 DEF Sides
<1>7. /\ at \in [Sides -> ClientPlaces \cup ServerPlaces]
      /\ at["client"] \in ClientPlaces /\ at["server"] \in ServerPlaces
  <2>1. at = [client |-> "syn", server |-> "listen"]
    BY DEF Init
  <2>2. "syn" \in ClientPlaces /\ "listen" \in ServerPlaces
    BY DEF ClientPlaces, ServerPlaces
  <2>3. at["client"] = "syn" /\ at["server"] = "listen"
    BY <2>1
  <2> QED BY <2>1, <2>2, <2>3, PairType
<1>8. seqrcv \in [Sides -> Nat] /\ got \in [Sides -> BOOLEAN]
  <2>1. got \in [Sides -> BOOLEAN]
    BY Zenon DEF Init
  <2>2. seqrcv = [client |-> 200, server |-> 100]
    BY DEF Init
  <2> QED BY <2>1, <2>2, PairType
<1>9. last \in Nat /\ reqno \in Nat /\ answers \in Seq(Texts)
  <2>1. last = 0 /\ reqno = 0 /\ answers = <<>>
    BY DEF Init
  <2> QED BY <2>1
<1> QED BY <1>4, <1>5, <1>6, <1>7, <1>8, <1>9 DEF TypeOK


\* What a step of receive() leaves in msg is a text of the two programs.
LEMMA CopiedType ==
  ASSUME TypeOK, NEW s \in Sides, NEW d \in Texts
  PROVE  Copied(s, d) \in Texts /\ AckNo(s, d) \in Nat
<1>1. msg[s] \in Texts /\ seqrcv[s] \in Nat
  BY DEF TypeOK
<1>2. [msg[s] EXCEPT !.text = ""] \in Texts
  BY <1>1 DEF Texts
<1>3. Copied(s, d) \in Texts
  BY <1>2 DEF Copied
<1>4. AckNo(s, d) \in Nat
  <2>1. StrLen(d) \in Nat
    BY DEF StrLen
  <2> QED BY <1>1, <2>1 DEF AckNo
<1> QED BY <1>3, <1>4

\* send() up to its select().
LEMMA BeginSendType ==
  ASSUME TypeOK, NEW s \in Sides, NEW i \in Arrivals(s), NEW d \in Texts,
         BeginSend(s, i, d)
  PROVE  /\ msg' \in [Sides -> Texts]
         /\ seqno' \in [Sides -> Nat \ {0}]
         /\ net' \in [Sides -> Seq(Packets)]
         /\ at' = [at EXCEPT ![s] = "send"]
<1>1. msg' \in [Sides -> Texts]
  BY DEF BeginSend, TypeOK
<1>2. seqno' \in [Sides -> Nat \ {0}]
  <2>1. StrLen(d) \in Nat
    BY DEF StrLen
  <2>2. seqno' = [seqno EXCEPT ![s] = @ + StrLen(d)]
    BY DEF BeginSend
  <2> QED BY <2>1, <2>2 DEF TypeOK
<1>3. <<Data(s)'>> \in Seq(Packets)
  <2>1. seqno'[s] \in Nat /\ msg'[s] \in Texts
    BY <1>1, <1>2
  <2> QED BY <2>1, PacketType DEF Data
<1>4. net' \in [Sides -> Seq(Packets)]
  <2>1. Exchange(s, i, <<Data(s)'>>)
    BY DEF BeginSend
  <2> QED BY <1>3, <2>1, ArrivalType, ExchangeType
<1> QED BY <1>1, <1>2, <1>4 DEF BeginSend, MoveTo

\* The steps of both sides.
LEMMA SideTypeOK ==
  ASSUME TypeOK, NEW s \in Sides, Send(s) \/ Receive(s) \/ Hang(s)
  PROVE  TypeOK'
<1>1. CASE Send(s)
  <2>1. PICK i \in Arrivals(s) :
          /\ \/ Exchange(s, i, <<>>) /\ MoveTo(s, "receive")
                /\ got' = [got EXCEPT ![s] = FALSE]
             \/ Exchange(s, i, <<Data(s)>>) /\ UNCHANGED <<at, got>>
          /\ UNCHANGED <<seqno, seqrcv, msg, last, reqno, responses, answers>>
    BY <1>1 DEF Send
  <2>2. <<Data(s)>> \in Seq(Packets) /\ <<>> \in Seq(Packets)
    BY PacketType DEF Data, TypeOK
  <2>3. net' \in [Sides -> Seq(Packets)]
    <3>1. i.rest \in Seq(Packets)
      BY <2>1, ArrivalType
    <3> QED BY <2>1, <2>2, <3>1, ExchangeType
  <2>4. /\ at' \in [Sides -> ClientPlaces \cup ServerPlaces]
        /\ at'["client"] \in ClientPlaces /\ at'["server"] \in ServerPlaces
    BY <2>1, SidesFacts DEF MoveTo, TypeOK, ClientPlaces, ServerPlaces
  <2>5. got' \in [Sides -> BOOLEAN]
    BY <2>1 DEF TypeOK
  <2> QED BY <2>1, <2>3, <2>4, <2>5 DEF TypeOK
<1>2. CASE Receive(s)
  <2>1. PICK i \in Arrivals(s) :
          /\ got' = [got EXCEPT ![s] = TRUE]
          /\ last' \in {i.packet.seq, last}
          /\ \/ /\ seqrcv' = [seqrcv EXCEPT ![s] = i.packet.seq]
                /\ Exchange(s, i, <<Packet("FINACK", seqno[s], i.packet.seq, Nothing)>>)
                /\ MoveTo(s, "finack") /\ UNCHANGED msg
             \/ /\ msg' = [msg EXCEPT ![s] = Copied(s, i.packet.data)]
                /\ Exchange(s, i, <<Packet("DATA", seqno[s], AckNo(s, i.packet.data),
                                           Nothing)>>)
                /\ seqrcv' = seqrcv \/ seqrcv' = [seqrcv EXCEPT ![s] = i.packet.seq]
                /\ UNCHANGED at
             \/ Exchange(s, i, <<>>) /\ UNCHANGED <<at, seqrcv, msg>>
          /\ UNCHANGED <<seqno, reqno, responses, answers>>
    BY <1>2 DEF Receive
  <2>2. /\ i.packet.seq \in Nat /\ i.packet.data \in Texts
        /\ i.rest \in Seq(Packets)
    BY <2>1, ArrivalType
  <2>3. Copied(s, i.packet.data) \in Texts /\ AckNo(s, i.packet.data) \in Nat
    BY <2>2, CopiedType
  <2>4. /\ <<Packet("FINACK", seqno[s], i.packet.seq, Nothing)>> \in Seq(Packets)
        /\ <<Packet("DATA", seqno[s], AckNo(s, i.packet.data), Nothing)>> \in Seq(Packets)
        /\ <<>> \in Seq(Packets)
    <3>1. seqno[s] \in Nat
      BY DEF TypeOK
    <3> QED BY <2>2, <2>3, <3>1, PacketType, NothingType
  <2>5. net' \in [Sides -> Seq(Packets)]
    BY <2>1, <2>2, <2>4, ExchangeType
  <2>6. /\ at' \in [Sides -> ClientPlaces \cup ServerPlaces]
        /\ at'["client"] \in ClientPlaces /\ at'["server"] \in ServerPlaces
    BY <2>1, SidesFacts DEF MoveTo, TypeOK, ClientPlaces, ServerPlaces
  <2>7. got' \in [Sides -> BOOLEAN]
    BY <2>1 DEF TypeOK
  <2>8. msg' \in [Sides -> Texts] /\ seqrcv' \in [Sides -> Nat] /\ last' \in Nat
    BY <2>1, <2>2, <2>3 DEF TypeOK
  <2> QED BY <2>1, <2>5, <2>6, <2>7, <2>8 DEF TypeOK
<1>3. CASE Hang(s)
  <2>1. /\ at' \in [Sides -> ClientPlaces \cup ServerPlaces]
        /\ at'["client"] \in ClientPlaces /\ at'["server"] \in ServerPlaces
    BY <1>3, SidesFacts DEF Hang, MoveTo, TypeOK, ClientPlaces, ServerPlaces
  <2> QED BY <1>3, <2>1 DEF Hang, TypeOK
<1> QED BY <1>1, <1>2, <1>3

\* The steps of the client alone.
LEMMA ClientTypeOK ==
  ASSUME TypeOK, Connect \/ Connected \/ Answered \/ Close \/ Closed
  PROVE  TypeOK'
<1> DEFINE c == "client"
<1>0. /\ c \in Sides /\ seqno[c] \in Nat /\ msg[c] \in Texts
      /\ {<<Packet("SYN", seqno[c], 0, Nothing)>>, <<Fin>>, <<>>} \subseteq Seq(Packets)
      /\ \A n \in Nat : <<Packet("ACK", 0, n, Nothing)>> \in Seq(Packets)
  <2>1. c \in Sides /\ seqno[c] \in Nat /\ msg[c] \in Texts
    BY SidesFacts DEF TypeOK
  <2> QED BY <2>1, PacketType, NothingType DEF Fin
<1>1. ASSUME NEW i \in Arrivals(c), NEW out \in Seq(Packets),
             NEW place \in ClientPlaces, Exchange(c, i, out),
             at' = at \/ MoveTo(c, place),
             seqrcv' = seqrcv \/ seqrcv' = [seqrcv EXCEPT ![c] = i.packet.seq],
             UNCHANGED <<seqno, msg, got, last, reqno, answers>>
      PROVE  TypeOK'
  <2>1. i.packet.seq \in Nat /\ i.rest \in Seq(Packets)
    BY <1>0, ArrivalType
  <2>2. net' \in [Sides -> Seq(Packets)]
    BY <1>0, <1>1, <2>1, ExchangeType
  <2>3. /\ at' \in [Sides -> ClientPlaces \cup ServerPlaces]
        /\ at'["client"] \in ClientPlaces /\ at'["server"] \in ServerPlaces
    BY <1>1, SidesFacts DEF MoveTo, TypeOK
  <2>4. seqrcv' \in [Sides -> Nat]
    BY <1>1, <2>1 DEF TypeOK
  <2> QED BY <1>1, <2>2, <2>3, <2>4 DEF TypeOK
<1>2. ASSUME NEW i \in Arrivals(c), NEW n \in Nat, BeginSend(c, i, Request(n)),
             reqno' = n, seqrcv' \in [Sides -> Nat], answers' \in Seq(Texts),
             UNCHANGED <<got, last>>
      PROVE  TypeOK'
  <2>1. Request(n) \in Texts
    BY DEF Request, Texts
  <2>2. /\ msg' \in [Sides -> Texts] /\ seqno' \in [Sides -> Nat \ {0}]
        /\ net' \in [Sides -> Seq(Packets)] /\ at' = [at EXCEPT ![c] = "send"]
    BY <1>0, <1>2, <2>1, BeginSendType
  <2>3. /\ at' \in [Sides -> ClientPlaces \cup ServerPlaces]
        /\ at'["client"] \in ClientPlaces /\ at'["server"] \in ServerPlaces
    BY <2>2, SidesFacts DEF TypeOK, ClientPlaces
  <2> QED BY <1>2, <2>2, <2>3 DEF TypeOK
<1>3. CASE Connect
  <2>1. PICK i \in Arrivals(c) :
          /\ \/ /\ seqrcv' = [seqrcv EXCEPT ![c] = i.packet.seq]
                /\ Exchange(c, i, <<Packet("ACK", 0, i.packet.seq, Nothing)>>)
                /\ MoveTo(c, "extra")
             \/ /\ Exchange(c, i, <<Packet("SYN", seqno[c], 0, Nothing)>>)
                /\ UNCHANGED <<at, seqrcv>>
          /\ UNCHANGED <<seqno, msg, got, last, reqno, responses, answers>>
    BY <1>3 DEF Connect
  <2>2. <<Packet("ACK", 0, i.packet.seq, Nothing)>> \in Seq(Packets)
    BY <1>0, ArrivalType
  <2>3. "extra" \in ClientPlaces
    BY DEF ClientPlaces
  <2> QED BY <1>0, <1>1, <2>1, <2>2, <2>3
<1>4. CASE Connected
  <2>1. PICK i \in Arrivals(c) :
          /\ reqno' = 1 /\ UNCHANGED <<seqrcv, got, last, answers>>
          /\ BeginSend(c, i, Request(1))
    BY <1>4 DEF Connected
  <2> QED BY <1>2, <2>1 DEF TypeOK
<1>5. CASE Answered
  <2>1. PICK i \in Arrivals(c) :
          /\ seqrcv' = [seqrcv EXCEPT ![c] = last]
          /\ answers' = Append(answers, msg[c])
          /\ \/ reqno' = reqno + 1 /\ BeginSend(c, i, Request(reqno + 1))
             \/ /\ Exchange(c, i, <<Fin>>) /\ MoveTo(c, "fin")
                /\ UNCHANGED <<reqno, msg, seqno>>
          /\ UNCHANGED <<got, last>>
    BY <1>5 DEF Answered
  <2>2. seqrcv' \in [Sides -> Nat]
    BY <2>1 DEF TypeOK
  <2>3. answers' \in Seq(Texts)
    BY <1>0, <2>1 DEF TypeOK
  <2>4. reqno + 1 \in Nat
    BY DEF TypeOK
  <2>5. CASE reqno' = reqno + 1 /\ BeginSend(c, i, Request(reqno + 1))
    BY <1>2, <2>1, <2>2, <2>3, <2>4, <2>5
  <2>6. CASE /\ Exchange(c, i, <<Fin>>) /\ MoveTo(c, "fin")
             /\ UNCHANGED <<reqno, msg, seqno>>
    <3>1. net' \in [Sides -> Seq(Packets)]
      BY <1>0, <2>6, ArrivalType, ExchangeType
    <3>2. /\ at' \in [Sides -> ClientPlaces \cup ServerPlaces]
          /\ at'["client"] \in ClientPlaces /\ at'["server"] \in ServerPlaces
      BY <2>6, SidesFacts DEF MoveTo, TypeOK, ClientPlaces
    <3> QED BY <2>1, <2>2, <2>3, <2>6, <3>1, <3>2 DEF TypeOK
  <2> QED BY <2>1, <2>5, <2>6
<1>6. CASE Close
  <2>1. PICK i \in Arrivals(c) :
          /\ \/ /\ seqrcv' = [seqrcv EXCEPT ![c] = i.packet.seq]
                /\ Exchange(c, i, <<Packet("ACK", 0, i.packet.seq, Nothing)>>)
                /\ MoveTo(c, "finextra")
             \/ /\ Exchange(c, i, <<Fin>>)
                /\ UNCHANGED <<at, seqrcv>>
          /\ UNCHANGED <<seqno, msg, got, last, reqno, responses, answers>>
    BY <1>6 DEF Close
  <2>2. <<Packet("ACK", 0, i.packet.seq, Nothing)>> \in Seq(Packets)
    BY <1>0, ArrivalType
  <2>3. "finextra" \in ClientPlaces
    BY DEF ClientPlaces
  <2> QED BY <1>0, <1>1, <2>1, <2>2, <2>3
<1>7. CASE Closed
  <2>1. PICK i \in Arrivals(c) :
          /\ Exchange(c, [i EXCEPT !.rest = <<>>], <<>>) /\ MoveTo(c, "closed")
          /\ UNCHANGED <<seqno, seqrcv, msg, got, last, reqno, responses, answers>>
    BY <1>7 DEF Closed
  <2>2. [i EXCEPT !.rest = <<>>].rest \in Seq(Packets)
    BY <1>0, ArrivalType
  <2>3. net' \in [Sides -> Seq(Packets)]
    BY <1>0, <2>1, <2>2, ExchangeType
  <2>4. /\ at' \in [Sides -> ClientPlaces \cup ServerPlaces]
        /\ at'["client"] \in ClientPlaces /\ at'["server"] \in ServerPlaces
    BY <2>1, SidesFacts DEF MoveTo, TypeOK, ClientPlaces
  <2> QED BY <2>1, <2>3, <2>4 DEF TypeOK
<1> QED BY <1>3, <1>4, <1>5, <1>6, <1>7

\* The steps of the server alone.
LEMMA ServerTypeOK ==
  ASSUME TypeOK, Listen \/ Accept \/ Respond \/ FinAck
  PROVE  TypeOK'
<1> DEFINE s == "server"
<1>0. /\ s \in Sides /\ seqno[s] \in Nat /\ msg[s] \in Texts /\ seqrcv[s] \in Nat
      /\ <<>> \in Seq(Packets)
      /\ \A n \in Nat : /\ <<SynAck(n)>> \in Seq(Packets)
                        /\ <<Packet("FINACK", seqno[s], n, Nothing)>> \in Seq(Packets)
  <2>1. s \in Sides /\ seqno[s] \in Nat /\ msg[s] \in Texts /\ seqrcv[s] \in Nat
    BY SidesFacts DEF TypeOK
  <2> QED BY <2>1, PacketType, NothingType DEF SynAck
<1>1. ASSUME NEW i, i.rest \in Seq(Packets), NEW out \in Seq(Packets),
             NEW place \in ServerPlaces, Exchange(s, i, out),
             at' = at \/ MoveTo(s, place), seqrcv' \in [Sides -> Nat],
             got' \in [Sides -> BOOLEAN],
             UNCHANGED <<seqno, msg, last, reqno, answers>>
      PROVE  TypeOK'
  <2>2. net' \in [Sides -> Seq(Packets)]
    BY <1>0, <1>1, ExchangeType
  <2>3. /\ at' \in [Sides -> ClientPlaces \cup ServerPlaces]
        /\ at'["client"] \in ClientPlaces /\ at'["server"] \in ServerPlaces
    BY <1>1, SidesFacts DEF MoveTo, TypeOK
  <2> QED BY <1>1, <2>2, <2>3 DEF TypeOK
<1>2. {"accept", "receive", "closed"} \subseteq ServerPlaces
      /\ seqrcv \in [Sides -> Nat] /\ got \in [Sides -> BOOLEAN]
  BY DEF TypeOK, ServerPlaces
<1>3. CASE Listen
  <2>1. PICK i \in Arrivals(s) :
          /\ seqrcv' = [seqrcv EXCEPT ![s] = i.packet.seq]
          /\ Exchange(s, i, <<SynAck(i.packet.seq)>>) /\ MoveTo(s, "accept")
          /\ UNCHANGED <<seqno, msg, got, last, reqno, responses, answers>>
    BY <1>3 DEF Listen
  <2>2. i.packet.seq \in Nat /\ i.rest \in Seq(Packets)
    BY <1>0, ArrivalType
  <2>3. seqrcv' \in [Sides -> Nat]
    BY <1>2, <2>1, <2>2
  <2> QED BY <1>0, <1>1, <1>2, <2>1, <2>2, <2>3
<1>4. CASE Accept
  <2>1. PICK i \in Arrivals(s) :
          /\ \/ /\ Exchange(s, i, <<>>) /\ MoveTo(s, "receive")
                /\ got' = [got EXCEPT ![s] = FALSE] /\ UNCHANGED seqrcv
             \/ /\ seqrcv' = [seqrcv EXCEPT ![s] = i.packet.seq] \/ seqrcv' = seqrcv
                /\ Exchange(s, i, <<SynAck(seqrcv'[s])>>)
                /\ UNCHANGED <<at, got>>
          /\ UNCHANGED <<seqno, msg, last, reqno, responses, answers>>
    BY <1>4 DEF Accept
  <2>2. i.packet.seq \in Nat /\ i.rest \in Seq(Packets)
    BY <1>0, ArrivalType
  <2>3. seqrcv' \in [Sides -> Nat] /\ got' \in [Sides -> BOOLEAN]
    BY <1>2, <2>1, <2>2
  <2>4. <<SynAck(seqrcv'[s])>> \in Seq(Packets)
    BY <1>0, <2>3
  <2> QED BY <1>0, <1>1, <1>2, <2>1, <2>2, <2>3, <2>4
<1>5. CASE Respond
  <2> DEFINE d == [text |-> "ECHO RES", num |-> msg[s].num + 1]
  <2>1. PICK i \in Arrivals(s) : BeginSend(s, i, d)
    BY <1>5 DEF Respond
  <2>2. d \in Texts
    <3>1. msg[s].num \in Nat
      BY <1>0 DEF Texts
    <3> QED BY <3>1 DEF Texts
  <2> HIDE DEF d
  <2>3. /\ msg' \in [Sides -> Texts] /\ seqno' \in [Sides -> Nat \ {0}]
        /\ net' \in [Sides -> Seq(Packets)] /\ at' = [at EXCEPT ![s] = "send"]
    BY <1>0, <2>1, <2>2, BeginSendType
  <2>4. /\ at' \in [Sides -> ClientPlaces \cup ServerPlaces]
        /\ at'["client"] \in ClientPlaces /\ at'["server"] \in ServerPlaces
    BY <2>3, SidesFacts DEF TypeOK, ServerPlaces
  <2> QED BY <1>5, <2>3, <2>4 DEF Respond, TypeOK
<1>6. CASE FinAck
  <2>1. PICK i \in Arrivals(s) :
          /\ \/ Exchange(s, [i EXCEPT !.rest = <<>>], <<>>) /\ MoveTo(s, "closed")
             \/ /\ Exchange(s, i, <<Packet("FINACK", seqno[s], seqrcv[s], Nothing)>>)
                /\ UNCHANGED at
          /\ UNCHANGED <<seqno, seqrcv, msg, got, last, reqno, responses, answers>>
    BY <1>6 DEF FinAck
  <2>2. i.rest \in Seq(Packets) /\ [i EXCEPT !.rest = <<>>].rest \in Seq(Packets)
    BY <1>0, ArrivalType
  <2>3. <<Packet("FINACK", seqno[s], seqrcv[s], Nothing)>> \in Seq(Packets)
    BY <1>0
  <2> QED BY <1>0, <1>1, <1>2, <2>1, <2>2, <2>3
<1> QED BY <1>3, <1>4, <1>5, <1>6

\* A packet taken out of a sequence: the others stay.
LEMMA RemoveFacts ==
  ASSUME NEW S, NEW q \in Seq(S), NEW n \in DOMAIN q
  PROVE  /\ RemoveAt(q, n) \in Seq(S)
         /\ Len(RemoveAt(q, n)) = Len(q) - 1
         /\ \A k \in DOMAIN RemoveAt(q, n) : \E j \in DOMAIN q : RemoveAt(q, n)[k] = q[j]
<1> DEFINE a == SubSeq(q, 1, n - 1)
           b == SubSeq(q, n + 1, Len(q))
<1>1. Len(q) \in Nat /\ n \in 1 .. Len(q) /\ DOMAIN q = 1 .. Len(q)
      /\ \A j \in 1 .. Len(q) : q[j] \in S
  OBVIOUS
<1>2. /\ a \in Seq(S) /\ Len(a) = n - 1
      /\ \A j \in 1 .. n - 1 : a[j] = q[j]
  BY <1>1, SubSeqProperties
<1>3. /\ b \in Seq(S) /\ Len(b) = Len(q) - n
      /\ \A j \in 1 .. Len(q) - n : b[j] = q[n + j]
  BY <1>1, SubSeqProperties
<1> HIDE DEF a, b
<1>4. /\ a \o b \in Seq(S) /\ Len(a \o b) = Len(a) + Len(b)
      /\ \A k \in 1 .. Len(a) + Len(b) :
           (a \o b)[k] = IF k <= Len(a) THEN a[k] ELSE b[k - Len(a)]
  BY <1>2, <1>3, ConcatProperties
<1>5. ASSUME NEW k \in 1 .. Len(q) - 1
      PROVE  \E j \in 1 .. Len(q) : (a \o b)[k] = q[j]
  <2>1. CASE k <= n - 1
    <3>1. (a \o b)[k] = q[k]
      BY <1>1, <1>2, <1>3, <1>4, <2>1
    <3> QED BY <1>1, <3>1
  <2>2. CASE ~ (k <= n - 1)
    <3>1. k - (n - 1) \in 1 .. Len(q) - n /\ n + (k - (n - 1)) \in 1 .. Len(q)
      BY <1>1, <2>2
    <3>2. (a \o b)[k] = b[k - (n - 1)]
      BY <1>1, <1>2, <1>3, <1>4, <2>2
    <3>3. b[k - (n - 1)] = q[n + (k - (n - 1))]
      BY <1>3, <3>1
    <3> QED BY <3>1, <3>2, <3>3
  <2> QED BY <2>1, <2>2
<1>6. RemoveAt(q, n) = a \o b
  BY DEF RemoveAt, a, b
<1>7. Len(a \o b) = Len(q) - 1 /\ DOMAIN (a \o b) = 1 .. Len(q) - 1
  <2>1. Len(a \o b) = Len(q) - 1
    BY <1>1, <1>2, <1>3, <1>4
  <2>2. DOMAIN (a \o b) = 1 .. Len(a \o b)
    BY <1>4, LenProperties
  <2> QED BY <2>1, <2>2
<1> QED BY <1>1, <1>4, <1>5, <1>6, <1>7

LEMMA LoseTypeOK == ASSUME TypeOK, Lose PROVE TypeOK'
<1>0. PICK s \in Sides : \E n \in DOMAIN net[s] : net' = [net EXCEPT ![s] = RemoveAt(@, n)]
  BY DEF Lose
<1>1. PICK n \in DOMAIN net[s] : net' = [net EXCEPT ![s] = RemoveAt(@, n)]
  BY <1>0
<1>2. net[s] \in Seq(Packets)
  BY DEF TypeOK
<1>3. RemoveAt(net[s], n) \in Seq(Packets)
  BY <1>2, RemoveFacts
<1>4. net' \in [Sides -> Seq(Packets)]
  BY <1>1, <1>3 DEF TypeOK
<1> QED BY <1>4 DEF Lose, TypeOK

\* Every variable keeps its type: the packets under way are those of the two
\* headers, whatever is lost, repeated or late.
THEOREM TypeCorrect == Spec => []TypeOK
<1>1. TypeOK /\ [Next]_vars => TypeOK'
  <2> SUFFICES ASSUME TypeOK, [Next]_vars PROVE TypeOK'
    OBVIOUS
  <2>1. CASE UNCHANGED vars
    BY <2>1 DEF vars, TypeOK
  <2>2. CASE \E s \in Sides : Send(s) \/ Receive(s) \/ Hang(s)
    BY <2>2, SideTypeOK
  <2> QED BY <2>1, <2>2, ClientTypeOK, ServerTypeOK, LoseTypeOK, SidesFacts
          DEF Next, Client, Server
<1> QED BY <1>1, InitTypeOK, PTL DEF Spec

-----------------------------------------------------------------------------
(* Two sides that send to each other.                                      *)

\* What a step does to the packets under way: s loses some of its own, the
\* other side gets out, if it listens.
LEMMA ExchangeRange ==
  ASSUME TypeOK, NEW s \in Sides, NEW i, i.rest \in Seq(Packets),
         Range(i.rest) \subseteq Range(net[s]),
         NEW out \in Seq(Packets), Exchange(s, i, out)
  PROVE  /\ net'[s] = i.rest /\ Range(net'[s]) \subseteq Range(net[s])
         /\ Range(net'[Other(s)]) \subseteq Range(net[Other(s)]) \cup Range(out)
<1>1. Other(s) \in Sides /\ Other(s) # s
  BY SidesFacts DEF Other
<1>2. /\ net'[s] = i.rest
      /\ net'[Other(s)] = IF at[Other(s)] = "closed" THEN net[Other(s)]
                          ELSE net[Other(s)] \o out
  BY <1>1 DEF Exchange
<1>3. Range(net[Other(s)] \o out) = Range(net[Other(s)]) \cup Range(out)
  BY <1>1, RangeConcatenation DEF TypeOK
<1> QED BY <1>2, <1>3

LEMMA ArrivalRange ==
  ASSUME TypeOK, NEW s \in Sides, NEW i \in Arrivals(s)
  PROVE  /\ Range(i.rest) \subseteq Range(net[s])
         /\ Range(<<>>) \subseteq Range(net[s])
         /\ i.packet = Silence \/ i.packet \in Range(net[s])
<1>1. net[s] \in Seq(Packets)
  BY DEF TypeOK
<1>2. CASE i.packet = Silence /\ i.rest = net[s]
  BY <1>2 DEF Range
<1>3. CASE net[s] # <<>> /\ i.packet = Head(net[s]) /\ i.rest = Tail(net[s])
  <2>1. 1 \in DOMAIN net[s] /\ i.packet = net[s][1]
    BY <1>1, <1>3
  <2>2. \A k \in DOMAIN i.rest : k + 1 \in DOMAIN net[s] /\ i.rest[k] = net[s][k + 1]
    BY <1>1, <1>3
  <2>3. i.packet \in Range(net[s])
    BY <2>1 DEF Range
  <2>4. Range(i.rest) \subseteq Range(net[s])
    BY <2>2 DEF Range
  <2> QED BY <2>3, <2>4 DEF Range
<1> QED BY <1>2, <1>3, ArrivalType

LEMMA SingletonRange == ASSUME NEW p PROVE Range(<<p>>) = {p} /\ Range(<<>>) = {}
BY DEF Range

LEMMA LoseRange ==
  ASSUME TypeOK, Lose
  PROVE  \A s \in Sides : /\ Range(net'[s]) \subseteq Range(net[s])
                          /\ net[s] = <<>> => net'[s] = <<>>
<1>0. PICK s \in Sides : \E n \in DOMAIN net[s] : net' = [net EXCEPT ![s] = RemoveAt(@, n)]
  BY DEF Lose
<1>1. PICK n \in DOMAIN net[s] : net' = [net EXCEPT ![s] = RemoveAt(@, n)]
  BY <1>0
<1>2. net[s] \in Seq(Packets) /\ net \in [Sides -> Seq(Packets)]
  BY DEF TypeOK
<1>3. Range(RemoveAt(net[s], n)) \subseteq Range(net[s])
  BY <1>2, RemoveFacts DEF Range
<1>4. net[s] # <<>>
  BY <1>2
<1> QED BY <1>1, <1>2, <1>3, <1>4

\* The server has the client's first number, and no other, from a SYN.
SynNo(n) ==
  IF at["client"] \in {"syn", "extra"} THEN n = seqno["client"] ELSE n < seqno["client"]

Syns ==
  /\ at["server"] = "listen" =>
       /\ at["client"] = "syn" /\ net["client"] = <<>>
       /\ \A p \in Range(net["server"]) : p.type = "SYN"
  /\ at["server"] = "accept" => SynNo(seqrcv["server"])
  /\ \A p \in Range(net["server"]) : p.type = "SYN" => SynNo(p.seq)

LEMMA InitSyns == Init => Syns
<1> SUFFICES ASSUME Init PROVE Syns
  OBVIOUS
<1>1. PICK c \in InitialSeqs, s \in InitialSeqs :
        /\ seqno = [client |-> c, server |-> s]
        /\ net = [client |-> <<>>, server |-> <<Packet("SYN", c, 0, Nothing)>>]
  BY DEF Init
<1>2. at["client"] = "syn" /\ at["server"] = "listen"
  BY DEF Init
<1>3. Range(net["server"]) = {Packet("SYN", c, 0, Nothing)} /\ net["client"] = <<>>
      /\ seqno["client"] = c
  BY <1>1, SingletonRange
<1>4. Packet("SYN", c, 0, Nothing).type = "SYN" /\ Packet("SYN", c, 0, Nothing).seq = c
  BY DEF Packet
<1> QED BY <1>2, <1>3, <1>4 DEF Syns, SynNo

\* The client goes on, from its SYN to numbers beyond it, and sends SYNs at first only.
LEMMA ClientSyns ==
  ASSUME TypeOK, Syns, Client
  PROVE  Syns'
<1> DEFINE c == "client"
<1>0. /\ c \in Sides /\ Other(c) = "server" /\ "server" \in Sides
      /\ at \in [Sides -> ClientPlaces \cup ServerPlaces]
      /\ seqno \in [Sides -> Nat \ {0}] /\ seqno[c] \in Nat \ {0}
      /\ msg[c] \in Texts /\ seqrcv \in [Sides -> Nat]
  BY SidesFacts DEF TypeOK
<1>1. ASSUME NEW i \in Arrivals(c), NEW p \in Packets, NEW out \in {<<>>, <<p>>},
             NEW r, r = i \/ r = [i EXCEPT !.rest = <<>>], Exchange(c, r, out)
      PROVE  /\ Range(net'["server"]) \subseteq Range(net["server"]) \cup {p}
             /\ net[c] = <<>> => net'[c] = <<>>
  <2>1. r.rest \in Seq(Packets) /\ Range(r.rest) \subseteq Range(net[c])
    <3>1. CASE r = i
      BY <1>0, <3>1, ArrivalType, ArrivalRange
    <3>2. CASE r = [i EXCEPT !.rest = <<>>]
      <4>1. r.rest = <<>>
        BY <1>0, <3>2, ArrivalType
      <4> QED BY <1>0, <4>1, ArrivalRange
    <3> QED BY <1>1, <3>1, <3>2
  <2>2. out \in Seq(Packets) /\ Range(out) \subseteq {p}
    <3>1. <<p>> \in Seq(Packets) /\ <<>> \in Seq(Packets)
      OBVIOUS
    <3> QED BY <1>1, <3>1, SingletonRange
  <2>3. /\ net'[c] = r.rest
        /\ Range(net'["server"]) \subseteq Range(net["server"]) \cup Range(out)
    BY <1>0, <1>1, <2>1, <2>2, ExchangeRange
  <2>4. net[c] = <<>> => r.rest = <<>>
    BY <1>0, <1>1, ArrivalType
  <2> QED BY <2>2, <2>3, <2>4
\* Once it is connected.
<1>2. ASSUME at[c] \notin {"syn"}, NEW p \in Packets, p.type # "SYN",
             Range(net'["server"]) \subseteq Range(net["server"]) \cup {p},
             UNCHANGED at["server"], UNCHANGED seqrcv["server"],
             seqno'[c] \in Nat,
             \/ at[c] = "extra" /\ seqno'[c] > seqno[c]
             \/ at[c] # "extra" /\ seqno'[c] >= seqno[c],
             at'[c] \notin {"syn", "extra"}
      PROVE  Syns'
  <2>1. \A n \in Nat : SynNo(n) => SynNo(n)'
    BY <1>0, <1>2 DEF SynNo
  <2>2. \A q \in Range(net'["server"]) : q.type = "SYN" =>
          q \in Range(net["server"]) /\ q.seq \in Nat
    <3>1. \A q \in Range(net["server"]) : q.seq \in Nat
      <4>1. Range(net["server"]) \subseteq Packets
        BY <1>0, RangeOfSeq DEF TypeOK
      <4> QED BY <4>1 DEF Packets
    <3> QED BY <1>2, <3>1
  <2>3. at'["server"] # "listen"
    BY <1>2 DEF Syns
  <2>4. at'["server"] = "accept" => SynNo(seqrcv["server"])'
    <3>1. seqrcv["server"] \in Nat /\ seqrcv'["server"] = seqrcv["server"]
      BY <1>0, <1>2
    <3>2. at'["server"] = "accept" => SynNo(seqrcv["server"])
      BY <1>2 DEF Syns
    <3> QED BY <1>0, <1>2, <3>1, <3>2 DEF SynNo
  <2>5. ASSUME NEW q \in Range(net'["server"]), q.type = "SYN"
        PROVE  SynNo(q.seq)'
    <3>1. q.seq \in Nat /\ SynNo(q.seq)
      BY <2>2, <2>5 DEF Syns
    <3> QED BY <2>1, <3>1
  <2> QED BY <2>3, <2>4, <2>5 DEF Syns
<1>3. CASE Connect
  <2>1. PICK i \in Arrivals(c) :
          /\ at[c] = "syn"
          /\ IF Acked(c, i)
             THEN /\ seqrcv' = [seqrcv EXCEPT ![c] = i.packet.seq]
                  /\ Exchange(c, i, <<Packet("ACK", 0, i.packet.seq, Nothing)>>)
                  /\ at' = [at EXCEPT ![c] = "extra"]
             ELSE /\ Exchange(c, i, <<Packet("SYN", seqno[c], 0, Nothing)>>)
                  /\ UNCHANGED <<at, seqrcv>>
          /\ UNCHANGED seqno
    BY <1>3 DEF Connect, MoveTo
  <2>2. at'["server"] = at["server"] /\ seqrcv'["server"] = seqrcv["server"]
    BY <1>0, <2>1
  <2>3. CASE Acked(c, i)
    <3> DEFINE p == Packet("ACK", 0, i.packet.seq, Nothing)
    <3>1. p \in Packets /\ p.type = "ACK"
      BY <1>0, ArrivalType, PacketType, NothingType DEF Packet
    <3>2. Range(net'["server"]) \subseteq Range(net["server"]) \cup {p}
      BY <1>1, <2>1, <2>3, <3>1
    <3>3. at'[c] = "extra"
      BY <1>0, <2>1, <2>3
    <3>4. net[c] # <<>>
      BY <1>0, <2>3, ArrivalType, SilenceFacts DEF Acked
    <3>5. \A n : SynNo(n)' <=> SynNo(n)
      BY <2>1, <3>3 DEF SynNo
    <3> HIDE DEF p
    <3> QED BY <2>2, <3>1, <3>2, <3>4, <3>5 DEF Syns, SynNo
  <2>4. CASE ~ Acked(c, i)
    <3> DEFINE p == Packet("SYN", seqno[c], 0, Nothing)
    <3>1. p \in Packets /\ p.type = "SYN" /\ p.seq = seqno[c]
      BY <1>0, PacketType, NothingType DEF Packet
    <3>2. /\ Range(net'["server"]) \subseteq Range(net["server"]) \cup {p}
          /\ net[c] = <<>> => net'[c] = <<>>
      BY <1>1, <2>1, <2>4, <3>1
    <3>3. at' = at /\ seqrcv' = seqrcv
      BY <2>1, <2>4
    <3>4. \A n : SynNo(n)' <=> SynNo(n)
      BY <2>1, <3>3 DEF SynNo
    <3>5. SynNo(p.seq)
      BY <2>1, <3>1 DEF SynNo
    <3> HIDE DEF p
    <3> QED BY <3>1, <3>2, <3>3, <3>4, <3>5, <2>1 DEF Syns, SynNo
  <2> QED BY <2>3, <2>4
<1>4. ASSUME NEW i \in Arrivals(c), NEW n \in Nat, BeginSend(c, i, Request(n)),
             at[c] \in {"extra", "receive"}, UNCHANGED seqrcv["server"]
      PROVE  Syns'
  <2>1. /\ msg' \in [Sides -> Texts] /\ seqno' = [seqno EXCEPT ![c] = @ + 1]
        /\ at' = [at EXCEPT ![c] = "send"] /\ Exchange(c, i, <<Data(c)'>>)
    <3>1. Request(n) \in Texts /\ StrLen(Request(n)) = 1
      BY DEF Request, Texts, StrLen
    <3> QED BY <1>0, <1>4, <3>1, BeginSendType DEF BeginSend
  <2>2. Data(c)' \in Packets /\ Data(c)'.type = "DATA"
    <3>1. seqno'[c] \in Nat /\ msg'[c] \in Texts
      BY <1>0, <2>1
    <3> QED BY <3>1, PacketType DEF Data, Packet
  <2>3. Range(net'["server"]) \subseteq Range(net["server"]) \cup {Data(c)'}
    BY <1>1, <2>1, <2>2
  <2> QED BY <1>0, <1>2, <1>4, <2>1, <2>2, <2>3
<1>5. CASE Connected
  BY <1>4, <1>5 DEF Connected
<1>6. ASSUME NEW i \in Arrivals(c), NEW p \in Packets, p.type # "SYN",
             NEW out \in {<<>>, <<p>>}, NEW r, r = i \/ r = [i EXCEPT !.rest = <<>>],
             Exchange(c, r, out), UNCHANGED seqno,
             at[c] \notin {"syn", "extra"}, UNCHANGED seqrcv["server"],
             at' = at \/ \E x : at' = [at EXCEPT ![c] = x] /\ x \notin {"syn", "extra"}
      PROVE  Syns'
  <2>1. Range(net'["server"]) \subseteq Range(net["server"]) \cup {p}
    BY <1>1, <1>6
  <2> QED BY <1>0, <1>2, <1>6, <2>1
<1>7. /\ Fin \in Packets /\ Fin.type = "FIN" /\ Data(c) \in Packets /\ Data(c).type = "DATA"
      /\ \A n \in Nat : Packet("ACK", 0, n, Nothing) \in Packets
      /\ \A n : Packet("ACK", 0, n, Nothing).type = "ACK"
  BY <1>0, PacketType, NothingType DEF Fin, Data, Packet
<1>8. CASE Answered
  <2>1. PICK i \in Arrivals(c) :
          /\ at[c] = "receive" /\ seqrcv' = [seqrcv EXCEPT ![c] = last]
          /\ \/ BeginSend(c, i, Request(reqno + 1))
             \/ /\ Exchange(c, i, <<Fin>>) /\ at' = [at EXCEPT ![c] = "fin"]
                /\ UNCHANGED seqno
    BY <1>8 DEF Answered, MoveTo
  <2>2. reqno + 1 \in Nat /\ seqrcv'["server"] = seqrcv["server"]
    BY <1>0, <2>1 DEF TypeOK
  <2>3. CASE BeginSend(c, i, Request(reqno + 1))
    BY <1>4, <2>1, <2>2, <2>3
  <2>4. CASE /\ Exchange(c, i, <<Fin>>) /\ at' = [at EXCEPT ![c] = "fin"]
             /\ UNCHANGED seqno
    <3>1. "fin" \notin {"syn", "extra"} /\ <<Fin>> \in {<<>>, <<Fin>>}
      OBVIOUS
    <3> QED BY <1>6, <1>7, <2>1, <2>2, <2>4, <3>1
  <2> QED BY <2>1, <2>3, <2>4
<1>9. CASE Send(c)
  <2>1. PICK i \in Arrivals(c) :
          /\ at[c] = "send" /\ UNCHANGED <<seqno, seqrcv>>
          /\ \/ Exchange(c, i, <<>>) /\ at' = [at EXCEPT ![c] = "receive"]
             \/ Exchange(c, i, <<Data(c)>>) /\ UNCHANGED at
    BY <1>9 DEF Send, MoveTo
  <2> QED BY <1>6, <1>7, <2>1
<1>10. CASE Receive(c)
  <2>1. PICK i \in Arrivals(c) :
          /\ at[c] = "receive" /\ UNCHANGED seqno
          /\ \/ /\ Exchange(c, i, <<Packet("FINACK", seqno[c], i.packet.seq, Nothing)>>)
                /\ seqrcv' = [seqrcv EXCEPT ![c] = i.packet.seq]
                /\ at' = [at EXCEPT ![c] = "finack"]
             \/ /\ Exchange(c, i, <<Packet("DATA", seqno[c], AckNo(c, i.packet.data),
                                           Nothing)>>)
                /\ seqrcv' = seqrcv /\ UNCHANGED at
             \/ Exchange(c, i, <<>>) /\ UNCHANGED <<at, seqrcv>>
    BY <1>10 DEF Receive, MoveTo
  <2>2. seqrcv'["server"] = seqrcv["server"]
    BY <1>0, <2>1
  <2>3. /\ Packet("FINACK", seqno[c], i.packet.seq, Nothing) \in Packets
        /\ Packet("FINACK", seqno[c], i.packet.seq, Nothing).type = "FINACK"
        /\ Packet("DATA", seqno[c], AckNo(c, i.packet.data), Nothing) \in Packets
        /\ Packet("DATA", seqno[c], AckNo(c, i.packet.data), Nothing).type = "DATA"
    BY <1>0, ArrivalType, CopiedType, PacketType, NothingType DEF Packet
  <2>4. at[c] \notin {"syn", "extra"} /\ "finack" \notin {"syn", "extra"}
    BY <2>1
  <2>5. CASE /\ Exchange(c, i, <<Packet("FINACK", seqno[c], i.packet.seq, Nothing)>>)
             /\ at' = [at EXCEPT ![c] = "finack"]
    BY <1>6, <2>1, <2>2, <2>3, <2>4, <2>5
  <2>6. CASE /\ Exchange(c, i, <<Packet("DATA", seqno[c], AckNo(c, i.packet.data),
                                        Nothing)>>)
             /\ UNCHANGED at
    BY <1>6, <2>1, <2>2, <2>3, <2>4, <2>6
  <2>7. CASE Exchange(c, i, <<>>) /\ UNCHANGED at
    BY <1>6, <1>7, <2>1, <2>2, <2>4, <2>7
  <2> QED BY <2>1, <2>5, <2>6, <2>7
<1>11. CASE Close
  <2>1. PICK i \in Arrivals(c) :
          /\ at[c] = "fin" /\ UNCHANGED seqno
          /\ \/ /\ seqrcv' = [seqrcv EXCEPT ![c] = i.packet.seq]
                /\ Exchange(c, i, <<Packet("ACK", 0, i.packet.seq, Nothing)>>)
                /\ at' = [at EXCEPT ![c] = "finextra"]
             \/ Exchange(c, i, <<Fin>>) /\ UNCHANGED <<at, seqrcv>>
    BY <1>11 DEF Close, MoveTo
  <2>2. i.packet.seq \in Nat /\ seqrcv'["server"] = seqrcv["server"]
    BY <1>0, <2>1, ArrivalType
  <2>3. at[c] \notin {"syn", "extra"} /\ "finextra" \notin {"syn", "extra"}
    BY <2>1
  <2>4. CASE /\ Exchange(c, i, <<Packet("ACK", 0, i.packet.seq, Nothing)>>)
             /\ at' = [at EXCEPT ![c] = "finextra"]
    <3>1. /\ Packet("ACK", 0, i.packet.seq, Nothing) \in Packets
          /\ Packet("ACK", 0, i.packet.seq, Nothing).type # "SYN"
      BY <1>7, <2>2
    <3> QED BY <1>6, <2>1, <2>2, <2>3, <2>4, <3>1
  <2>5. CASE Exchange(c, i, <<Fin>>) /\ UNCHANGED at
    BY <1>6, <1>7, <2>1, <2>2, <2>3, <2>5
  <2> QED BY <2>1, <2>4, <2>5
<1>12. CASE Closed
  <2>1. PICK i \in Arrivals(c) :
          /\ at[c] = "finextra" /\ UNCHANGED <<seqno, seqrcv>>
          /\ Exchange(c, [i EXCEPT !.rest = <<>>], <<>>)
          /\ at' = [at EXCEPT ![c] = "closed"]
    BY <1>12 DEF Closed, MoveTo
  <2>2. at[c] \notin {"syn", "extra"} /\ "closed" \notin {"syn", "extra"}
    BY <2>1
  <2>3. seqrcv'["server"] = seqrcv["server"]
    BY <2>1
  <2> QED BY <1>6, <1>7, <2>1, <2>2, <2>3
<1> QED BY <1>3, <1>5, <1>8, <1>9, <1>10, <1>11, <1>12 DEF Client

\* What the server does with the numbers of SYNs.
LEMMA ServerSyns ==
  ASSUME TypeOK, Syns, Server
  PROVE  Syns' /\ UNCHANGED <<at["client"], seqno["client"]>>
<1> DEFINE s == "server"
<1>0. /\ s \in Sides /\ Other(s) = "client" /\ "client" \in Sides
      /\ at \in [Sides -> ClientPlaces \cup ServerPlaces]
      /\ seqno \in [Sides -> Nat \ {0}] /\ seqrcv \in [Sides -> Nat]
      /\ net \in [Sides -> Seq(Packets)]
  BY SidesFacts DEF TypeOK
<1>1. ASSUME NEW i \in Arrivals(s), NEW out,
             NEW r, r = i \/ r = [i EXCEPT !.rest = <<>>], Exchange(s, r, out)
      PROVE  Range(net'[s]) \subseteq Range(net[s])
  <2>1. net'[s] = r.rest
    BY <1>0, <1>1 DEF Exchange
  <2>2. CASE r = i
    BY <1>0, <2>1, <2>2, ArrivalRange
  <2>3. CASE r = [i EXCEPT !.rest = <<>>]
    <3>1. r.rest = <<>>
      BY <1>0, <2>3, ArrivalType
    <3> QED BY <1>0, <2>1, <3>1, ArrivalRange
  <2> QED BY <1>1, <2>2, <2>3
<1>2. ASSUME at' = at \/ \E x : at' = [at EXCEPT ![s] = x] /\ x # "listen",
             at'[s] # "listen", UNCHANGED seqno["client"],
             at'[s] = "accept" => SynNo(seqrcv'[s]),
             Range(net'[s]) \subseteq Range(net[s])
      PROVE  Syns' /\ UNCHANGED <<at["client"], seqno["client"]>>
  <2>1. at'["client"] = at["client"]
    BY <1>0, <1>2
  <2>2. SynNo(seqrcv[s])' <=> SynNo(seqrcv'[s])
    BY <1>2, <2>1 DEF SynNo
  <2>3. \A n : SynNo(n)' <=> SynNo(n)
    BY <1>2, <2>1 DEF SynNo
  <2> QED BY <1>2, <2>1, <2>2, <2>3 DEF Syns
<1>3. CASE Listen
  <2>1. PICK i \in Arrivals(s) :
          /\ at[s] = "listen" /\ i.packet # Silence
          /\ seqrcv' = [seqrcv EXCEPT ![s] = i.packet.seq]
          /\ Exchange(s, i, <<SynAck(i.packet.seq)>>)
          /\ at' = [at EXCEPT ![s] = "accept"] /\ UNCHANGED seqno
    BY <1>3 DEF Listen, MoveTo
  <2>2. i.packet \in Range(net[s])
    BY <1>0, <2>1, ArrivalRange
  <2>3. SynNo(i.packet.seq)
    BY <2>1, <2>2 DEF Syns
  <2>4. SynNo(seqrcv'[s]) /\ at'[s] # "listen"
    BY <1>0, <2>1, <2>3
  <2> QED BY <1>1, <1>2, <2>1, <2>4
<1>4. CASE Accept
  <2>1. PICK i \in Arrivals(s) :
          /\ at[s] = "accept" /\ UNCHANGED seqno
          /\ \/ /\ Exchange(s, i, <<>>) /\ at' = [at EXCEPT ![s] = "receive"]
                /\ UNCHANGED seqrcv
             \/ /\ seqrcv' = IF i.packet.type = "SYN"
                             THEN [seqrcv EXCEPT ![s] = i.packet.seq] ELSE seqrcv
                /\ Exchange(s, i, <<SynAck(seqrcv'[s])>>)
                /\ UNCHANGED at
    BY <1>4 DEF Accept, MoveTo
  <2>2. i.packet.type = "SYN" => SynNo(i.packet.seq)
    BY <1>0, ArrivalRange, SilenceFacts DEF Syns
  <2>3. SynNo(seqrcv[s])
    BY <2>1 DEF Syns
  <2>4. at'[s] = "accept" => SynNo(seqrcv'[s])
    BY <1>0, <2>1, <2>2, <2>3
  <2>5. at'[s] # "listen"
    BY <1>0, <2>1
  <2> QED BY <1>1, <1>2, <2>1, <2>4, <2>5
<1>5. ASSUME NEW place, place \notin {"listen", "accept"},
             at[s] \notin {"listen", "accept"},
             at' = at \/ at' = [at EXCEPT ![s] = place],
             UNCHANGED seqno["client"],
             NEW i \in Arrivals(s), NEW out,
             NEW r, r = i \/ r = [i EXCEPT !.rest = <<>>], Exchange(s, r, out)
      PROVE  Syns' /\ UNCHANGED <<at["client"], seqno["client"]>>
  <2>1. at'[s] \notin {"listen", "accept"}
    BY <1>0, <1>5
  <2> QED BY <1>1, <1>2, <1>5, <2>1
<1>6. CASE Receive(s)
  <2>1. PICK i \in Arrivals(s) :
          /\ at[s] = "receive" /\ UNCHANGED seqno
          /\ \/ \E out : Exchange(s, i, out) /\ at' = [at EXCEPT ![s] = "finack"]
             \/ \E out : Exchange(s, i, out) /\ UNCHANGED at
    BY <1>6 DEF Receive, MoveTo
  <2> QED BY <1>5, <2>1
<1>7. CASE Respond
  <2>1. PICK i \in Arrivals(s) :
          /\ at[s] = "receive" /\ \E out : Exchange(s, i, out)
          /\ at' = [at EXCEPT ![s] = "send"]
          /\ \E n : seqno' = [seqno EXCEPT ![s] = n]
    BY <1>7 DEF Respond, BeginSend, MoveTo
  <2>2. UNCHANGED seqno["client"]
    BY <1>0, <2>1
  <2>3. PICK out : Exchange(s, i, out)
    BY <2>1
  <2>4. "send" \notin {"listen", "accept"} /\ at[s] \notin {"listen", "accept"}
    BY <2>1
  <2> QED BY <1>5, <2>1, <2>2, <2>3, <2>4
<1>8. CASE Send(s)
  <2>1. PICK i \in Arrivals(s) :
          /\ at[s] = "send" /\ UNCHANGED seqno
          /\ \/ Exchange(s, i, <<>>) /\ at' = [at EXCEPT ![s] = "receive"]
             \/ Exchange(s, i, <<Data(s)>>) /\ UNCHANGED at
    BY <1>8 DEF Send, MoveTo
  <2> QED BY <1>5, <2>1
<1>9. CASE FinAck
  <2>1. PICK i \in Arrivals(s) :
          /\ at[s] = "finack" /\ UNCHANGED seqno
          /\ \/ /\ Exchange(s, [i EXCEPT !.rest = <<>>], <<>>)
                /\ at' = [at EXCEPT ![s] = "closed"]
             \/ \E out : Exchange(s, i, out) /\ UNCHANGED at
    BY <1>9 DEF FinAck, MoveTo
  <2> QED BY <1>5, <2>1
<1> QED BY <1>3, <1>4, <1>6, <1>7, <1>8, <1>9 DEF Server

LEMMA NextSyns == ASSUME TypeOK, Syns, [Next]_vars PROVE Syns'
<1>1. CASE UNCHANGED vars
  BY <1>1 DEF vars, Syns, SynNo
<1>2. CASE Lose
  <2>1. UNCHANGED <<at, seqno, seqrcv>>
    BY <1>2 DEF Lose
  <2>2. \A s \in Sides : /\ Range(net'[s]) \subseteq Range(net[s])
                         /\ net[s] = <<>> => net'[s] = <<>>
    BY <1>2, LoseRange
  <2> QED BY <2>1, <2>2, SidesFacts DEF Syns, SynNo
<1>3. CASE \E s \in Sides : Hang(s)
  <2>1. PICK s \in Sides : at[s] \in {"send", "receive"}
                           /\ at' = [at EXCEPT ![s] = "hung"]
                           /\ UNCHANGED <<seqno, seqrcv, net>>
    BY <1>3 DEF Hang, MoveTo
  <2>2. /\ at'["client"] \in {"syn", "extra"} <=> at["client"] \in {"syn", "extra"}
        /\ at'["server"] \in {at["server"], "hung"}
        /\ at["server"] = "listen" => at'["client"] = at["client"]
    BY <2>1, SidesFacts DEF TypeOK, Syns
  <2>3. \A n : SynNo(n)' <=> SynNo(n)
    BY <2>1, <2>2 DEF SynNo
  <2>4. SynNo(seqrcv["server"])' <=> SynNo(seqrcv["server"])
    BY <2>1, <2>2 DEF SynNo
  <2> QED BY <2>1, <2>2, <2>3, <2>4 DEF Syns
<1> QED BY <1>1, <1>2, <1>3, ClientSyns, ServerSyns DEF Next

\* A SYN has the client's first number, also one that comes late, and accept
\* has taken its number from one.
THEOREM SynsInvariant == Spec => []Syns
<1>1. TypeOK /\ Syns /\ [Next]_vars => Syns'
  BY NextSyns
<1> QED BY <1>1, InitSyns, TypeCorrect, PTL DEF Spec

\* Both wait for an acknowledgement, or the server for nothing more, and none
\* is on its way.
Lost ==
  /\ at["client"] \in {"send", "fin"}
  /\ at["server"] \in {"send", "accept", "hung"}
  /\ \A s \in Sides : \A p \in Range(net[s]) : p.ack # seqno[s]

LEMMA StuckIsLost == ASSUME TypeOK PROVE Stuck <=> Lost /\ at["server"] # "hung"
<1>1. \A s \in Sides : (\A n \in DOMAIN net[s] : net[s][n].ack # seqno[s])
                        <=> \A p \in Range(net[s]) : p.ack # seqno[s]
  BY DEF Range
<1> QED BY <1>1 DEF Stuck, Lost

\* They send to each other, and neither send() takes it for its acknowledgement.
LEMMA LostStays ==
  ASSUME TypeOK, Syns, Lost, [Next]_vars
  PROVE  /\ Lost' \/ at'["client"] = "hung"
         /\ at'["server"] \in {at["server"], "hung"}
<1>0. /\ "client" \in Sides /\ "server" \in Sides
      /\ Other("client") = "server" /\ Other("server") = "client"
      /\ seqno \in [Sides -> Nat \ {0}] /\ msg \in [Sides -> Texts]
      /\ at \in [Sides -> ClientPlaces \cup ServerPlaces]
      /\ \A s \in Sides : seqno[s] \in Nat \ {0}
  BY SidesFacts DEF TypeOK
<1>1. ASSUME NEW s \in Sides, NEW i \in Arrivals(s), NEW p \in Packets,
             p.ack # seqno[Other(s)], Exchange(s, i, <<p>>),
             UNCHANGED <<at, seqno>>
      PROVE  Lost'
  <2>1. i.rest \in Seq(Packets) /\ Range(i.rest) \subseteq Range(net[s])
    BY ArrivalType, ArrivalRange
  <2>2. /\ Range(net'[s]) \subseteq Range(net[s])
        /\ Range(net'[Other(s)]) \subseteq Range(net[Other(s)]) \cup {p}
    <3>1. <<p>> \in Seq(Packets) /\ Range(<<p>>) = {p}
      BY SingletonRange
    <3> QED BY <1>1, <2>1, <3>1, ExchangeRange
  <2> QED BY <1>1, <2>2, SidesFacts DEF Lost
<1>2. ASSUME NEW s \in Sides, NEW i \in Arrivals(s)
      PROVE  ~ Acked(s, i)
  BY <1>0, ArrivalRange, SilenceFacts DEF Acked, Lost
<1>3. CASE Client
  <2>1. CASE Send("client")
    <3>1. PICK i \in Arrivals("client") :
            Exchange("client", i, <<Data("client")>>) /\ UNCHANGED <<at, seqno>>
      BY <1>0, <1>2, <2>1 DEF Send
    <3>2. Data("client") \in Packets /\ Data("client").ack = 0
      BY <1>0, PacketType DEF Data, Packet
    <3> QED BY <1>0, <1>1, <3>1, <3>2 DEF Lost
  <2>2. CASE Close
    <3>1. PICK i \in Arrivals("client") :
            Exchange("client", i, <<Fin>>) /\ UNCHANGED <<at, seqno>>
      BY <1>0, <1>2, <2>2 DEF Close
    <3>2. Fin \in Packets /\ Fin.ack = 0
      BY <1>0, PacketType, NothingType DEF Fin, Packet
    <3> QED BY <1>0, <1>1, <3>1, <3>2 DEF Lost
  <2>3. ~ (Connect \/ Connected \/ Receive("client") \/ Answered \/ Closed)
    BY DEF Lost, Connect, Connected, Receive, Answered, Closed
  <2> QED BY <1>3, <2>1, <2>2, <2>3 DEF Client
<1>4. CASE Server
  <2>1. CASE Send("server")
    <3>1. PICK i \in Arrivals("server") :
            Exchange("server", i, <<Data("server")>>) /\ UNCHANGED <<at, seqno>>
      BY <1>0, <1>2, <2>1 DEF Send
    <3>2. Data("server") \in Packets /\ Data("server").ack = 0
      BY <1>0, PacketType DEF Data, Packet
    <3> QED BY <1>0, <1>1, <3>1, <3>2 DEF Lost
  <2>2. CASE Accept
    <3>1. PICK i \in Arrivals("server") :
            /\ Exchange("server", i, <<SynAck(seqrcv'["server"])>>)
            /\ UNCHANGED <<at, seqno>> /\ at["server"] = "accept"
      BY <1>0, <1>2, <2>2 DEF Accept
    <3>2. SynNo(seqrcv["server"])'
      BY <1>4, <3>1, ServerSyns DEF Syns
    <3>3. seqrcv'["server"] < seqno["client"] /\ seqrcv'["server"] \in Nat
      <4>1. at'["client"] \in {"send", "fin"} /\ seqno' = seqno
        BY <3>1 DEF Lost
      <4>2. TypeOK'
        BY <2>2, ServerTypeOK
      <4> QED BY <1>0, <3>2, <4>1, <4>2 DEF SynNo, TypeOK
    <3>4. /\ SynAck(seqrcv'["server"]) \in Packets
          /\ SynAck(seqrcv'["server"]).ack = seqrcv'["server"]
      BY <1>0, <3>3, PacketType, NothingType DEF SynAck, Packet
    <3> QED BY <1>0, <1>1, <3>1, <3>3, <3>4 DEF Lost
  <2>3. ~ (Listen \/ Receive("server") \/ Respond \/ FinAck)
    BY DEF Lost, Listen, Receive, Respond, FinAck
  <2> QED BY <1>4, <2>1, <2>2, <2>3 DEF Server
<1>5. CASE Lose
  <2>1. UNCHANGED <<at, seqno>>
    BY <1>5 DEF Lose
  <2>2. \A s \in Sides : Range(net'[s]) \subseteq Range(net[s])
    BY <1>5, LoseRange
  <2> QED BY <2>1, <2>2 DEF Lost
<1>6. CASE \E s \in Sides : Hang(s)
  BY <1>0, <1>6, SidesFacts DEF Hang, MoveTo, Lost
<1>7. CASE UNCHANGED vars
  BY <1>7 DEF vars, Lost
<1>8. at'["server"] \in {at["server"], "hung"}
  <2>1. CASE Client
    <3>1. at' = at \/ \E x : at' = [at EXCEPT !["client"] = x]
      BY <2>1 DEF Client, Connect, Connected, Send, Receive, Answered, Close, Closed,
                  BeginSend, MoveTo
    <3> QED BY <1>0, <3>1
  <2>2. CASE Server
    <3>1. Send("server") \/ Accept
      BY <2>2 DEF Lost, Server, Listen, Receive, Respond, FinAck
    <3> QED BY <1>2, <1>0, <3>1 DEF Send, Accept
  <2>3. CASE \E s \in Sides : Hang(s)
    BY <1>0, <2>3, SidesFacts DEF Hang, MoveTo
  <2> QED BY <2>1, <2>2, <2>3 DEF Next, Lose, vars
<1> QED BY <1>3, <1>4, <1>5, <1>6, <1>7, <1>8 DEF Next

\* Two sides that wait for each other's acknowledgement wait for ever: no packet
\* that either sends is the one the other waits for, whatever the network does,
\* for all numbers they began with.
THEOREM StuckForEver == Spec => StuckStays
<1>1. TypeOK /\ Syns /\ TypeOK' /\ [Next]_vars =>
        [Stuck => Stuck' \/ \E s \in Sides : at[s]' = "hung"]_vars
  <2> SUFFICES ASSUME TypeOK, Syns, TypeOK', [Next]_vars, Stuck
               PROVE  Stuck' \/ \E s \in Sides : at'[s] = "hung"
    OBVIOUS
  <2>1. Lost /\ at["server"] # "hung"
    BY StuckIsLost
  <2>2. Lost' \/ at'["client"] = "hung"
    BY <2>1, LostStays
  <2>3. Stuck' <=> Lost' /\ at'["server"] # "hung"
    <3>1. \A s \in Sides : (\A n \in DOMAIN net'[s] : net'[s][n].ack # seqno'[s])
                            <=> \A p \in Range(net'[s]) : p.ack # seqno'[s]
      BY DEF Range
    <3>2. at'["server"] # "hung" => at'["server"] \in {"send", "accept"}
      BY <2>1, LostStays DEF Lost
    <3> QED BY <3>1, <3>2 DEF Stuck, Lost
  <2> QED BY <2>2, <2>3, SidesFacts
<1> QED BY <1>1, TypeCorrect, SynsInvariant, PTL DEF Spec, StuckStays

-----------------------------------------------------------------------------
(* Until a timeout crosses a packet.  There is at most one packet under    *)
(* way, and the two are in one of the phases of a connection.  A server    *)
(* that hangs leaves the client in the phase it was in.                    *)

One ==
  /\ \A s \in Sides : Len(net[s]) <= 1
  /\ \E s \in Sides : net[s] = <<>>

\* Nothing goes to s, or packet p.
Flying(s, p) == net[s] = <<>> \/ net[s] = <<p>>
ServerIs(place) == at["server"] \in {place, "hung"}
AckOf(s, n) == Packet("DATA", seqno[s], n, Nothing)
Response(n) == [text |-> "ECHO RES", num |-> n + 1]

\* SYN and SYN+ACK.
Opening ==
  /\ at["client"] = "syn" /\ at["server"] \in {"listen", "accept"}
  /\ Flying("server", Packet("SYN", seqno["client"], 0, Nothing))
  /\ Flying("client", SynAck(seqno["client"]))
  /\ at["server"] = "listen" => net["client"] = <<>>
  /\ at["server"] = "accept" => seqrcv["server"] = seqno["client"]
  /\ reqno = 0 /\ answers = <<>>

\* The client has sent its ACK, which the server has or has not.
Opened ==
  /\ at["client"] = "extra"
  /\ seqrcv["client"] = seqno["server"] /\ seqrcv["server"] = seqno["client"]
  /\ \/ /\ at["server"] = "accept"
        /\ Flying("server", Packet("ACK", 0, seqno["server"], Nothing))
        /\ Flying("client", SynAck(seqno["client"]))
     \/ /\ ServerIs("receive") /\ ~ got["server"]
        /\ \A s \in Sides : net[s] = <<>>
  /\ reqno = 0 /\ answers = <<>>

\* A request goes to the server.
Asking ==
  /\ at["client"] = "send" /\ ServerIs("receive") /\ ~ got["server"]
  /\ seqrcv["client"] = seqno["server"] /\ seqrcv["server"] = seqno["client"] - 1
  /\ msg["client"] = Request(reqno)
  /\ Flying("server", Data("client")) /\ net["client"] = <<>>

\* The server has it and has acknowledged it, once or more than once: of a
\* repeated request the acknowledgement has another number.
Heard ==
  /\ at["client"] = "send" /\ ServerIs("receive")
  /\ seqrcv["client"] = seqno["server"] /\ seqrcv["server"] = seqno["client"]
  /\ msg["client"] = Request(reqno) /\ msg["server"] = Request(reqno)
  /\ Flying("server", Data("client"))
  /\ \/ Flying("client", AckOf("server", seqno["client"]))
     \/ Flying("client", AckOf("server", seqno["client"] + 1))

\* The client waits for the response.
Waiting ==
  /\ at["client"] = "receive" /\ ServerIs("receive") /\ ~ got["client"]
  /\ seqrcv["client"] = seqno["server"] /\ seqrcv["server"] = seqno["client"]
  /\ msg["server"] = Request(reqno)
  /\ \A s \in Sides : net[s] = <<>>

\* The response goes to the client, or its acknowledgement to the server.
Answering ==
  /\ at["client"] = "receive" /\ ServerIs("send")
  /\ seqrcv["client"] = seqno["server"] - 1 /\ seqrcv["server"] = seqno["client"]
  /\ msg["server"] = Response(reqno)
  /\ got["client"] => msg["client"] = Response(reqno) /\ last = seqno["server"]
  /\ Flying("client", Data("server")) /\ Flying("server", AckOf("client", seqno["server"]))
  /\ net["server"] # <<>> => got["client"]

\* Both have it all.
Told ==
  /\ at["client"] = "receive" /\ ServerIs("receive") /\ ~ got["server"]
  /\ seqrcv["client"] = seqno["server"] - 1 /\ seqrcv["server"] = seqno["client"]
  /\ got["client"] /\ msg["client"] = Response(reqno) /\ last = seqno["server"]
  /\ \A s \in Sides : net[s] = <<>>

Round == Asking \/ Heard \/ Waiting \/ Answering \/ Told

\* FIN and FIN+ACK.
Closing ==
  /\ at["client"] = "fin" /\ at["server"] \in {"receive", "finack", "hung"}
  /\ at["server"] = "receive" => ~ got["server"]
  /\ at["server"] = "finack" => seqrcv["server"] = seqno["client"]
  /\ Flying("server", Fin)
  /\ Flying("client", Packet("FINACK", seqno["server"], seqno["client"], Nothing))

Finished == at["client"] \in {"finextra", "closed", "hung"}

Phase ==
  \/ Opening \/ Opened \/ Closing \/ Finished \/ Lost
  \/ Round /\ Len(answers) + 1 = reqno

Right ==
  \A n \in DOMAIN answers : answers[n] = [text |-> "ECHO RES", num |-> n + 1]

Calm == ~ crossed => One /\ Phase /\ Right

\* Sequences of at most one element.
LEMMA ShortSeqs ==
  ASSUME NEW S
  PROVE  /\ Len(<<>>) = 0 /\ DOMAIN <<>> = {}
         /\ \A p \in S : /\ Len(<<p>>) = 1 /\ <<p>> # <<>> /\ Head(<<p>>) = p
                         /\ Tail(<<p>>) = <<>> /\ <<>> \o <<p>> = <<p>>
         /\ \A q \in Seq(S) : q # <<>> /\ Len(q) <= 1 => q = <<Head(q)>> /\ Head(q) \in S
<1>1. Len(<<>>) = 0 /\ <<>> \in Seq(S)
  BY EmptySeq, Zenon
<1>2. DOMAIN <<>> = {}
  <2>1. DOMAIN <<>> = 1 .. Len(<<>>)
    BY <1>1, LenProperties, Zenon
  <2> QED BY <1>1, <2>1
<1>3. ASSUME NEW p \in S
      PROVE  /\ Len(<<p>>) = 1 /\ <<p>> # <<>> /\ Head(<<p>>) = p
             /\ Tail(<<p>>) = <<>> /\ <<>> \o <<p>> = <<p>>
  <2>1. <<p>> \in Seq(S) /\ Len(<<p>>) = 1 /\ <<p>>[1] = p
    OBVIOUS
  <2>2. <<p>> # <<>> /\ Head(<<p>>) = p
    BY <2>1, <1>1
  <2>3. Tail(<<p>>) = <<>>
    <3>1. Tail(<<p>>) \in Seq(S) /\ Len(Tail(<<p>>)) = 0
      BY <2>1, <2>2, HeadTailProperties
    <3> QED BY <3>1, EmptySeq
  <2>4. <<>> \o <<p>> = <<p>>
    BY <2>1, ConcatEmptySeq, Zenon
  <2> QED BY <2>1, <2>2, <2>3, <2>4
<1>4. ASSUME NEW q \in Seq(S), q # <<>>, Len(q) <= 1
      PROVE  q = <<Head(q)>> /\ Head(q) \in S
  <2>1. Len(q) = 1
    <3>1. Len(q) \in Nat \ {0}
      BY <1>4, EmptySeq, Zenon
    <3> QED BY <1>4, <3>1
  <2>2. Head(q) \in S /\ Head(q) = q[1]
    BY <1>4, <2>1, HeadTailProperties
  <2>3. <<Head(q)>> \in Seq(S) /\ Len(<<Head(q)>>) = 1 /\ <<Head(q)>>[1] = Head(q)
    BY <2>2
  <2> QED BY <2>1, <2>2, <2>3, SeqEqual
<1> QED BY <1>1, <1>2, <1>3, <1>4

LEMMA InitCalm == Init => Calm
<1> SUFFICES ASSUME Init PROVE One /\ Opening /\ Right
  BY DEF Calm, Phase
<1>1. PICK c \in InitialSeqs, s \in InitialSeqs :
        /\ seqno = [client |-> c, server |-> s]
        /\ net = [client |-> <<>>, server |-> <<Packet("SYN", c, 0, Nothing)>>]
  BY DEF Init
<1>2. /\ net["client"] = <<>> /\ net["server"] = <<Packet("SYN", c, 0, Nothing)>>
      /\ seqno["client"] = c
  BY <1>1
<1>3. at["client"] = "syn" /\ at["server"] = "listen" /\ reqno = 0 /\ answers = <<>>
  BY DEF Init
<1>4. One
  <2>1. Len(<<>>) = 0 /\ Len(<<Packet("SYN", c, 0, Nothing)>>) = 1
    BY ShortSeqs, Zenon
  <2>2. Len(net["client"]) = 0 /\ Len(net["server"]) = 1
    BY <1>2, <2>1
  <2>3. \A x \in Sides : Len(net[x]) <= 1
    BY <2>2, SidesFacts, 0 <= 1, 1 <= 1, Zenon
  <2> QED BY <1>2, <2>3, SidesFacts DEF One
<1>5. Opening
  BY <1>2, <1>3 DEF Opening, Flying
<1>6. Right
  <2>1. DOMAIN answers = {}
    BY <1>3, ShortSeqs, Zenon
  <2> QED BY <2>1 DEF Right
<1> QED BY <1>4, <1>5, <1>6

\* A step of s: the other side gets what s sends and nothing else.
LEMMA Channel ==
  ASSUME TypeOK, One, ~ crossed', NEW s \in Sides, NEW i \in Arrivals(s),
         NEW r, r = i \/ r = [i EXCEPT !.rest = <<>>],
         NEW out, out = <<>> \/ \E p \in Packets : out = <<p>>, Exchange(s, r, out)
  PROVE  /\ ~ crossed /\ One'
         /\ net[Other(s)] = <<>> /\ net'[s] = <<>>
         /\ net'[Other(s)] = IF at[Other(s)] = "closed" THEN <<>> ELSE out
         /\ \/ i.packet = Silence /\ net[s] = <<>>
            \/ i.packet # Silence /\ net[s] = <<i.packet>>
<1> DEFINE Passed ==
             /\ net[Other(s)] = <<>> /\ net'[s] = <<>>
             /\ net'[Other(s)] = IF at[Other(s)] = "closed" THEN <<>> ELSE out
             /\ \/ i.packet = Silence /\ net[s] = <<>>
                \/ i.packet # Silence /\ net[s] = <<i.packet>>
<1>0. Other(s) \in Sides /\ Other(s) # s /\ \A x \in Sides : x = s \/ x = Other(s)
  BY SidesFacts DEF Other
<1>1. net[s] \in Seq(Packets) /\ net[Other(s)] \in Seq(Packets)
  BY <1>0 DEF TypeOK
<1>2. r.packet = i.packet /\ r.rest \in {i.rest, <<>>}
  BY ArrivalType
<1>3. /\ ~ crossed
      /\ i.packet = Silence => \A x \in Sides : net[x] = <<>>
      /\ net'[s] = r.rest
      /\ net'[Other(s)] = IF at[Other(s)] = "closed" THEN net[Other(s)]
                          ELSE net[Other(s)] \o out
  BY <1>0, <1>2 DEF Exchange
<1>9. out \in Seq(Packets) /\ Len(out) <= 1 /\ Len(<<>>) <= 1
  <2>1. CASE out = <<>>
    BY <2>1, ShortSeqs, EmptySeq
  <2>2. CASE \E p \in Packets : out = <<p>>
    <3>1. PICK p \in Packets : out = <<p>>
      BY <2>2
    <3>2. Len(out) = 1
      BY <3>1, ShortSeqs, Zenon
    <3>3. Len(<<>>) = 0
      BY ShortSeqs, Zenon
    <3> QED BY <3>1, <3>2, <3>3
  <2> QED BY <2>1, <2>2
<1>4. ASSUME i.packet = Silence PROVE Passed
  <2>1. net[s] = <<>> /\ net[Other(s)] = <<>>
    BY <1>0, <1>3, <1>4
  <2>2. i.rest = <<>>
    BY <1>4, <2>1, ArrivalType, SilenceFacts
  <2>3. net[Other(s)] \o out = out
    BY <1>9, <2>1, ConcatEmptySeq, Zenon
  <2>4. r.rest = <<>>
    BY <1>2, <2>2
  <2> QED BY <1>3, <1>4, <2>1, <2>3, <2>4
<1>5. ASSUME i.packet # Silence PROVE Passed
  <2>1. net[s] # <<>> /\ i.packet = Head(net[s]) /\ i.rest = Tail(net[s])
    BY <1>5, ArrivalType
  <2>2. Len(net[s]) <= 1 /\ net[Other(s)] = <<>>
    BY <1>0, <2>1 DEF One
  <2>3. net[s] = <<i.packet>> /\ i.packet \in Packets
    BY <1>1, <2>1, <2>2, ShortSeqs
  <2>4. i.rest = <<>>
    BY <2>1, <2>3, ShortSeqs
  <2>5. net[Other(s)] \o out = out
    BY <1>9, <2>2, ConcatEmptySeq, Zenon
  <2>6. r.rest = <<>>
    BY <1>2, <2>4
  <2> QED BY <1>3, <1>5, <2>2, <2>3, <2>5, <2>6
<1>6. net'[s] = <<>> /\ net'[Other(s)] \in {<<>>, out}
  BY <1>4, <1>5
<1>7. One'
  <2>1. Len(net'[s]) <= 1 /\ Len(net'[Other(s)]) <= 1
    BY <1>6, <1>9, Zenon
  <2>2. \A x \in Sides : Len(net'[x]) <= 1
    BY <1>0, <2>1, Zenon
  <2> QED BY <1>6, <2>2 DEF One
<1> QED BY <1>3, <1>4, <1>5, <1>7

LEMMA Sends ==
  ASSUME TypeOK, One, ~ crossed', NEW s \in Sides, NEW i \in Arrivals(s),
         NEW p \in Packets, Exchange(s, i, <<p>>), at[Other(s)] # "closed"
  PROVE  /\ net[Other(s)] = <<>> /\ net'[s] = <<>> /\ net'[Other(s)] = <<p>>
         /\ \/ i.packet = Silence /\ net[s] = <<>>
            \/ i.packet # Silence /\ net[s] = <<i.packet>>
BY Channel

LEMMA Hears ==
  ASSUME TypeOK, One, ~ crossed', NEW s \in Sides, NEW i \in Arrivals(s),
         Exchange(s, i, <<>>)
  PROVE  /\ net[Other(s)] = <<>> /\ net'[s] = <<>> /\ net'[Other(s)] = <<>>
         /\ \/ i.packet = Silence /\ net[s] = <<>>
            \/ i.packet # Silence /\ net[s] = <<i.packet>>
BY Channel

LEMMA Typed ==
  ASSUME TypeOK
  PROVE  /\ "client" \in Sides /\ "server" \in Sides
         /\ Other("client") = "server" /\ Other("server") = "client"
         /\ at \in [Sides -> ClientPlaces \cup ServerPlaces]
         /\ seqno \in [Sides -> Nat \ {0}] /\ seqrcv \in [Sides -> Nat]
         /\ msg \in [Sides -> Texts] /\ got \in [Sides -> BOOLEAN]
         /\ seqno["client"] \in Nat \ {0} /\ seqno["server"] \in Nat \ {0}
         /\ seqrcv["client"] \in Nat /\ seqrcv["server"] \in Nat
         /\ msg["client"] \in Texts /\ msg["server"] \in Texts
         /\ reqno \in Nat
BY SidesFacts DEF TypeOK

\* What two packets have in common.
LEMMA SamePacket ==
  ASSUME NEW s, NEW p, NEW q, Flying(s, q), net[s] = <<p>>
  PROVE  p = q
<1>1. <<p>> # <<>>
  BY ShortSeqs
<1>2. <<p>> = <<q>>
  BY <1>1 DEF Flying
<1>3. <<p>>[1] = <<q>>[1]
  BY <1>2
<1> QED BY <1>3

LEMMA Fields ==
  \A t, m, n, d : /\ Packet(t, m, n, d).type = t /\ Packet(t, m, n, d).seq = m
                  /\ Packet(t, m, n, d).ack = n /\ Packet(t, m, n, d).data = d
BY DEF Packet

\* Each side sends packets of these.
LEMMA Outs ==
  ASSUME TypeOK
  PROVE  /\ \A s \in Sides : /\ Data(s) \in Packets
                             /\ \A n \in Nat : AckOf(s, n) \in Packets
                             /\ \A n \in Nat : Packet("FINACK", seqno[s], n, Nothing) \in Packets
         /\ Fin \in Packets
         /\ \A n \in Nat : SynAck(n) \in Packets
         /\ Packet("SYN", seqno["client"], 0, Nothing) \in Packets
         /\ \A n \in Nat : Packet("ACK", 0, n, Nothing) \in Packets
BY Typed, PacketType, NothingType DEF Data, AckOf, Fin, SynAck, TypeOK

LEMMA SentType ==
  ASSUME TypeOK', NEW s \in Sides
  PROVE  Data(s)' \in Packets /\ Data(s)'.ack = 0
<1>1. seqno'[s] \in Nat /\ msg'[s] \in Texts
  BY DEF TypeOK
<1> QED BY <1>1, PacketType DEF Data, Packet

LEMMA ConnectCalm ==
  ASSUME TypeOK, One, ~ crossed', Connect, Opening
  PROVE  Opening' \/ Opened'
<1>1. PICK i \in Arrivals("client") :
        /\ IF Acked("client", i)
           THEN /\ seqrcv' = [seqrcv EXCEPT !["client"] = i.packet.seq]
                /\ Exchange("client", i, <<Packet("ACK", 0, i.packet.seq, Nothing)>>)
                /\ at' = [at EXCEPT !["client"] = "extra"]
           ELSE /\ Exchange("client", i, <<Packet("SYN", seqno["client"], 0, Nothing)>>)
                /\ UNCHANGED <<at, seqrcv>>
        /\ UNCHANGED <<seqno, reqno, answers>>
  BY DEF Connect, MoveTo
<1>2. CASE Acked("client", i)
  <2>1. Packet("ACK", 0, i.packet.seq, Nothing) \in Packets
    BY Typed, ArrivalType, Outs
  <2>2. /\ i.packet # Silence
    BY <1>2, Typed, SilenceFacts DEF Acked
  <2>3. /\ net["client"] = <<i.packet>> /\ net'["client"] = <<>>
        /\ net'["server"] = <<Packet("ACK", 0, i.packet.seq, Nothing)>>
    <3>1. at["server"] # "closed"
      BY DEF Opening
    <3> QED BY <1>1, <1>2, <2>1, <2>2, <3>1, Typed, Sends
  <2>4. i.packet = SynAck(seqno["client"])
    BY <2>3, SamePacket DEF Opening
  <2>5. i.packet.seq = seqno["server"]
    BY <2>4, Fields DEF SynAck
  <2>6. at["server"] = "accept"
    BY <2>3, ShortSeqs DEF Opening
  <2>7. at'["client"] = "extra" /\ at'["server"] = "accept"
    BY <1>1, <1>2, <2>6, Typed
  <2>8. seqrcv'["client"] = seqno["server"] /\ seqrcv'["server"] = seqno["client"]
    BY <1>1, <1>2, <2>5, <2>6, Typed DEF Opening
  <2> QED BY <1>1, <2>3, <2>5, <2>7, <2>8 DEF Opening, Opened, Flying
<1>3. CASE ~ Acked("client", i)
  <2>0. Packet("SYN", seqno["client"], 0, Nothing) \in Packets
    BY Outs
  <2>1. /\ net'["client"] = <<>>
        /\ net'["server"] = <<Packet("SYN", seqno["client"], 0, Nothing)>>
    <3>1. at["server"] # "closed"
      BY DEF Opening
    <3> QED BY <1>1, <1>3, <2>0, <3>1, Typed, Sends
  <2> QED BY <1>1, <1>3, <2>1 DEF Opening, Flying
<1> QED BY <1>2, <1>3

LEMMA ConnectedCalm ==
  ASSUME TypeOK, TypeOK', One, ~ crossed', Connected, Opened
  PROVE  Lost' \/ (Asking /\ Len(answers) + 1 = reqno)'
<1>1. PICK i \in Arrivals("client") :
        /\ reqno' = 1 /\ UNCHANGED <<seqrcv, got, answers>>
        /\ msg' = [msg EXCEPT !["client"] = Request(1)]
        /\ seqno' = [seqno EXCEPT !["client"] = @ + StrLen(Request(1))]
        /\ Exchange("client", i, <<Data("client")'>>)
        /\ at' = [at EXCEPT !["client"] = "send"]
  BY DEF Connected, BeginSend, MoveTo
<1>2. Data("client")' \in Packets
  BY Typed, SentType
<1>3. StrLen(Request(1)) = 1
  BY DEF StrLen, Request
<1>4. /\ net'["client"] = <<>> /\ net["server"] = <<>>
      /\ net'["server"] = <<Data("client")'>>
  <2>1. at["server"] # "closed"
    BY DEF Opened, ServerIs
  <2> QED BY <1>1, <1>2, <2>1, Typed, Sends
<1>5. /\ at'["client"] = "send" /\ at'["server"] = at["server"]
      /\ msg'["client"] = Request(1)
      /\ seqno'["client"] = seqno["client"] + 1 /\ seqno'["server"] = seqno["server"]
  BY <1>1, <1>3, Typed
<1>6. CASE at["server"] = "accept"
  <2>1. Data("client")'.ack = 0
    BY Typed, SentType
  <2>2. Range(net'["client"]) = {} /\ Range(net'["server"]) = {Data("client")'}
    BY <1>4, SingletonRange, Zenon
  <2>3. \A s \in Sides : \A p \in Range(net'[s]) : p.ack # seqno'[s]
    BY <1>5, <2>1, <2>2, Typed, SidesFacts
  <2> QED BY <1>5, <1>6, <2>3 DEF Lost
<1>7. CASE at["server"] # "accept"
  <2>1. ServerIs("receive") /\ ~ got["server"]
    BY <1>7 DEF Opened
  <2>2. Asking'
    BY <1>1, <1>4, <1>5, <2>1, Typed DEF Opened, Asking, ServerIs, Flying
  <2>3. Len(answers') + 1 = reqno'
    BY <1>1, ShortSeqs DEF Opened
  <2> QED BY <2>2, <2>3
<1> QED BY <1>6, <1>7

LEMMA ListenCalm ==
  ASSUME TypeOK, One, ~ crossed', Listen, Opening
  PROVE  Opening'
<1>1. PICK i \in Arrivals("server") :
        /\ i.packet # Silence
        /\ seqrcv' = [seqrcv EXCEPT !["server"] = i.packet.seq]
        /\ Exchange("server", i, <<SynAck(i.packet.seq)>>)
        /\ at' = [at EXCEPT !["server"] = "accept"]
        /\ UNCHANGED <<seqno, reqno, answers>>
  BY DEF Listen, MoveTo
<1>2. SynAck(i.packet.seq) \in Packets
  BY Typed, ArrivalType, Outs
<1>3. at["client"] = "syn"
  BY DEF Opening
<1>4. /\ net["server"] = <<i.packet>> /\ net'["server"] = <<>>
      /\ net'["client"] = <<SynAck(i.packet.seq)>>
  BY <1>1, <1>2, <1>3, Typed, Sends
<1>5. i.packet.seq = seqno["client"]
  BY <1>4, SamePacket, Fields DEF Opening
<1>6. at'["server"] = "accept" /\ at'["client"] = "syn"
      /\ seqrcv'["server"] = seqno["client"]
  BY <1>1, <1>3, <1>5, Typed
<1> QED BY <1>1, <1>4, <1>5, <1>6 DEF Opening, Flying, SynAck

LEMMA AcceptCalm ==
  ASSUME TypeOK, One, ~ crossed', Accept, Opening \/ Opened
  PROVE  Opening' \/ Opened'
<1>1. PICK i \in Arrivals("server") :
        /\ at["server"] = "accept"
        /\ IF i.packet.type # "SYN" /\ Acked("server", i)
           THEN /\ Exchange("server", i, <<>>)
                /\ at' = [at EXCEPT !["server"] = "receive"]
                /\ got' = [got EXCEPT !["server"] = FALSE]
                /\ UNCHANGED seqrcv
           ELSE /\ seqrcv' = IF i.packet.type = "SYN"
                             THEN [seqrcv EXCEPT !["server"] = i.packet.seq] ELSE seqrcv
                /\ Exchange("server", i, <<SynAck(seqrcv'["server"])>>)
                /\ UNCHANGED <<at, got>>
        /\ UNCHANGED <<seqno, reqno, answers>>
  BY DEF Accept, MoveTo
<1>2. seqrcv["server"] = seqno["client"] /\ at["client"] \in {"syn", "extra"}
  BY <1>1 DEF Opening, Opened, ServerIs
<1>3. ASSUME Opening, i.packet # Silence, net["server"] = <<i.packet>>
      PROVE  i.packet.type = "SYN" /\ i.packet.seq = seqno["client"]
  BY <1>3, SamePacket, Fields DEF Opening
<1>4. ASSUME Opened, i.packet # Silence, net["server"] = <<i.packet>>
      PROVE  i.packet.type = "ACK" /\ i.packet.ack = seqno["server"]
  BY <1>1, <1>4, SamePacket, Fields DEF Opened, ServerIs
<1>5. CASE i.packet.type # "SYN" /\ Acked("server", i)
  <2>1. i.packet # Silence
    BY <1>5, Typed, SilenceFacts DEF Acked
  <2>2. /\ net["server"] = <<i.packet>> /\ \A s \in Sides : net'[s] = <<>>
    BY <1>1, <1>5, <2>1, Typed, SidesFacts, Hears
  <2>3. Opened
    BY <1>3, <1>5, <2>1, <2>2
  <2>4. at'["server"] = "receive" /\ at'["client"] = "extra" /\ ~ got'["server"]
    BY <1>1, <1>5, <2>3, Typed DEF Opened
  <2> QED BY <1>1, <1>2, <1>5, <2>2, <2>3, <2>4 DEF Opened, ServerIs
<1>6. CASE ~ (i.packet.type # "SYN" /\ Acked("server", i))
  <2>1. seqrcv'["server"] \in Nat
    BY <1>1, <1>6, Typed, ArrivalType
  <2>2. SynAck(seqrcv'["server"]) \in Packets
    BY <2>1, Outs
  <2>3. /\ net'["server"] = <<>> /\ net'["client"] = <<SynAck(seqrcv'["server"])>>
        /\ \/ i.packet = Silence
           \/ i.packet # Silence /\ net["server"] = <<i.packet>>
    BY <1>1, <1>2, <1>6, <2>2, Typed, Sends
  <2>4. seqrcv'["server"] = seqno["client"]
    <3>1. CASE i.packet.type # "SYN"
      BY <1>1, <1>2, <1>6, <3>1
    <3>2. CASE i.packet.type = "SYN"
      <4>1. i.packet # Silence
        BY <3>2, SilenceFacts
      <4>2. Opening
        BY <1>4, <2>3, <3>2, <4>1
      <4> QED BY <1>1, <1>3, <2>3, <3>2, <4>1, <4>2, Typed
    <3> QED BY <3>1, <3>2
  <2>5. UNCHANGED <<at, got, seqno, reqno, answers>>
        /\ seqrcv'["client"] = seqrcv["client"]
    BY <1>1, <1>6, Typed
  <2>6. net'["client"] = <<SynAck(seqno["client"])>>
    BY <2>3, <2>4
  <2>7. CASE Opening
    BY <1>1, <2>3, <2>4, <2>5, <2>6, <2>7 DEF Opening, Flying, SynAck
  <2>8. CASE Opened
    BY <1>1, <2>3, <2>4, <2>5, <2>6, <2>8 DEF Opened, Flying, SynAck, ServerIs
  <2> QED BY <2>7, <2>8
<1> QED BY <1>5, <1>6

LEMMA ClientSendCalm ==
  ASSUME TypeOK, One, ~ crossed', Send("client"), Asking \/ Heard
  PROVE  (Asking \/ Heard \/ Waiting)' /\ UNCHANGED <<answers, reqno>>
<1>1. PICK i \in Arrivals("client") :
        /\ IF Acked("client", i)
           THEN /\ Exchange("client", i, <<>>)
                /\ at' = [at EXCEPT !["client"] = "receive"]
                /\ got' = [got EXCEPT !["client"] = FALSE]
           ELSE /\ Exchange("client", i, <<Data("client")>>)
                /\ UNCHANGED <<at, got>>
        /\ UNCHANGED <<seqno, seqrcv, msg, reqno, answers>>
  BY DEF Send, MoveTo
<1>2. CASE Acked("client", i)
  <2>1. i.packet # Silence
    BY <1>2, Typed, SilenceFacts DEF Acked
  <2>2. net["client"] = <<i.packet>> /\ \A s \in Sides : net'[s] = <<>>
    BY <1>1, <1>2, <2>1, Typed, SidesFacts, Hears
  <2>3. Heard
    BY <2>2, ShortSeqs DEF Asking
  <2>4. at'["client"] = "receive" /\ at'["server"] = at["server"] /\ ~ got'["client"]
    BY <1>1, <1>2, Typed
  <2> QED BY <1>1, <2>2, <2>3, <2>4 DEF Heard, Waiting, ServerIs
<1>3. CASE ~ Acked("client", i)
  <2>1. at["server"] # "closed" /\ Data("client") \in Packets
    BY Outs, Typed DEF Asking, Heard, ServerIs
  <2>2. net'["client"] = <<>> /\ net'["server"] = <<Data("client")>>
    BY <1>1, <1>3, <2>1, Typed, Sends
  <2>3. CASE Asking
    BY <1>1, <1>3, <2>2, <2>3 DEF Asking, ServerIs, Flying, Data
  <2>4. CASE Heard
    BY <1>1, <1>3, <2>2, <2>4 DEF Heard, ServerIs, Flying, Data
  <2> QED BY <2>3, <2>4
<1> QED BY <1>2, <1>3

\* What receive() makes of a message of the other side: text is not empty.
LEMMA Taken ==
  ASSUME TypeOK, NEW s \in Sides, NEW d \in Texts, d.text # ""
  PROVE  Copied(s, d) = d /\ AckNo(s, d) = seqrcv[s] + 1
BY DEF Copied, AckNo, StrLen

LEMMA Counts ==
  \A n : /\ Request(n).text # "" /\ Response(n).text # ""
         /\ StrLen(Request(n)) = 1 /\ StrLen(Response(n)) = 1
         /\ Request(n).num = n /\ Response(n).num = n + 1
BY DEF Request, Response, StrLen

LEMMA ClientReceiveCalm ==
  ASSUME TypeOK, One, ~ crossed', Receive("client"), Waiting \/ Answering \/ Told
  PROVE  Answering' /\ UNCHANGED <<answers, reqno>>
<1>1. PICK i \in Arrivals("client") :
        /\ i.packet # Silence
        /\ got' = [got EXCEPT !["client"] = TRUE]
        /\ last' = i.packet.seq
        /\ CASE i.packet.type = "FIN" -> TRUE
             [] i.packet.type = "DATA" ->
                  /\ msg' = [msg EXCEPT !["client"] = Copied("client", i.packet.data)]
                  /\ Exchange("client", i, <<AckOf("client", AckNo("client", i.packet.data))>>)
                  /\ seqrcv' = seqrcv /\ UNCHANGED at
             [] OTHER -> TRUE
        /\ UNCHANGED <<seqno, reqno, answers>>
  BY DEF Receive, AckOf
<1>2. net["client"] # <<>>
  BY <1>1, ArrivalType, SilenceFacts, Typed
<1>3. Answering
  BY <1>2, Typed DEF Waiting, Told
<1>4. i.packet = Data("server")
  <2>1. i.packet = Head(net["client"]) /\ net["client"] = <<Data("server")>>
    BY <1>1, <1>2, <1>3, ArrivalType, Typed DEF Answering, Flying
  <2>2. Data("server") \in Packets
    BY Outs, Typed
  <2> QED BY <2>1, <2>2, ShortSeqs
<1>5. /\ i.packet.type = "DATA" /\ i.packet.seq = seqno["server"]
      /\ i.packet.data = Response(reqno)
  BY <1>3, <1>4, Fields DEF Data, Answering
<1>6. /\ Copied("client", Response(reqno)) = Response(reqno)
      /\ AckNo("client", Response(reqno)) = seqno["server"]
  <2>1. Response(reqno) \in Texts
    BY <1>3, Typed DEF Answering
  <2>2. /\ Copied("client", Response(reqno)) = Response(reqno)
        /\ AckNo("client", Response(reqno)) = seqrcv["client"] + 1
    BY <2>1, Typed, Taken, Counts
  <2>3. seqrcv["client"] + 1 = seqno["server"]
    BY <1>3, Typed DEF Answering
  <2> QED BY <2>2, <2>3
<1>7. /\ msg' = [msg EXCEPT !["client"] = Response(reqno)]
      /\ Exchange("client", i, <<AckOf("client", seqno["server"])>>)
      /\ UNCHANGED <<seqrcv, at>>
  BY <1>1, <1>5, <1>6
<1>8. AckOf("client", seqno["server"]) \in Packets /\ at["server"] # "closed"
  BY <1>3, Outs, Typed DEF Answering, ServerIs
<1>9. net'["client"] = <<>> /\ net'["server"] = <<AckOf("client", seqno["server"])>>
  BY <1>7, <1>8, Typed, Sends
<1>10. got'["client"] /\ msg'["client"] = Response(reqno) /\ msg'["server"] = msg["server"]
  BY <1>1, <1>7, Typed
<1> QED BY <1>1, <1>3, <1>5, <1>7, <1>9, <1>10
        DEF Answering, ServerIs, Flying, AckOf, Data

LEMMA ServerReceiveCalm ==
  ASSUME TypeOK, One, ~ crossed', Receive("server"), Opened \/ Round \/ Closing
  PROVE  ((Round /\ Heard') \/ Closing') /\ UNCHANGED <<answers, reqno>>
<1>1. PICK i \in Arrivals("server") :
        /\ at["server"] = "receive" /\ i.packet # Silence
        /\ got' = [got EXCEPT !["server"] = TRUE]
        /\ CASE i.packet.type = "FIN" ->
                  /\ seqrcv' = [seqrcv EXCEPT !["server"] = i.packet.seq]
                  /\ Exchange("server", i,
                       <<Packet("FINACK", seqno["server"], i.packet.seq, Nothing)>>)
                  /\ at' = [at EXCEPT !["server"] = "finack"]
                  /\ UNCHANGED msg
             [] i.packet.type = "DATA" ->
                  /\ msg' = [msg EXCEPT !["server"] = Copied("server", i.packet.data)]
                  /\ Exchange("server", i, <<AckOf("server", AckNo("server", i.packet.data))>>)
                  /\ seqrcv' = [seqrcv EXCEPT !["server"] = i.packet.seq]
                  /\ UNCHANGED at
             [] OTHER -> TRUE
        /\ UNCHANGED <<seqno, reqno, answers>>
  BY DEF Receive, AckOf, MoveTo
<1>2. net["server"] # <<>>
  BY <1>1, ArrivalType, SilenceFacts, Typed
<1>3. Asking \/ Heard \/ Closing
  BY <1>1, <1>2, Typed DEF Opened, Round, Waiting, Answering, Told, ServerIs
<1>4. ASSUME NEW q \in Packets, Flying("server", q)
      PROVE  i.packet = q
  <2>1. i.packet = Head(net["server"]) /\ net["server"] = <<q>>
    BY <1>1, <1>2, <1>4, ArrivalType, Typed DEF Flying
  <2> QED BY <2>1, ShortSeqs
<1>5. CASE Asking \/ Heard
  <2>1. i.packet = Data("client")
    BY <1>4, <1>5, Outs, Typed DEF Asking, Heard
  <2>2. /\ i.packet.type = "DATA" /\ i.packet.seq = seqno["client"]
        /\ i.packet.data = Request(reqno)
    BY <1>5, <2>1, Fields DEF Data, Asking, Heard
  <2>3. /\ Copied("server", Request(reqno)) = Request(reqno)
        /\ AckNo("server", Request(reqno)) = seqrcv["server"] + 1
    <3>1. Request(reqno) \in Texts
      BY <1>5, Typed DEF Asking, Heard
    <3> QED BY <3>1, Typed, Taken, Counts
  <2>4. /\ msg' = [msg EXCEPT !["server"] = Request(reqno)]
        /\ Exchange("server", i, <<AckOf("server", seqrcv["server"] + 1)>>)
        /\ seqrcv' = [seqrcv EXCEPT !["server"] = seqno["client"]]
        /\ UNCHANGED at
    BY <1>1, <2>2, <2>3
  <2>5. AckOf("server", seqrcv["server"] + 1) \in Packets /\ at["client"] = "send"
    BY <1>5, Outs, Typed DEF Asking, Heard
  <2>6. /\ net'["server"] = <<>>
        /\ net'["client"] = <<AckOf("server", seqrcv["server"] + 1)>>
    BY <2>4, <2>5, Typed, Sends
  <2>7. seqrcv["server"] + 1 \in {seqno["client"], seqno["client"] + 1}
    BY <1>5, Typed DEF Asking, Heard
  <2>8. /\ msg'["server"] = Request(reqno) /\ msg'["client"] = Request(reqno)
        /\ seqrcv'["server"] = seqno["client"] /\ seqrcv'["client"] = seqno["server"]
    BY <1>5, <2>4, Typed DEF Asking, Heard
  <2>9. Heard'
    BY <1>1, <2>4, <2>5, <2>6, <2>7, <2>8 DEF Heard, ServerIs, Flying, AckOf, Data
  <2> QED BY <1>1, <1>5, <2>9 DEF Round
<1>6. CASE Closing
  <2>1. i.packet = Fin
    BY <1>4, <1>6, Outs DEF Closing
  <2>2. i.packet.type = "FIN" /\ i.packet.seq = seqno["client"]
    BY <2>1, Fields DEF Fin
  <2>3. /\ Exchange("server", i, <<Packet("FINACK", seqno["server"], seqno["client"], Nothing)>>)
        /\ seqrcv' = [seqrcv EXCEPT !["server"] = seqno["client"]]
        /\ at' = [at EXCEPT !["server"] = "finack"]
    BY <1>1, <2>2
  <2>4. /\ Packet("FINACK", seqno["server"], seqno["client"], Nothing) \in Packets
        /\ at["client"] = "fin"
    BY <1>6, Outs, Typed DEF Closing
  <2>5. /\ net'["server"] = <<>>
        /\ net'["client"] = <<Packet("FINACK", seqno["server"], seqno["client"], Nothing)>>
    BY <2>3, <2>4, Typed, Sends
  <2>6. /\ at'["server"] = "finack" /\ at'["client"] = "fin"
        /\ seqrcv'["server"] = seqno["client"]
    BY <2>3, <2>4, Typed
  <2>7. Closing'
    BY <1>1, <2>5, <2>6 DEF Closing, Flying
  <2> QED BY <1>1, <2>7
<1> QED BY <1>3, <1>5, <1>6

\* A side that has sent a message acknowledging nothing, before the other waits
\* for anything else: neither gets its acknowledgement.
LEMMA BothSend ==
  ASSUME TypeOK', NEW s \in Sides, NEW p, p.ack = 0,
         net'[s] = <<>>, net'[Other(s)] = <<p>>,
         at'["client"] \in {"send", "fin"}, at'["server"] \in {"send", "accept", "hung"}
  PROVE  Lost'
<1>1. Range(net'[s]) = {} /\ Range(net'[Other(s)]) = {p}
  BY SingletonRange, Zenon
<1>2. \A x \in Sides : seqno'[x] # 0 /\ x \in {s, Other(s)}
  BY SidesFacts DEF TypeOK
<1>3. \A x \in Sides : \A q \in Range(net'[x]) : q.ack # seqno'[x]
  BY <1>1, <1>2
<1> QED BY <1>3 DEF Lost

\* The client has printed the response to its last request and goes on.
LEMMA AnsweredCalm ==
  ASSUME TypeOK, TypeOK', One, ~ crossed', Answered, Answering \/ Told,
         Len(answers) + 1 = reqno, Right
  PROVE  /\ Right'
         /\ Lost' \/ Closing' \/ (Asking' /\ Len(answers') + 1 = reqno')
<1>1. PICK i \in Arrivals("client") :
        /\ i.packet = Silence /\ got["client"]
        /\ seqrcv' = [seqrcv EXCEPT !["client"] = last]
        /\ answers' = Append(answers, msg["client"])
        /\ \/ /\ reqno' = reqno + 1
              /\ msg' = [msg EXCEPT !["client"] = Request(reqno + 1)]
              /\ seqno' = [seqno EXCEPT !["client"] = @ + StrLen(Request(reqno + 1))]
              /\ Exchange("client", i, <<Data("client")'>>)
              /\ at' = [at EXCEPT !["client"] = "send"]
           \/ /\ Exchange("client", i, <<Fin>>)
              /\ at' = [at EXCEPT !["client"] = "fin"]
              /\ UNCHANGED <<reqno, msg, seqno>>
        /\ UNCHANGED got
  BY DEF Answered, Over, BeginSend, MoveTo
<1>2. /\ msg["client"] = Response(reqno) /\ last = seqno["server"]
      /\ seqrcv["server"] = seqno["client"]
      /\ ServerIs("send") \/ (ServerIs("receive") /\ ~ got["server"] /\ Told)
  BY <1>1 DEF Answering, Told
<1>3. Right'
  <2>1. answers \in Seq(Texts) /\ msg["client"] \in Texts
    BY Typed DEF TypeOK
  <2>2. /\ Len(answers') = Len(answers) + 1 /\ DOMAIN answers' = 1 .. Len(answers) + 1
        /\ \A n \in 1 .. Len(answers) : answers'[n] = answers[n]
        /\ answers'[Len(answers) + 1] = msg["client"]
        /\ DOMAIN answers = 1 .. Len(answers) /\ Len(answers) \in Nat
    BY <1>1, <2>1
  <2>3. answers'[reqno] = Response(reqno)
    BY <1>2, <2>2
  <2>4. ASSUME NEW n \in DOMAIN answers' PROVE answers'[n] = Response(n)
    <3>1. CASE n = reqno
      BY <2>3, <3>1
    <3>2. CASE n # reqno
      <4>1. n \in DOMAIN answers /\ answers'[n] = answers[n]
        BY <2>2, <3>2, Typed
      <4> QED BY <4>1 DEF Right, Response
    <3> QED BY <3>1, <3>2
  <2> QED BY <2>4 DEF Right, Response
<1>4. Len(answers') = reqno
  <2>1. answers \in Seq(Texts) /\ msg["client"] \in Texts
    BY Typed DEF TypeOK
  <2> QED BY <1>1, <2>1
<1>5. at["server"] # "closed"
  BY <1>2 DEF ServerIs
<1>6. CASE /\ reqno' = reqno + 1
           /\ msg' = [msg EXCEPT !["client"] = Request(reqno + 1)]
           /\ seqno' = [seqno EXCEPT !["client"] = @ + StrLen(Request(reqno + 1))]
           /\ Exchange("client", i, <<Data("client")'>>)
           /\ at' = [at EXCEPT !["client"] = "send"]
  <2>1. Data("client")' \in Packets /\ Data("client")'.ack = 0
    BY Typed, SentType
  <2>2. net'["client"] = <<>> /\ net'["server"] = <<Data("client")'>>
    BY <1>5, <1>6, <2>1, Typed, Sends
  <2>3. /\ at'["client"] = "send" /\ at'["server"] = at["server"]
        /\ msg'["client"] = Request(reqno')
        /\ seqno'["client"] = seqno["client"] + 1 /\ seqno'["server"] = seqno["server"]
        /\ seqrcv'["client"] = last /\ seqrcv'["server"] = seqrcv["server"]
    BY <1>1, <1>6, Typed, Counts
  <2>4. CASE ServerIs("send")
    <3>1. Lost'
      BY <2>1, <2>2, <2>3, <2>4, Typed, BothSend DEF ServerIs
    <3> QED BY <1>3, <3>1
  <2>5. CASE ServerIs("receive") /\ ~ got["server"]
    <3>1. Asking'
      BY <1>1, <1>2, <2>2, <2>3, <2>5, Typed DEF Asking, ServerIs, Flying
    <3>2. Len(answers') + 1 = reqno'
      BY <1>4, <1>6
    <3> QED BY <1>3, <3>1, <3>2
  <2> QED BY <1>2, <1>3, <2>4, <2>5
<1>7. CASE /\ Exchange("client", i, <<Fin>>)
           /\ at' = [at EXCEPT !["client"] = "fin"]
           /\ UNCHANGED <<reqno, msg, seqno>>
  <2>1. Fin \in Packets /\ Fin.ack = 0
    BY Outs, Fields DEF Fin
  <2>2. net'["client"] = <<>> /\ net'["server"] = <<Fin>>
    BY <1>5, <1>7, <2>1, Typed, Sends
  <2>3. at'["client"] = "fin" /\ at'["server"] = at["server"]
    BY <1>7, Typed
  <2>4. CASE ServerIs("send")
    <3>1. Lost'
      BY <2>1, <2>2, <2>3, <2>4, Typed, BothSend DEF ServerIs
    <3> QED BY <1>3, <3>1
  <2>5. CASE ServerIs("receive") /\ ~ got["server"]
    <3>1. Closing'
      BY <1>1, <1>7, <2>2, <2>3, <2>5 DEF Closing, ServerIs, Flying, Fin
    <3> QED BY <1>3, <3>1
  <2> QED BY <1>2, <2>4, <2>5
<1> QED BY <1>1, <1>6, <1>7

LEMMA CloseCalm ==
  ASSUME TypeOK, One, ~ crossed', Close, Closing
  PROVE  (Closing' \/ Finished') /\ UNCHANGED answers
<1>1. PICK i \in Arrivals("client") :
        /\ IF Acked("client", i)
           THEN at' = [at EXCEPT !["client"] = "finextra"]
           ELSE /\ Exchange("client", i, <<Fin>>)
                /\ UNCHANGED <<at, seqrcv>>
        /\ UNCHANGED <<seqno, got, answers>>
  BY DEF Close, MoveTo
<1>2. CASE Acked("client", i)
  BY <1>1, <1>2, Typed DEF Finished
<1>3. CASE ~ Acked("client", i)
  <2>1. Fin \in Packets /\ at["server"] # "closed"
    BY Outs DEF Closing
  <2>2. net'["client"] = <<>> /\ net'["server"] = <<Fin>>
    BY <1>1, <1>3, <2>1, Typed, Sends
  <2> QED BY <1>1, <1>3, <2>2 DEF Closing, Flying, Fin
<1> QED BY <1>2, <1>3

LEMMA RespondCalm ==
  ASSUME TypeOK, TypeOK', One, ~ crossed', Respond, Opened \/ Round \/ Closing
  PROVE  Round /\ (Lost' \/ Answering') /\ UNCHANGED <<answers, reqno>>
<1> DEFINE reply == [text |-> "ECHO RES", num |-> msg["server"].num + 1]
<1>1. PICK i \in Arrivals("server") :
        /\ at["server"] = "receive" /\ i.packet = Silence /\ got["server"]
        /\ msg' = [msg EXCEPT !["server"] = reply]
        /\ seqno' = [seqno EXCEPT !["server"] = @ + StrLen(reply)]
        /\ Exchange("server", i, <<Data("server")'>>)
        /\ at' = [at EXCEPT !["server"] = "send"]
        /\ UNCHANGED <<seqrcv, got, reqno, answers>>
  BY DEF Respond, Over, BeginSend, MoveTo
<1>2. Heard \/ Waiting
  BY <1>1 DEF Opened, Round, Closing, Asking, Answering, Told, ServerIs
<1>3. Data("server")' \in Packets /\ Data("server")'.ack = 0
  BY Typed, SentType
<1>4. at["client"] \in {"send", "receive"}
  BY <1>2 DEF Heard, Waiting
<1>5. net'["server"] = <<>> /\ net'["client"] = <<Data("server")'>>
  BY <1>1, <1>3, <1>4, Typed, Sends
<1>6. StrLen(reply) = 1
  BY DEF StrLen
<1>7. /\ at'["server"] = "send" /\ at'["client"] = at["client"]
      /\ msg'["server"] = reply /\ msg'["client"] = msg["client"]
      /\ seqno'["server"] = seqno["server"] + 1 /\ seqno'["client"] = seqno["client"]
  BY <1>1, <1>6, Typed
<1>8. CASE Heard
  <2>1. at'["client"] = "send"
    BY <1>7, <1>8 DEF Heard
  <2>2. Lost'
    BY <1>3, <1>5, <1>7, <2>1, Typed, BothSend
  <2> QED BY <1>1, <1>8, <2>2 DEF Round
<1>9. CASE Waiting
  <2>1. reply = Response(reqno)
    BY <1>9, Counts DEF Waiting, Response
  <2>2. /\ at["client"] = "receive" /\ ~ got["client"]
        /\ seqrcv["client"] = seqno["server"] /\ seqrcv["server"] = seqno["client"]
    BY <1>9 DEF Waiting
  <2>3. seqrcv'["client"] = seqno'["server"] - 1 /\ seqrcv'["server"] = seqno'["client"]
    <3>1. seqrcv' = seqrcv /\ seqno["server"] \in Nat
      BY <1>1, Typed
    <3>2. seqno'["server"] - 1 = seqno["server"]
      <4>1. \A n \in Nat : (n + 1) - 1 = n
        OBVIOUS
      <4> QED BY <1>7, <3>1, <4>1, Zenon
    <3> QED BY <1>7, <2>2, <3>1, <3>2
  <2>4. msg'["server"] = Response(reqno')
    BY <1>1, <1>7, <2>1
  <2>5. Answering'
    BY <1>1, <1>5, <1>7, <2>2, <2>3, <2>4 DEF Answering, ServerIs, Flying
  <2> QED BY <1>1, <1>9, <2>5 DEF Round
<1> QED BY <1>2, <1>8, <1>9

LEMMA ServerSendCalm ==
  ASSUME TypeOK, One, ~ crossed', Send("server"), Opened \/ Round \/ Closing
  PROVE  Round /\ (Answering \/ Told)' /\ UNCHANGED <<answers, reqno>>
<1>1. PICK i \in Arrivals("server") :
        /\ at["server"] = "send"
        /\ IF Acked("server", i)
           THEN /\ Exchange("server", i, <<>>)
                /\ at' = [at EXCEPT !["server"] = "receive"]
                /\ got' = [got EXCEPT !["server"] = FALSE]
           ELSE /\ Exchange("server", i, <<Data("server")>>)
                /\ UNCHANGED <<at, got>>
        /\ UNCHANGED <<seqno, seqrcv, msg, last, reqno, answers>>
  BY DEF Send, MoveTo
<1>2. Answering
  BY <1>1 DEF Opened, Round, Closing, Asking, Heard, Waiting, Told, ServerIs
<1>3. CASE Acked("server", i)
  <2>1. i.packet # Silence
    BY <1>3, Typed, SilenceFacts DEF Acked
  <2>2. net["server"] = <<i.packet>> /\ \A s \in Sides : net'[s] = <<>>
    BY <1>1, <1>3, <2>1, Typed, SidesFacts, Hears
  <2>3. got["client"]
    BY <1>2, <2>2, ShortSeqs DEF Answering
  <2>4. at'["server"] = "receive" /\ at'["client"] = at["client"]
        /\ ~ got'["server"] /\ got'["client"]
    BY <1>1, <1>3, <2>3, Typed
  <2>5. Told'
    BY <1>1, <1>2, <2>2, <2>3, <2>4 DEF Answering, Told, ServerIs
  <2> QED BY <1>1, <1>2, <2>5 DEF Round
<1>4. CASE ~ Acked("server", i)
  <2>1. Data("server") \in Packets /\ at["client"] # "closed"
    BY <1>2, Outs, Typed DEF Answering
  <2>2. net'["server"] = <<>> /\ net'["client"] = <<Data("server")>>
    BY <1>1, <1>4, <2>1, Typed, Sends
  <2>3. Answering'
    BY <1>1, <1>2, <1>4, <2>2 DEF Answering, ServerIs, Flying, Data
  <2> QED BY <1>1, <1>2, <2>3 DEF Round
<1> QED BY <1>3, <1>4

LEMMA FinAckCalm ==
  ASSUME TypeOK, One, ~ crossed', FinAck, Closing
  PROVE  Closing' /\ UNCHANGED answers
<1>1. PICK i \in Arrivals("server") :
        /\ at["server"] = "finack"
        /\ i.packet.type # "FIN" /\ Acked("server", i)
             => Exchange("server", [i EXCEPT !.rest = <<>>], <<>>)
        /\ ~ (i.packet.type # "FIN" /\ Acked("server", i))
             => /\ Exchange("server", i,
                     <<Packet("FINACK", seqno["server"], seqrcv["server"], Nothing)>>)
                /\ UNCHANGED at
        /\ UNCHANGED <<seqno, seqrcv, got, answers>>
  BY DEF FinAck
<1>2. ~ (i.packet.type # "FIN" /\ Acked("server", i))
  <2> SUFFICES ASSUME i.packet.type # "FIN", Acked("server", i) PROVE FALSE
    OBVIOUS
  <2>1. i.packet # Silence
    BY Typed, SilenceFacts DEF Acked
  <2>2. <<>> = <<>> \/ \E p \in Packets : <<>> = <<p>>
    OBVIOUS
  <2>3. net["server"] = <<i.packet>>
    BY <1>1, <2>1, <2>2, Typed, Channel
  <2>4. i.packet = Fin
    BY <2>3, SamePacket DEF Closing
  <2> QED BY <2>4, Fields DEF Fin
<1>3. /\ Packet("FINACK", seqno["server"], seqrcv["server"], Nothing) \in Packets
      /\ at["client"] # "closed" /\ seqrcv["server"] = seqno["client"]
  BY <1>1, Outs, Typed DEF Closing
<1>4. /\ net'["server"] = <<>>
      /\ net'["client"] = <<Packet("FINACK", seqno["server"], seqrcv["server"], Nothing)>>
  BY <1>1, <1>2, <1>3, Typed, Sends
<1> QED BY <1>1, <1>2, <1>3, <1>4 DEF Closing, Flying, Fin

\* A loop in eval_checkSum.
LEMMA HangCalm ==
  ASSUME TypeOK, NEW s \in Sides, Hang(s), Opening \/ Opened \/ Round \/ Closing
  PROVE  /\ UNCHANGED <<answers, reqno>>
         /\ \/ Finished' \/ Opening' \/ Opened' \/ Closing'
            \/ Round /\ Round'
<1>1. /\ at[s] \in {"send", "receive"} /\ at' = [at EXCEPT ![s] = "hung"]
      /\ UNCHANGED <<seqno, seqrcv, msg, got, last, net, reqno, answers>>
  BY DEF Hang, MoveTo
<1>2. CASE s = "client"
  BY <1>1, <1>2, Typed DEF Finished
<1>3. CASE s = "server"
  <2>1. at'["server"] = "hung" /\ at'["client"] = at["client"]
    BY <1>1, <1>3, Typed
  <2>2. CASE Opening
    BY <1>1, <1>3, <2>2 DEF Opening
  <2>3. CASE Opened
    BY <1>1, <1>3, <2>1, <2>3 DEF Opened, ServerIs
  <2>4. CASE Closing
    BY <1>1, <2>1, <2>4 DEF Closing, Flying, Fin
  <2>5. CASE Round
    <3>1. UNCHANGED <<Data("client"), Data("server"), AckOf("client", seqno["server"])>>
      BY <1>1 DEF Data, AckOf
    <3>2. CASE Asking
      BY <1>1, <2>1, <3>1, <3>2 DEF Round, Asking, ServerIs, Flying
    <3>3. CASE Heard
      BY <1>1, <2>1, <3>1, <3>3 DEF Round, Heard, ServerIs, Flying, AckOf
    <3>4. CASE Waiting
      BY <1>1, <2>1, <3>4 DEF Round, Waiting, ServerIs
    <3>5. CASE Answering
      BY <1>1, <2>1, <3>1, <3>5 DEF Round, Answering, ServerIs, Flying
    <3>6. CASE Told
      BY <1>1, <2>1, <3>6 DEF Round, Told, ServerIs
    <3> QED BY <1>1, <2>5, <3>2, <3>3, <3>4, <3>5, <3>6 DEF Round
  <2> QED BY <1>1, <2>2, <2>3, <2>4, <2>5
<1> QED BY <1>2, <1>3, SidesFacts

\* The network loses the packet that is under way.
LEMMA LoseCalm ==
  ASSUME TypeOK, One, Lose
  PROVE  /\ One' /\ UNCHANGED <<answers, reqno>>
         /\ Opening => Opening'
         /\ Opened => Opened'
         /\ Round => Round'
         /\ Closing => Closing'
<1>1. PICK s \in Sides : \E n \in DOMAIN net[s] : net' = [net EXCEPT ![s] = RemoveAt(@, n)]
  BY DEF Lose
<1>2. PICK n \in DOMAIN net[s] : net' = [net EXCEPT ![s] = RemoveAt(@, n)]
  BY <1>1
<1>3. UNCHANGED <<at, seqno, seqrcv, msg, got, last, reqno, answers>>
  BY DEF Lose
<1>4. net[s] \in Seq(Packets) /\ net \in [Sides -> Seq(Packets)]
  BY DEF TypeOK
<1>5. RemoveAt(net[s], n) = <<>>
  <2>1. net[s] # <<>> /\ Len(net[s]) <= 1
    <3>1. DOMAIN <<>> = {}
      BY ShortSeqs, Zenon
    <3> QED BY <3>1 DEF One
  <2>2. Len(net[s]) = 1
    <3>1. net[s] = <<Head(net[s])>> /\ Head(net[s]) \in Packets
      BY <1>4, <2>1, ShortSeqs
    <3> QED BY <3>1, ShortSeqs
  <2>3. RemoveAt(net[s], n) \in Seq(Packets) /\ Len(RemoveAt(net[s], n)) = 1 - 1
    BY <1>4, <2>2, RemoveFacts
  <2> QED BY <2>3, EmptySeq
<1>6. \A x \in Sides : net'[x] = net[x] \/ net'[x] = <<>>
  BY <1>2, <1>4, <1>5
<1>7. One'
  <2>1. Len(<<>>) <= 1
    <3>1. Len(<<>>) = 0
      BY ShortSeqs, Zenon
    <3> QED BY <3>1
  <2>2. \A x \in Sides : Len(net'[x]) <= 1
    BY <1>6, <2>1, Zenon DEF One
  <2> QED BY <1>6, <2>2 DEF One
<1>8. UNCHANGED <<Data("client"), Data("server"), Fin>>
      /\ \A x \in Sides : \A k : UNCHANGED <<AckOf(x, k), SynAck(k)>>
  BY <1>3 DEF Data, Fin, AckOf, SynAck
<1>9. /\ net'["client"] = net["client"] \/ net'["client"] = <<>>
      /\ net'["server"] = net["server"] \/ net'["server"] = <<>>
  BY <1>6, SidesFacts
<1>10. Opening => Opening'
  BY <1>3, <1>8, <1>9 DEF Opening, Flying, SynAck
<1>11. Opened => Opened'
  BY <1>3, <1>6, <1>8, <1>9 DEF Opened, ServerIs, Flying, SynAck
<1>12. Closing => Closing'
  BY <1>3, <1>8, <1>9 DEF Closing, Flying
<1>13. Round => Round'
  <2>1. Asking => Asking'
    BY <1>3, <1>8, <1>9 DEF Asking, ServerIs, Flying
  <2>2. Heard => Heard'
    BY <1>3, <1>8, <1>9 DEF Heard, ServerIs, Flying, AckOf
  <2>3. Waiting => Waiting'
    BY <1>3, <1>6 DEF Waiting, ServerIs
  <2>4. Answering => Answering'
    BY <1>3, <1>8, <1>9 DEF Answering, ServerIs, Flying, AckOf
  <2>5. Told => Told'
    BY <1>3, <1>6 DEF Told, ServerIs
  <2> QED BY <2>1, <2>2, <2>3, <2>4, <2>5 DEF Round
<1> QED BY <1>3, <1>7, <1>10, <1>11, <1>12, <1>13

\* What has crossed has crossed.
LEMMA CrossedStays == ASSUME [Next]_vars, crossed PROVE crossed'
<1>1. ASSUME NEW s, NEW i, NEW out, Exchange(s, i, out) PROVE crossed'
  BY <1>1 DEF Exchange
<1>2. CASE Client
  BY <1>1, <1>2 DEF Client, Connect, Connected, Send, Receive, Answered, Close, Closed, BeginSend
<1>3. CASE Server
  BY <1>1, <1>3 DEF Server, Listen, Accept, Receive, Respond, Send, FinAck, BeginSend
<1> QED BY <1>2, <1>3 DEF Next, Lose, Hang, vars

\* Only Answered prints an answer, and it is a step of a client that receives.
LEMMA AnswersStay ==
  ASSUME [Next]_vars, ~ Answered
  PROVE  UNCHANGED answers
BY DEF Next, Client, Server, Connect, Connected, Send, Receive, Close, Closed, Listen,
       Accept, Respond, FinAck, Lose, Hang, vars

LEMMA FinishedStays ==
  ASSUME TypeOK, Finished, [Next]_vars
  PROVE  Finished' /\ UNCHANGED answers
<1>1. ~ Answered
  BY DEF Finished, Answered
<1>2. CASE Client
  <2>1. at' = [at EXCEPT !["client"] = "closed"]
    BY <1>2 DEF Client, Connect, Connected, Send, Receive, Answered, Close, Closed,
                MoveTo, Finished
  <2> QED BY <1>1, <2>1, Typed, AnswersStay DEF Finished
<1>3. CASE Server
  <2>1. at' = at \/ \E x : at' = [at EXCEPT !["server"] = x]
    BY <1>3 DEF Server, Listen, Accept, Receive, Respond, Send, FinAck, BeginSend, MoveTo
  <2>2. at'["client"] = at["client"]
    BY <2>1, Typed
  <2> QED BY <1>1, <2>2, AnswersStay DEF Finished
<1>4. CASE \E s \in Sides : Hang(s)
  <2>1. PICK s \in Sides : at' = [at EXCEPT ![s] = "hung"]
    BY <1>4 DEF Hang, MoveTo
  <2> QED BY <1>1, <2>1, Typed, AnswersStay DEF Finished
<1>5. CASE Lose \/ UNCHANGED vars
  BY <1>1, <1>5, AnswersStay DEF Lose, vars, Finished
<1> QED BY <1>2, <1>3, <1>4, <1>5 DEF Next

\* At most one packet is under way: each side sends only when it has had one or
\* when there is none.
LEMMA OneStays ==
  ASSUME TypeOK, TypeOK', One, ~ crossed', [Next]_vars
  PROVE  One'
<1>1. ASSUME NEW s \in Sides, NEW i \in Arrivals(s), NEW p \in Packets,
             Exchange(s, i, <<p>>)
      PROVE  One'
  BY <1>1, Channel
<1>2. ASSUME NEW s \in Sides, NEW i \in Arrivals(s), Exchange(s, i, <<>>)
      PROVE  One'
  BY <1>2, Channel
<1>3. ASSUME NEW s \in Sides, NEW i \in Arrivals(s),
             Exchange(s, [i EXCEPT !.rest = <<>>], <<>>)
      PROVE  One'
  BY <1>3, Channel
<1>4. ASSUME NEW s \in Sides, Send(s) PROVE One'
  <2>1. PICK i \in Arrivals(s) : Exchange(s, i, <<>>) \/ Exchange(s, i, <<Data(s)>>)
    BY <1>4 DEF Send
  <2>2. Data(s) \in Packets
    BY Outs
  <2> QED BY <1>1, <1>2, <2>1, <2>2
<1>5. ASSUME NEW s \in Sides, Receive(s) PROVE One'
  <2>1. PICK i \in Arrivals(s) :
          \/ Exchange(s, i, <<Packet("FINACK", seqno[s], i.packet.seq, Nothing)>>)
          \/ Exchange(s, i, <<AckOf(s, AckNo(s, i.packet.data))>>)
          \/ Exchange(s, i, <<>>)
    BY <1>5 DEF Receive, AckOf
  <2>2. i.packet.seq \in Nat /\ AckNo(s, i.packet.data) \in Nat
    BY ArrivalType, CopiedType
  <2>3. /\ Packet("FINACK", seqno[s], i.packet.seq, Nothing) \in Packets
        /\ AckOf(s, AckNo(s, i.packet.data)) \in Packets
    BY <2>2, Outs
  <2> QED BY <1>1, <1>2, <2>1, <2>3
<1>6. ASSUME NEW s \in Sides, NEW i \in Arrivals(s), NEW d, BeginSend(s, i, d)
      PROVE  One'
  <2>1. Exchange(s, i, <<Data(s)'>>) /\ Data(s)' \in Packets
    BY <1>6, SentType DEF BeginSend
  <2> QED BY <1>1, <2>1
<1>7. /\ Fin \in Packets /\ Packet("SYN", seqno["client"], 0, Nothing) \in Packets
      /\ \A s \in Sides : \A i \in Arrivals(s) : Packet("ACK", 0, i.packet.seq, Nothing) \in Packets
      /\ \A n \in Nat : SynAck(n) \in Packets
      /\ Packet("FINACK", seqno["server"], seqrcv["server"], Nothing) \in Packets
  BY Typed, ArrivalType, Outs
<1>8. CASE Client
  <2>1. CASE Connect
    <3>1. PICK i \in Arrivals("client") :
            \/ Exchange("client", i, <<Packet("ACK", 0, i.packet.seq, Nothing)>>)
            \/ Exchange("client", i, <<Packet("SYN", seqno["client"], 0, Nothing)>>)
      BY <2>1 DEF Connect
    <3> QED BY <1>1, <1>7, <3>1, Typed
  <2>2. CASE Connected
    BY <1>6, <2>2, Typed DEF Connected
  <2>3. CASE Answered
    <3>1. PICK i \in Arrivals("client") :
            BeginSend("client", i, Request(reqno + 1)) \/ Exchange("client", i, <<Fin>>)
      BY <2>3 DEF Answered
    <3> QED BY <1>1, <1>6, <1>7, <3>1, Typed
  <2>4. CASE Close
    <3>1. PICK i \in Arrivals("client") :
            \/ Exchange("client", i, <<Packet("ACK", 0, i.packet.seq, Nothing)>>)
            \/ Exchange("client", i, <<Fin>>)
      BY <2>4 DEF Close
    <3> QED BY <1>1, <1>7, <3>1, Typed
  <2>5. CASE Closed
    BY <1>3, <2>5, Typed DEF Closed
  <2> QED BY <1>4, <1>5, <1>8, <2>1, <2>2, <2>3, <2>4, <2>5, Typed DEF Client
<1>9. CASE Server
  <2>1. CASE Listen
    <3>1. PICK i \in Arrivals("server") : Exchange("server", i, <<SynAck(i.packet.seq)>>)
      BY <2>1 DEF Listen
    <3>2. SynAck(i.packet.seq) \in Packets
      BY <1>7, ArrivalType, Typed
    <3> QED BY <1>1, <3>1, <3>2, Typed
  <2>2. CASE Accept
    <3>1. PICK i \in Arrivals("server") :
            Exchange("server", i, <<>>) \/ Exchange("server", i, <<SynAck(seqrcv'["server"])>>)
      BY <2>2 DEF Accept
    <3>2. SynAck(seqrcv'["server"]) \in Packets
      <4>1. seqrcv'["server"] \in Nat
        BY SidesFacts DEF TypeOK
      <4> QED BY <1>7, <4>1
    <3> QED BY <1>1, <1>2, <3>1, <3>2, Typed
  <2>3. CASE Respond
    BY <1>6, <2>3, Typed DEF Respond
  <2>4. CASE FinAck
    <3>1. PICK i \in Arrivals("server") :
            \/ Exchange("server", [i EXCEPT !.rest = <<>>], <<>>)
            \/ Exchange("server", i,
                 <<Packet("FINACK", seqno["server"], seqrcv["server"], Nothing)>>)
      BY <2>4 DEF FinAck
    <3> QED BY <1>1, <1>3, <1>7, <3>1, Typed
  <2> QED BY <1>4, <1>5, <1>9, <2>1, <2>2, <2>3, <2>4, Typed DEF Server
<1>10. CASE Lose
  BY <1>10, LoseCalm
<1>11. CASE UNCHANGED vars \/ \E s \in Sides : Hang(s)
  BY <1>11 DEF Hang, vars, One
<1> QED BY <1>8, <1>9, <1>10, <1>11 DEF Next

\* From each phase to the next, or on in the same.
LEMMA PhaseStays ==
  ASSUME TypeOK, TypeOK', Syns, One, Phase, Right, ~ crossed', [Next]_vars
  PROVE  Phase' /\ Right'
<1> DEFINE Even == Len(answers) + 1 = reqno
<1>1. ASSUME UNCHANGED answers PROVE Right'
  BY <1>1 DEF Right
<1>2. CASE Finished
  BY <1>1, <1>2, FinishedStays DEF Phase
<1>3. CASE Lost
  <2>1. UNCHANGED answers
    BY <1>3, AnswersStay DEF Lost, Answered
  <2> QED BY <1>1, <1>3, <2>1, LostStays DEF Phase, Finished
<1>4. CASE Opening \/ Opened \/ Closing \/ (Round /\ Even)
  <2>1. Round => at["client"] \in {"send", "receive"}
    BY DEF Round, Asking, Heard, Waiting, Answering, Told
  <2>2. CASE Connect
    <3>1. Opening /\ UNCHANGED answers
      BY <1>4, <2>1, <2>2 DEF Connect, Opened, Closing
    <3> QED BY <1>1, <2>2, <3>1, ConnectCalm DEF Phase
  <2>3. CASE Connected
    <3>1. Opened /\ UNCHANGED answers
      BY <1>4, <2>1, <2>3 DEF Connected, Opening, Closing
    <3> QED BY <1>1, <2>3, <3>1, ConnectedCalm DEF Phase, Round
  <2>4. CASE Send("client")
    <3>1. (Asking \/ Heard) /\ Even
      BY <1>4, <2>4 DEF Send, Opening, Opened, Closing, Round, Waiting, Answering, Told
    <3> QED BY <1>1, <2>4, <3>1, ClientSendCalm DEF Phase, Round
  <2>5. CASE Receive("client")
    <3>1. (Waiting \/ Answering \/ Told) /\ Even
      BY <1>4, <2>5 DEF Receive, Opening, Opened, Closing, Round, Asking, Heard
    <3> QED BY <1>1, <2>5, <3>1, ClientReceiveCalm DEF Phase, Round
  <2>6. CASE Answered
    <3>1. (Answering \/ Told) /\ Even
      BY <1>4, <2>6 DEF Answered, Over, Opening, Opened, Closing, Round, Asking, Heard, Waiting
    <3> QED BY <2>6, <3>1, AnsweredCalm DEF Phase, Round
  <2>7. CASE Close
    <3>1. Closing
      BY <1>4, <2>1, <2>7 DEF Close, Opening, Opened
    <3> QED BY <1>1, <2>7, <3>1, CloseCalm DEF Phase
  <2>8. CASE Listen
    <3>1. Opening /\ UNCHANGED answers
      BY <1>4, <2>8 DEF Listen, Opened, Closing, Round, Asking, Heard, Waiting, Answering,
                        Told, ServerIs
    <3> QED BY <1>1, <2>8, <3>1, ListenCalm DEF Phase
  <2>9. CASE Accept
    <3>1. (Opening \/ Opened) /\ UNCHANGED answers
      BY <1>4, <2>9 DEF Accept, Closing, Round, Asking, Heard, Waiting, Answering,
                        Told, ServerIs
    <3> QED BY <1>1, <2>9, <3>1, AcceptCalm DEF Phase
  <2>10. CASE Receive("server")
    <3>1. Opened \/ (Round /\ Even) \/ Closing
      BY <1>4, <2>10 DEF Receive, Opening
    <3>2. ((Round /\ Heard') \/ Closing') /\ UNCHANGED <<answers, reqno>>
      BY <2>10, <3>1, ServerReceiveCalm
    <3>3. Round => Even
      BY <1>4, <2>1 DEF Opening, Opened, Closing
    <3> QED BY <1>1, <3>2, <3>3 DEF Phase, Round
  <2>11. CASE Respond
    <3>1. Opened \/ Round \/ Closing
      BY <1>4, <2>11 DEF Respond, Opening
    <3>2. Round /\ (Lost' \/ Answering') /\ UNCHANGED <<answers, reqno>>
      BY <2>11, <3>1, RespondCalm
    <3>3. Even
      BY <1>4, <3>2, <2>1 DEF Opening, Opened, Closing
    <3> QED BY <1>1, <3>2, <3>3 DEF Phase, Round
  <2>12. CASE Send("server")
    <3>1. Opened \/ Round \/ Closing
      BY <1>4, <2>12 DEF Send, Opening
    <3>2. Round /\ (Answering \/ Told)' /\ UNCHANGED <<answers, reqno>>
      BY <2>12, <3>1, ServerSendCalm
    <3>3. Even
      BY <1>4, <3>2, <2>1 DEF Opening, Opened, Closing
    <3> QED BY <1>1, <3>2, <3>3 DEF Phase, Round
  <2>13. CASE FinAck
    <3>1. Closing
      BY <1>4, <2>13 DEF FinAck, Opening, Opened, Round, Asking, Heard, Waiting, Answering,
                         Told, ServerIs
    <3> QED BY <1>1, <2>13, <3>1, FinAckCalm DEF Phase
  <2>14. CASE Lose
    BY <1>1, <1>4, <2>14, LoseCalm DEF Phase
  <2>15. CASE \E s \in Sides : Hang(s)
    <3>1. \/ Finished' \/ Opening' \/ Opened' \/ Closing'
          \/ Round /\ Round'
      BY <1>4, <2>15, HangCalm
    <3>2. UNCHANGED <<answers, reqno>>
      BY <2>15 DEF Hang
    <3>3. Round => Even
      BY <1>4, <2>1 DEF Opening, Opened, Closing
    <3> QED BY <1>1, <3>1, <3>2, <3>3 DEF Phase
  <2>16. CASE UNCHANGED vars
    <3>1. UNCHANGED <<Data("client"), Data("server"), Fin>>
          /\ \A x \in Sides : \A k : UNCHANGED <<AckOf(x, k), SynAck(k)>>
      BY <2>16 DEF vars, Data, Fin, AckOf, SynAck
    <3> QED BY <1>1, <1>4, <2>16, <3>1 DEF vars, Phase, Opening, Opened, Closing, Round, Asking,
              Heard, Waiting, Answering, Told, ServerIs, Flying, SynAck, AckOf
  <2>17. ~ Closed
    BY <1>4, <2>1 DEF Closed, Opening, Opened, Closing
  <2> QED BY <2>2, <2>3, <2>4, <2>5, <2>6, <2>7, <2>8, <2>9, <2>10, <2>11, <2>12, <2>13,
             <2>14, <2>15, <2>16, <2>17 DEF Next, Client, Server
<1> QED BY <1>2, <1>3, <1>4 DEF Phase

\* As long as no timeout crosses a packet, there is at most one packet under way,
\* client and server are in the same phase of the connection, or neither gets on,
\* and what has been printed is right.
THEOREM CalmInvariant == Spec => []Calm
<1>1. TypeOK /\ TypeOK' /\ Syns /\ Calm /\ [Next]_vars => Calm'
  <2> SUFFICES ASSUME TypeOK, TypeOK', Syns, Calm, [Next]_vars, ~ crossed'
               PROVE  One' /\ Phase' /\ Right'
    BY DEF Calm
  <2>1. One /\ Phase /\ Right
    BY CrossedStays DEF Calm
  <2> QED BY <2>1, OneStays, PhaseStays
<1> QED BY <1>1, InitCalm, TypeCorrect, SynsInvariant, PTL DEF Spec

\* Whatever packets are lost, the client prints the response to each request in
\* its turn, until a timeout crosses a packet: for every number of requests, of
\* losses and of repetitions.
THEOREM ResponsesAreRight == Spec => []RightAnswers
<1>1. Calm => RightAnswers
  BY DEF Calm, Right, RightAnswers
<1> QED BY <1>1, CalmInvariant, PTL

\* When send() of the client has returned, the server has had that message.
THEOREM RequestsAreHeard == Spec => []SentIsHeard
<1>1. Calm => SentIsHeard
  <2> SUFFICES ASSUME Calm, ~ crossed, at["client"] = "receive"
               PROVE  seqrcv["server"] = seqno["client"]
    BY DEF SentIsHeard
  <2>1. Waiting \/ Answering \/ Told
    BY DEF Calm, Phase, Opening, Opened, Closing, Finished, Lost, Round, Asking, Heard
  <2> QED BY <2>1 DEF Waiting, Answering, Told
<1> QED BY <1>1, CalmInvariant, PTL

-----------------------------------------------------------------------------
(* Booking: types.                                                         *)

Busy == {"count", "take", "look", "settle", "write"}
Replies == [kind : {"blank", "welcome", "NA", "berths"}, berths : Seq(Berths)]

ClientTypes ==
  /\ client \in [Clients -> {"new", "greet", "idle", "waits", "done", "killed"}]
  /\ conn \in [Clients -> {"open", "closed", "reset", "half", "broken"}]
  /\ buf \in [Clients -> Replies]
  /\ sent \in [Clients -> Seq(Lines)]
  /\ file \in [Clients -> Seq(Replies)]

NetTypes ==
  /\ up \in [Clients -> Seq(Lines)]
  /\ down \in [Clients -> Seq(Replies)]
  /\ peer \in [Clients -> {"open", "closed", "reset"}]
  /\ backlog \in Seq(Clients)

ServerTypes ==
  /\ server \in Busy \cup {"select", "accept", "scan", "dead", "none"}
  /\ slots \in [1 .. MaxClients -> Clients \cup {NoClient, Silent}]
  /\ ready \subseteq Clients
  /\ serving \in IF server \in Busy THEN Clients ELSE {NoClient}
  /\ line \in IF server \in Busy THEN Lines ELSE Lines \cup {B!NoLine}
  /\ failed \in BOOLEAN
  /\ connections \in Nat
  /\ server = "accept" => backlog # <<>>

TableTypes ==
  /\ flag \in [Berths -> {1, 2, 3}]
  /\ coach \in Coaches \cup {NoCoach}
  /\ given \in Seq(Berths)
  /\ told \in [Berths -> Nat]
  /\ starts \in Nat /\ stray \in BOOLEAN /\ upset \in BOOLEAN

BookingTypes == ClientTypes /\ NetTypes /\ ServerTypes /\ TableTypes

\* What went wrong is remembered, and without it all is open.
Remembered ==
  /\ stray \/ server = "none" => upset
  /\ \A c \in Clients : peer[c] = "reset" => client[c] = "killed"
  /\ failed => serving \in Clients /\ client[serving] = "killed"
  /\ \A c \in Clients : conn[c] = "open" /\ client[c] = "killed" => upset
  /\ ~ upset /\ server # "dead" => \A c \in Clients : conn[c] = "open"

\* Who has not been accepted waits for it.
Queued ==
  /\ \A m, n \in DOMAIN backlog : backlog[m] = backlog[n] => m = n
  /\ \A n \in DOMAIN backlog : client[backlog[n]] \in {"greet", "killed"}
                               /\ conn[backlog[n]] = "open"
  /\ \A c \in Clients : client[c] = "new" => conn[c] = "open"

\* Berths that a request has been given are its own.
Owned ==
  /\ \A m, n \in DOMAIN given : given[m] = given[n] => m = n
  /\ \A n \in DOMAIN given :
       /\ told[given[n]] = 0
       /\ flag[given[n]] = IF server = "settle" /\ n = Len(given) THEN 3 ELSE 2
  /\ \A b \in Berths : told[b] = 0 \/ (told[b] = 1 /\ flag[b] = 2)
  /\ ~ upset => \A b \in Berths : flag[b] = 2 => told[b] = 1 \/ b \in Range(given)

\* How many it has been given.
Measured ==
  /\ server \notin Busy \/ server = "count" => given = <<>>
  /\ server \in {"take", "look"} => Len(given) < line.qty
  /\ server = "settle" => Len(given) \in 1 .. line.qty
  /\ server = "write" => Len(given) \in {0, line.qty}

Marked == {b \in Berths : flag[b] = 3}

\* The marks are those of the request being served.
Clean ==
  /\ server \notin {"look", "settle"} => Marked = {}
  /\ server = "look" => \E b \in Berths : Marked = {b}
  /\ server = "settle" => Marked = {given[Len(given)]}

\* The berths that were free for the request when it was counted.
Had == Free(line.train) \cup Range(given) \cup Marked
Short == Roomy(OfType(Had, line.type), line.qty) = {}

Fits ==
  /\ \A b \in Range(given) \cup Marked :
       Train[b] = line.train /\ (coach # NoCoach => Coach[b] = coach)
  /\ coach = NoCoach /\ server \in {"take", "look", "settle"} => Short
  /\ coach = NoCoach /\ server = "write" /\ given # <<>> => Short
  /\ server = "write" /\ given = <<>> =>
       Cardinality(OfType(Free(line.train), line.type)) < line.qty

Table == ~ stray => Clean /\ (server \in Busy => Fits)

\* Reply a is one to line r.
Replied(a, r) ==
  \/ a.kind = "NA"
  \/ /\ a.kind = "berths"
     /\ Len(a.berths) = r.qty
     /\ \A b \in Range(a.berths) : Train[b] = r.train

\* Client c and the server take turns.
Session(c) ==
  LET s == sent[c]
      f == file[c]
  IN
  /\ client[c] \in {"new", "greet", "idle", "done"} =>
       up[c] = <<>> /\ serving # c
  /\ client[c] \in {"new", "greet"} => s = <<>> /\ f = <<>>
  /\ client[c] = "greet" => \/ down[c] = <<>> /\ c \in Range(backlog)
                            \/ down[c] = <<B!Welcome>> /\ c \notin Range(backlog)
  /\ client[c] \in {"new", "idle", "done"} => down[c] = <<>>
  /\ client[c] \in {"idle", "done"} => Len(f) = Len(s)
  /\ client[c] = "waits" =>
       /\ Len(s) = Len(f) + 1
       /\ \/ up[c] = <<s[Len(s)]>> /\ down[c] = <<>> /\ serving # c
          \/ up[c] = <<>> /\ down[c] = <<>> /\ serving = c /\ line = s[Len(s)]
          \/ /\ up[c] = <<>> /\ serving # c /\ Len(down[c]) = 1
             /\ ~ stray => Replied(down[c][1], s[Len(s)])

Going(c) ==
  conn[c] = "open" =>
    /\ client[c] # "killed" => Session(c)
    /\ Len(file[c]) <= Len(sent[c])
    /\ ~ stray => \A n \in DOMAIN file[c] : Replied(file[c][n], sent[c][n])

Sessions == \A c \in Clients : Going(c)

BookingInv ==
  BookingTypes /\ Remembered /\ Queued /\ Owned /\ Measured /\ Table /\ Sessions

LEMMA LinesFacts ==
  /\ B!NoLine \notin Lines
  /\ \A r \in Lines : r.qty \in 1 .. 9
  /\ NoClient \notin Clients
<1>1. /\ {NoClient, Silent} \cap Clients = {}
      /\ \A r \in Lines : r.qty \in 1 .. 9
  BY BookingAssumption DEF BookingAssumption
<1>2. B!NoLine.qty = 0
  BY DEF B!NoLine
<1> QED BY <1>1, <1>2

LEMMA RepliesFacts ==
  /\ B!Blank \in Replies /\ B!Welcome \in Replies
  /\ B!Answer("NA", <<>>) \in Replies
  /\ \A g \in Seq(Berths) : B!Answer("berths", g) \in Replies
BY DEF B!Blank, B!Welcome, B!Answer, Replies

LEMMA InitTypes == B!Init => BookingTypes
<1> SUFFICES ASSUME B!Init PROVE BookingTypes
  OBVIOUS
<1>1. ClientTypes
  BY RepliesFacts DEF B!Init, ClientTypes
<1>2. NetTypes
  BY DEF B!Init, NetTypes
<1>3. ServerTypes
  BY DEF B!Init, ServerTypes, Busy
<1>4. TableTypes
  <2>1. /\ flag = [b \in Berths |-> 1] /\ coach = NoCoach /\ given = <<>>
        /\ told = [b \in Berths |-> 0] /\ starts = 1
        /\ stray = FALSE /\ upset = FALSE
    BY DEF B!Init, B!AllFree, NoCoach, B!NoCoach
  <2>2. coach \in Coaches \cup {NoCoach} /\ given \in Seq(Berths)
    BY <2>1
  <2>3. flag \in [Berths -> {1, 2, 3}] /\ told \in [Berths -> Nat] /\ starts \in Nat
    BY <2>1
  <2> QED BY <2>1, <2>2, <2>3 DEF TableTypes
<1> QED BY <1>1, <1>2, <1>3, <1>4 DEF BookingTypes

LEMMA TailType ==
  ASSUME NEW S, NEW s \in Seq(S), s # <<>>
  PROVE  /\ Head(s) \in S /\ Tail(s) \in Seq(S) /\ Len(s) # 0
         /\ Len(Tail(s)) = Len(s) - 1
         /\ \A n \in DOMAIN Tail(s) : Tail(s)[n] = s[n + 1]
OBVIOUS

LEMMA AppendType ==
  ASSUME NEW S, NEW s \in Seq(S), NEW x \in S
  PROVE  /\ Append(s, x) \in Seq(S) /\ Len(Append(s, x)) = Len(s) + 1
         /\ Append(s, x)[Len(s) + 1] = x
         /\ \A n \in DOMAIN s : Append(s, x)[n] = s[n]
OBVIOUS

\* The steps of a client change nothing of the server and the table.
ClientStep(c) ==
  \/ B!Connect(c) \/ B!Greeted(c) \/ B!SendLine(c) \/ B!Receive(c) \/ B!Close(c)
  \/ B!Kill(c)

LEMMA ClientFrame ==
  ASSUME NEW c \in Clients, ClientStep(c)
  PROVE  /\ UNCHANGED <<flag, server, slots, ready, serving, line, failed, coach,
                        given, connections, starts, stray, told>>
         /\ upset' = upset \/ B!Kill(c)
BY DEF ClientStep, B!Connect, B!Greeted, B!SendLine, B!Receive, B!Close, B!Kill,
   B!serverVars, B!bookVars, B!history

LEMMA ClientStepTypes ==
  ASSUME BookingTypes, NEW c \in Clients, ClientStep(c)
  PROVE  ClientTypes' /\ NetTypes'
<1>0. ClientTypes /\ NetTypes
  BY DEF BookingTypes
<1>1. CASE B!Connect(c)
  BY <1>0, <1>1 DEF ClientTypes, NetTypes, B!Connect
<1>2. CASE B!Greeted(c)
  <2>1. /\ client' = [client EXCEPT ![c] = "idle"]
        /\ conn' = conn \/ conn' = [conn EXCEPT ![c] = "broken"]
        /\ buf' = buf \/ buf' = [buf EXCEPT ![c] = B!Welcome]
        /\ down' = down \/ (down[c] # <<>> /\ down' = [down EXCEPT ![c] = Tail(@)])
        /\ UNCHANGED <<sent, file, up, peer, backlog>>
    BY <1>2 DEF B!Greeted
  <2>2. ClientTypes'
    BY <1>0, <2>1, RepliesFacts DEF ClientTypes
  <2>3. down' \in [Clients -> Seq(Replies)]
    <3>1. down[c] # <<>> => Tail(down[c]) \in Seq(Replies)
      BY <1>0, TailType DEF NetTypes
    <3> QED BY <1>0, <2>1, <3>1 DEF NetTypes
  <2> QED BY <1>0, <2>1, <2>2, <2>3 DEF NetTypes
<1>3. CASE B!SendLine(c)
  <2>1. /\ client' \in {[client EXCEPT ![c] = "killed"], [client EXCEPT ![c] = "waits"]}
        /\ conn' = conn \/ conn' = [conn EXCEPT ![c] = "half"]
        /\ UNCHANGED <<buf, file, down, peer, backlog>>
        /\ \/ UNCHANGED <<sent, up>>
           \/ \E r \in Lines : /\ sent' = [sent EXCEPT ![c] = Append(@, r)]
                               /\ up' = up \/ up' = [up EXCEPT ![c] = Append(@, r)]
    BY <1>3 DEF B!SendLine
  <2>2. sent' \in [Clients -> Seq(Lines)] /\ up' \in [Clients -> Seq(Lines)]
    <3>1. ASSUME NEW r \in Lines
          PROVE  Append(sent[c], r) \in Seq(Lines) /\ Append(up[c], r) \in Seq(Lines)
      BY <1>0, AppendType DEF ClientTypes, NetTypes
    <3>2. CASE UNCHANGED <<sent, up>>
      BY <1>0, <3>2 DEF ClientTypes, NetTypes
    <3>3. ASSUME NEW r \in Lines, sent' = [sent EXCEPT ![c] = Append(@, r)],
                 up' = up \/ up' = [up EXCEPT ![c] = Append(@, r)]
          PROVE  sent' \in [Clients -> Seq(Lines)] /\ up' \in [Clients -> Seq(Lines)]
      BY <1>0, <3>1, <3>3 DEF ClientTypes, NetTypes
    <3> QED BY <2>1, <3>2, <3>3
  <2> QED BY <1>0, <2>1, <2>2 DEF ClientTypes, NetTypes
<1>4. CASE B!Receive(c)
  <2>1. /\ client' = [client EXCEPT ![c] = "idle"]
        /\ conn' = conn \/ conn' = [conn EXCEPT ![c] = "broken"]
        /\ \/ /\ down[c] # <<>>
              /\ buf' = [buf EXCEPT ![c] = Head(down[c])]
              /\ down' = [down EXCEPT ![c] = Tail(@)]
           \/ /\ buf' = buf \/ buf' = [buf EXCEPT ![c] = B!Blank]
              /\ down' = down
        /\ file' = [file EXCEPT ![c] = Append(@, buf'[c])]
        /\ UNCHANGED <<sent, up, peer, backlog>>
    BY <1>4 DEF B!Receive
  <2>0. down[c] # <<>> => Head(down[c]) \in Replies /\ Tail(down[c]) \in Seq(Replies)
    BY <1>0, TailType DEF NetTypes
  <2>2. down' \in [Clients -> Seq(Replies)]
    BY <1>0, <2>0, <2>1 DEF NetTypes
  <2>3. buf' \in [Clients -> Replies]
    BY <1>0, <2>0, <2>1, RepliesFacts DEF ClientTypes
  <2>4. file' \in [Clients -> Seq(Replies)]
    BY <1>0, <2>1, <2>3, AppendType DEF ClientTypes
  <2> QED BY <1>0, <2>1, <2>2, <2>3, <2>4 DEF ClientTypes, NetTypes
<1>5. CASE B!Close(c)
  BY <1>0, <1>5 DEF ClientTypes, NetTypes, B!Close
<1>6. CASE B!Kill(c)
  BY <1>0, <1>6 DEF ClientTypes, NetTypes, B!Kill
<1> QED BY <1>1, <1>2, <1>3, <1>4, <1>5, <1>6 DEF ClientStep

LEMMA TurnFacts ==
  ASSUME BookingTypes, NEW i \in 1 .. MaxClients, B!Turn(i)
  PROVE  /\ slots[i] \in Clients /\ server = "scan" /\ serving = NoClient
         /\ ready' \subseteq Clients
BY DEF BookingTypes, ServerTypes, Busy, B!Turn

\* What the end of a server leaves.
LEMMA HangupTypes ==
  ASSUME BookingTypes, NEW K, B!Hangup(K), server' \in {"dead", "none"},
         backlog' \in Seq(Clients), stray' \in BOOLEAN, upset' \in BOOLEAN
  PROVE  BookingTypes'
<1>0. ClientTypes /\ NetTypes /\ ServerTypes /\ TableTypes
  BY DEF BookingTypes
<1>1. ClientTypes'
  BY <1>0 DEF ClientTypes, B!Hangup
<1>2. NetTypes'
  BY <1>0 DEF NetTypes, B!Hangup
<1>3. ServerTypes'
  <2>1. /\ slots' = [i \in DOMAIN slots |-> NoClient] /\ ready' = {} /\ failed' = FALSE
        /\ serving' = NoClient /\ line' = B!NoLine /\ connections' = 0
    BY DEF B!Hangup
  <2> QED BY <1>0, <2>1 DEF ServerTypes, Busy
<1>4. TableTypes'
  <2>1. /\ coach' = NoCoach /\ given' = <<>> /\ UNCHANGED <<flag, told, starts>>
    BY DEF B!Hangup, B!NoCoach, NoCoach
  <2>2. coach' \in Coaches \cup {NoCoach} /\ given' \in Seq(Berths)
    BY <2>1
  <2> QED BY <1>0, <2>1, <2>2 DEF TableTypes, Coaches
<1> QED BY <1>1, <1>2, <1>3, <1>4 DEF BookingTypes

LEMMA DieTypes == ASSUME BookingTypes, B!Die PROVE BookingTypes'
<1>1. /\ server' = "dead" /\ backlog' \in Seq(Clients)
      /\ stray' \in BOOLEAN /\ upset' \in BOOLEAN
  BY DEF B!Die, BookingTypes, NetTypes, TableTypes
<1>2. PICK K : B!Hangup(K)
  BY DEF B!Die
<1> QED BY <1>1, <1>2, HangupTypes

\* The steps of the loop between two requests.
LoopStep ==
  \/ B!Select \/ B!Accept \/ B!ScanEnds
  \/ \E i \in 1 .. MaxClients : B!RecvRequest(i) \/ B!RecvEnd(i) \/ B!RecvFails(i)

LEMMA LoopFrame ==
  ASSUME LoopStep
  PROVE  UNCHANGED <<client, conn, buf, sent, file, flag, coach, given, connections,
                     starts, stray, upset, told>>
BY DEF LoopStep, B!Select, B!Accept, B!ScanEnds, B!RecvRequest, B!RecvEnd, B!RecvFails,
   B!clientVars, B!netVars, B!bookVars, B!history

LEMMA LoopTypes == ASSUME BookingTypes, LoopStep PROVE NetTypes' /\ ServerTypes'
<1>0. NetTypes /\ ServerTypes
  BY DEF BookingTypes
<1>1. CASE B!Select
  <2>1. /\ UNCHANGED <<up, down, peer, backlog, slots, serving, line, failed, connections>>
        /\ ready' = B!Readable /\ server = "select"
        /\ server' = "scan" \/ (server' = "accept" /\ backlog # <<>>)
    BY <1>1 DEF B!Select, B!netVars
  <2>2. B!Readable \subseteq Clients
    <3>1. \A c \in B!Readable : c \in B!Range(slots) /\ c \notin {NoClient, Silent}
      BY DEF B!Readable, B!Listed
    <3> QED BY <1>0, <3>1 DEF ServerTypes, B!Range
  <2> QED BY <1>0, <2>1, <2>2 DEF NetTypes, ServerTypes, Busy
<1>2. CASE B!Accept
  <2>1. /\ UNCHANGED <<up, peer, ready, serving, line, failed, connections>>
        /\ server = "accept" /\ server' = "scan" /\ backlog' = Tail(backlog)
        /\ down' = down
           \/ down' = [down EXCEPT ![Head(backlog)] = Append(@, B!Welcome)]
        /\ slots' = slots \/ \E i : slots' = [slots EXCEPT ![i] = Head(backlog)]
    BY <1>2 DEF B!Accept
  <2>2. Head(backlog) \in Clients /\ backlog' \in Seq(Clients)
    BY <1>0, <2>1, TailType DEF NetTypes, ServerTypes
  <2>3. Append(down[Head(backlog)], B!Welcome) \in Seq(Replies)
    BY <1>0, <2>2, AppendType, RepliesFacts DEF NetTypes
  <2>4. down' \in [Clients -> Seq(Replies)]
    BY <1>0, <2>1, <2>2, <2>3 DEF NetTypes
  <2>5. slots' \in [1 .. MaxClients -> Clients \cup {NoClient, Silent}]
    BY <1>0, <2>1, <2>2 DEF ServerTypes
  <2> QED BY <1>0, <2>1, <2>2, <2>4, <2>5 DEF NetTypes, ServerTypes, Busy
<1>3. CASE B!ScanEnds
  BY <1>0, <1>3 DEF B!ScanEnds, B!netVars, NetTypes, ServerTypes, Busy
<1>4. ASSUME NEW i \in 1 .. MaxClients,
             B!RecvRequest(i) \/ B!RecvEnd(i) \/ B!RecvFails(i)
      PROVE  NetTypes' /\ ServerTypes'
  <2>1. slots[i] \in Clients /\ server = "scan" /\ serving = NoClient
        /\ ready' \subseteq Clients
    BY <1>4, TurnFacts DEF B!RecvRequest, B!RecvEnd, B!RecvFails
  <2>2. CASE B!RecvRequest(i)
    <3>1. /\ up[slots[i]] # <<>> /\ line' = Head(up[slots[i]])
          /\ up' = [up EXCEPT ![slots[i]] = Tail(@)]
          /\ UNCHANGED <<down, peer, backlog, slots, connections>>
          /\ serving' = slots[i] /\ failed' = FALSE /\ server' = "count"
      BY <2>2 DEF B!RecvRequest
    <3>2. up[slots[i]] \in Seq(Lines)
      BY <1>0, <2>1 DEF NetTypes
    <3>3. Head(up[slots[i]]) \in Lines /\ Tail(up[slots[i]]) \in Seq(Lines)
      BY <3>1, <3>2, TailType
    <3> HIDE DEF NetTypes
    <3>4. NetTypes'
      BY <1>0, <2>1, <3>1, <3>3 DEF NetTypes
    <3> QED BY <1>0, <2>1, <3>1, <3>3, <3>4 DEF ServerTypes, Busy
  <2>3. CASE B!RecvEnd(i)
    <3>1. /\ UNCHANGED <<up, down, peer, backlog, server, serving, line, failed, connections>>
          /\ slots' = [slots EXCEPT ![i] = NoClient]
      BY <2>3 DEF B!RecvEnd, B!netVars
    <3> QED BY <1>0, <2>1, <3>1 DEF NetTypes, ServerTypes, Busy
  <2>4. CASE B!RecvFails(i)
    <3>1. /\ UNCHANGED <<up, down, peer, backlog, slots, line, connections>>
          /\ Len(line.prefs) = 1
          /\ serving' = slots[i] /\ failed' = TRUE /\ server' = "count"
      BY <2>4 DEF B!RecvFails, B!netVars
    <3>2. line \in Lines
      <4>1. Len(B!NoLine.prefs) = 0
        BY DEF B!NoLine
      <4>2. line # B!NoLine
        BY <3>1, <4>1
      <4> QED BY <1>0, <2>1, <4>2 DEF ServerTypes
    <3> QED BY <1>0, <2>1, <3>1, <3>2 DEF NetTypes, ServerTypes, Busy
  <2> QED BY <1>4, <2>2, <2>3, <2>4
<1> QED BY <1>1, <1>2, <1>3, <1>4 DEF LoopStep

\* The steps of a request.
BookStep == B!Count \/ B!Take \/ B!Look \/ B!Settle \/ B!Write

LEMMA BookFrame ==
  ASSUME BookStep
  PROVE  /\ UNCHANGED <<client, conn, buf, sent, file, up, peer, backlog, slots, ready,
                        line, failed, starts, stray, upset>>
         /\ server \in Busy
         /\ ~ B!Write => server' \in Busy /\ UNCHANGED <<down, serving, told>>
BY DEF BookStep, B!Count, B!Take, B!Look, B!Settle, B!Write, Busy,
   B!clientVars, B!netVars, B!bookVars, B!history

\* What the steps that change the table do, in the words of BookingState.
LEMMA PoolFacts ==
  /\ B!Pool \subseteq {b \in Berths : flag[b] = 1 /\ Train[b] = line.train
                                      /\ (coach # NoCoach => Coach[b] = coach)}
  /\ B!Preferred \subseteq B!Pool
BY DEF B!Pool, B!Preferred, B!Free, B!InCoach, NoCoach, B!NoCoach

LEMMA TakeFacts ==
  ASSUME B!Take
  PROVE  /\ server = "take" /\ server' = "look" /\ UNCHANGED <<coach, given>>
         /\ \E b \in Berths : /\ flag[b] = 1 /\ Train[b] = line.train
                              /\ coach # NoCoach => Coach[b] = coach
                              /\ flag' = [flag EXCEPT ![b] = 3]
<1>1. PICK b \in B!Pool : flag' = [flag EXCEPT ![b] = 3]
  BY PoolFacts DEF B!Take
<1>2. server = "take" /\ server' = "look" /\ UNCHANGED <<coach, given>>
  BY DEF B!Take, B!bookVars
<1> QED BY <1>1, <1>2, PoolFacts

LEMMA SameCardinality == \A S : B!Cardinality(S) = Cardinality(S)
BY DEF B!Cardinality, Cardinality

LEMMA CountFacts ==
  ASSUME B!Count
  PROVE  LET free == OfType(Free(line.train), line.type)
         IN  /\ server = "count" /\ given' = <<>> /\ connections' = connections + 1
             /\ UNCHANGED flag
             /\ \/ /\ server' = "take" /\ coach' = NoCoach /\ Roomy(free, line.qty) = {}
                \/ server' = "take" /\ coach' \in Coaches
                \/ /\ server' = "write" /\ coach' = NoCoach
                   /\ ~ (Cardinality(free) >= line.qty)
<1> DEFINE free == OfType(Free(line.train), line.type)
           roomy == Roomy(free, line.qty)
<1>1. B!OfType(B!Free(line.train), line.type) = free
  BY DEF B!Free, B!OfType, Free, OfType
<1>2. B!Roomy(free, line.qty) = roomy /\ roomy \subseteq Coaches
  <2>1. \A k : B!InCoach(free, k) = InCoach(free, k)
    BY DEF B!InCoach, InCoach
  <2>2. B!Coaches = Coaches
    BY DEF B!Coaches, Coaches
  <2> HIDE DEF free
  <2> QED BY <2>1, <2>2, SameCardinality DEF B!Roomy, Roomy
<1>3. /\ server = "count" /\ given' = <<>> /\ connections' = connections + 1
      /\ UNCHANGED flag
  BY DEF B!Count
<1>4. IF Cardinality(free) >= line.qty
      THEN /\ server' = "take"
           /\ IF roomy = {} THEN coach' = NoCoach ELSE coach' \in roomy
      ELSE server' = "write" /\ coach' = NoCoach
  <2> HIDE DEF free, roomy
  <2> QED BY <1>1, <1>2, SameCardinality DEF B!Count, NoCoach, B!NoCoach
<1> HIDE DEF free, roomy
<1>5. \/ server' = "take" /\ coach' = NoCoach /\ roomy = {}
      \/ server' = "take" /\ coach' \in Coaches
      \/ server' = "write" /\ coach' = NoCoach /\ ~ (Cardinality(free) >= line.qty)
  BY <1>2, <1>4
<1> QED BY <1>3, <1>5 DEF free, roomy

LEMMA LookFacts ==
  ASSUME B!Look
  PROVE  /\ server = "look" /\ server' = "settle" /\ UNCHANGED <<flag, coach>>
         /\ \E b \in Berths : flag[b] = 3 /\ given' = Append(given, b)
BY DEF B!Look

LEMMA SettleFacts ==
  ASSUME B!Settle
  PROVE  /\ server = "settle" /\ UNCHANGED <<coach, given>>
         /\ flag' = [b \in Berths |-> IF flag[b] = 3 THEN 2 ELSE flag[b]]
         /\ server' = IF Len(given) < line.qty THEN "take" ELSE "write"
BY DEF B!Settle, B!Settled, B!bookVars

LEMMA WriteFacts ==
  ASSUME B!Write
  PROVE  /\ server = "write" /\ server' = "scan" /\ ~ failed
         /\ UNCHANGED <<flag, connections>>
         /\ given' = <<>> /\ coach' = NoCoach /\ serving' = NoClient
         /\ \/ /\ client[serving] \in {"done", "killed"} /\ UNCHANGED <<down, told>>
            \/ /\ client[serving] \notin {"done", "killed"}
               /\ down' = [down EXCEPT ![serving] =
                    Append(@, IF given = <<>> THEN B!Answer("NA", <<>>)
                              ELSE B!Answer("berths", given))]
               /\ told' = [b \in Berths |->
                    told[b] + Cardinality({n \in DOMAIN given : given[n] = b})]
<1>1. /\ server = "write" /\ server' = "scan" /\ ~ failed
      /\ UNCHANGED <<flag, connections>>
      /\ given' = <<>> /\ coach' = NoCoach /\ serving' = NoClient
  BY DEF B!Write, NoCoach, B!NoCoach
<1>2. CASE B!Ends(serving)
  <2>1. UNCHANGED <<down, told>>
    BY <1>2 DEF B!Write
  <2> QED BY <1>1, <1>2, <2>1 DEF B!Ends
<1>3. CASE ~ B!Ends(serving)
  <2>1. /\ down' = [down EXCEPT ![serving] =
                      Append(@, IF given = <<>> THEN B!Answer("NA", <<>>)
                                ELSE B!Answer("berths", given))]
        /\ told' = [b \in Berths |->
             told[b] + Cardinality({n \in DOMAIN given : given[n] = b})]
    BY <1>3, SameCardinality DEF B!Write
  <2> QED BY <1>1, <1>3, <2>1 DEF B!Ends
<1> QED BY <1>2, <1>3

LEMMA BookTypes == ASSUME BookingTypes, BookStep PROVE BookingTypes'
<1>0. ClientTypes /\ NetTypes /\ ServerTypes /\ TableTypes
  BY DEF BookingTypes
<1>f. /\ UNCHANGED <<client, conn, buf, sent, file, up, peer, backlog, slots, ready,
                     line, failed, starts, stray, upset>>
      /\ server \in Busy /\ serving \in Clients /\ line \in Lines
      /\ ~ B!Write => server' \in Busy /\ UNCHANGED <<down, serving, told>>
  BY <1>0, BookFrame DEF ServerTypes
<1>1. ClientTypes'
  BY <1>0, <1>f DEF ClientTypes
<1>2. /\ down' \in [Clients -> Seq(Replies)]
      /\ told' \in [Berths -> Nat]
  <2>1. CASE B!Write
    <3>1. (IF given = <<>> THEN B!Answer("NA", <<>>) ELSE B!Answer("berths", given))
            \in Replies
      BY <1>0, RepliesFacts DEF TableTypes
    <3>2. Append(down[serving], IF given = <<>> THEN B!Answer("NA", <<>>)
                                ELSE B!Answer("berths", given)) \in Seq(Replies)
      BY <1>0, <1>f, <3>1, AppendType DEF NetTypes
    <3>3. \A b : Cardinality({n \in DOMAIN given : given[n] = b}) \in Nat
      <4>1. IsFiniteSet(DOMAIN given)
        BY <1>0, FS_Interval DEF TableTypes
      <4>2. \A b : IsFiniteSet({n \in DOMAIN given : given[n] = b})
        BY <4>1, FS_Subset
      <4> QED BY <4>2, FS_CardinalityType
    <3>4. down' = down \/ down' = [down EXCEPT ![serving] =
                    Append(@, IF given = <<>> THEN B!Answer("NA", <<>>)
                              ELSE B!Answer("berths", given))]
      BY <2>1, WriteFacts
    <3>5. told' = told \/ told' = [b \in Berths |->
                    told[b] + Cardinality({n \in DOMAIN given : given[n] = b})]
      BY <2>1, WriteFacts
    <3>6. told' \in [Berths -> Nat]
      <4>1. CASE told' = told
        BY <1>0, <4>1 DEF TableTypes
      <4>2. CASE told' = [b \in Berths |->
                    told[b] + Cardinality({n \in DOMAIN given : given[n] = b})]
        <5> DEFINE Times(b) == Cardinality({n \in DOMAIN given : given[n] = b})
        <5>1. \A b : Times(b) \in Nat
          BY <3>3
        <5>2. told' = [b \in Berths |-> told[b] + Times(b)]
          BY <4>2
        <5> HIDE DEF Times
        <5>3. \A b \in Berths : told[b] + Times(b) \in Nat
          BY <1>0, <5>1 DEF TableTypes
        <5> QED BY <5>2, <5>3
      <4> QED BY <3>5, <4>1, <4>2
    <3> QED BY <1>0, <1>f, <3>2, <3>4, <3>6 DEF NetTypes
  <2>2. CASE ~ B!Write
    BY <1>0, <1>f, <2>2 DEF NetTypes, TableTypes
  <2> QED BY <2>1, <2>2
<1>3. NetTypes'
  BY <1>0, <1>f, <1>2 DEF NetTypes
<1>4. connections' \in Nat
  <2>1. connections' = connections + 1 \/ connections' = connections
    BY CountFacts, WriteFacts DEF BookStep, B!Take, B!Look, B!Settle
  <2> QED BY <1>0, <2>1 DEF ServerTypes
<1>5. ServerTypes'
  <2>1. CASE B!Write
    <3>1. server' = "scan" /\ serving' = NoClient
      BY <2>1, WriteFacts
    <3> QED BY <1>0, <1>f, <1>4, <3>1 DEF ServerTypes, Busy
  <2>2. CASE ~ B!Write
    BY <1>0, <1>f, <1>4, <2>2 DEF ServerTypes, Busy
  <2> QED BY <2>1, <2>2
<1>6. flag' \in [Berths -> {1, 2, 3}]
  <2>1. \/ flag' = flag
        \/ \E b \in Berths : flag' = [flag EXCEPT ![b] = 3]
        \/ flag' = [b \in Berths |-> IF flag[b] = 3 THEN 2 ELSE flag[b]]
    BY CountFacts, TakeFacts, LookFacts, SettleFacts, WriteFacts DEF BookStep
  <2> QED BY <1>0, <2>1 DEF TableTypes
<1>7. coach' \in Coaches \cup {NoCoach}
  BY <1>0, CountFacts, TakeFacts, LookFacts, SettleFacts, WriteFacts
     DEF BookStep, TableTypes
<1>8. given' \in Seq(Berths)
  <2>1. \/ given' = <<>> \/ given' = given
        \/ \E b \in Berths : given' = Append(given, b)
    BY CountFacts, TakeFacts, LookFacts, SettleFacts, WriteFacts DEF BookStep
  <2>2. \A b \in Berths : Append(given, b) \in Seq(Berths)
    BY <1>0, AppendType DEF TableTypes
  <2> QED BY <1>0, <2>1, <2>2, <<>> \in Seq(Berths) DEF TableTypes
<1>9. TableTypes'
  BY <1>0, <1>f, <1>2, <1>6, <1>7, <1>8 DEF TableTypes, Coaches
<1> QED BY <1>1, <1>3, <1>5, <1>9 DEF BookingTypes

\* The ways in which a server ends, and its start.
EndStep == B!RecvFailsOtherwise \/ B!NoConnection \/ B!WriteFails

LEMMA StartTypes == ASSUME BookingTypes, B!Start PROVE BookingTypes'
<1>1. /\ UNCHANGED <<client, conn, buf, sent, file, up, down, peer, backlog, flag, slots,
                     ready, serving, line, failed, connections, coach, given, stray,
                     upset, told>>
      /\ server = "none" /\ server' = "select" /\ starts' = starts + 1
  BY DEF B!Start, B!clientVars, B!netVars, B!bookVars
<1>2. ClientTypes' /\ NetTypes'
  BY <1>1 DEF BookingTypes, ClientTypes, NetTypes
<1>3. ServerTypes'
  BY <1>1 DEF BookingTypes, ServerTypes, Busy
<1>4. TableTypes'
  BY <1>1 DEF BookingTypes, TableTypes, Coaches
<1> QED BY <1>2, <1>3, <1>4 DEF BookingTypes

LEMMA InterruptTypes == ASSUME BookingTypes, B!Interrupt PROVE BookingTypes'
<1>1. /\ server' = "none" /\ backlog' \in Seq(Clients)
      /\ stray' \in BOOLEAN /\ upset' \in BOOLEAN
  BY DEF B!Interrupt, BookingTypes, TableTypes
<1>2. PICK K : B!Hangup(K)
  BY DEF B!Interrupt
<1> QED BY <1>1, <1>2, HangupTypes

LEMMA Steps ==
  ASSUME [B!Next]_B!vars
  PROVE  \/ \E c \in Clients : ClientStep(c)
         \/ LoopStep \/ BookStep
         \/ EndStep \/ B!Interrupt \/ B!Start
         \/ UNCHANGED B!vars
BY DEF B!Next, B!Client, B!User, B!Server, B!Slot, ClientStep, LoopStep, BookStep, EndStep

LEMMA NextTypes == BookingTypes /\ [B!Next]_B!vars => BookingTypes'
<1> SUFFICES ASSUME BookingTypes, [B!Next]_B!vars PROVE BookingTypes'
  OBVIOUS
<1>0. ClientTypes /\ NetTypes /\ ServerTypes /\ TableTypes
  BY DEF BookingTypes
<1>1. ASSUME NEW c \in Clients, ClientStep(c) PROVE BookingTypes'
  <2>1. ServerTypes'
    <3>1. /\ UNCHANGED <<server, slots, ready, serving, line, failed, connections>>
          /\ backlog' = backlog \/ backlog' = Append(backlog, c)
      BY <1>1, ClientFrame DEF ClientStep, B!Connect, B!Greeted, B!SendLine, B!Receive,
         B!Close, B!Kill
    <3>2. backlog # <<>> => backlog' # <<>>
      BY <1>0, <3>1, AppendType DEF NetTypes
    <3> QED BY <1>0, <3>1, <3>2 DEF ServerTypes
  <2>2. TableTypes'
    <3>1. upset' \in BOOLEAN
      BY <1>1 DEF BookingTypes, TableTypes, ClientStep, B!Connect, B!Greeted, B!SendLine,
         B!Receive, B!Close, B!Kill, B!history
    <3> QED BY <1>0, <1>1, <3>1, ClientFrame DEF TableTypes, Coaches
  <2> QED BY <1>1, <2>1, <2>2, ClientStepTypes DEF BookingTypes
<1>2. CASE LoopStep
  <2>1. ClientTypes' /\ TableTypes'
    BY <1>0, <1>2, LoopFrame DEF ClientTypes, TableTypes, Coaches
  <2> QED BY <1>2, <2>1, LoopTypes DEF BookingTypes
<1>3. CASE EndStep
  BY <1>3, DieTypes DEF EndStep, B!RecvFailsOtherwise, B!NoConnection, B!WriteFails
<1>4. CASE UNCHANGED B!vars
  <2>1. ClientTypes' /\ NetTypes'
    BY <1>0, <1>4 DEF B!vars, B!clientVars, B!netVars, ClientTypes, NetTypes
  <2>2. ServerTypes' /\ TableTypes'
    BY <1>0, <1>4 DEF B!vars, B!serverVars, B!bookVars, B!netVars, B!history,
       ServerTypes, TableTypes, Coaches
  <2> QED BY <2>1, <2>2 DEF BookingTypes
<1> QED BY <1>1, <1>2, <1>3, <1>4, Steps, BookTypes, StartTypes, InterruptTypes

\* Every variable keeps its type, for any clients, berths and request lines, any
\* number of slots, connections and restarts.
THEOREM BookingTypeCorrect == B!Spec => []BookingTypes
BY InitTypes, NextTypes, PTL DEF B!Spec

-----------------------------------------------------------------------------
(* What is remembered.                                                     *)

\* A client's step is about itself.
LEMMA OthersKept ==
  ASSUME BookingTypes, NEW c \in Clients, ClientStep(c), NEW d \in Clients, d # c
  PROVE  /\ client'[d] = client[d] /\ conn'[d] = conn[d] /\ sent'[d] = sent[d]
         /\ file'[d] = file[d] /\ up'[d] = up[d] /\ down'[d] = down[d]
         /\ peer'[d] = peer[d]
<1>0. ClientTypes /\ NetTypes
  BY DEF BookingTypes
<1>1. CASE B!Connect(c)
  BY <1>0, <1>1 DEF ClientTypes, B!Connect
<1>2. CASE B!Greeted(c)
  BY <1>0, <1>2 DEF ClientTypes, NetTypes, B!Greeted
<1>3. CASE B!SendLine(c)
  BY <1>0, <1>3 DEF ClientTypes, NetTypes, B!SendLine
<1>4. CASE B!Receive(c)
  BY <1>0, <1>4 DEF ClientTypes, NetTypes, B!Receive
<1>5. CASE B!Close(c)
  BY <1>0, <1>5 DEF ClientTypes, NetTypes, B!Close
<1>6. CASE B!Kill(c)
  BY <1>0, <1>6 DEF ClientTypes, NetTypes, B!Kill
<1> QED BY <1>1, <1>2, <1>3, <1>4, <1>5, <1>6 DEF ClientStep

LEMMA ConnectFacts ==
  ASSUME BookingTypes, NEW c \in Clients, B!Connect(c)
  PROVE  /\ client[c] = "new" /\ client'[c] = "greet" /\ backlog' = Append(backlog, c)
         /\ UNCHANGED <<conn, sent, file, up, down, peer, upset>>
BY DEF B!Connect, BookingTypes, ClientTypes, B!history

LEMMA GreetedFacts ==
  ASSUME BookingTypes, NEW c \in Clients, B!Greeted(c)
  PROVE  /\ client[c] = "greet" /\ client'[c] = "idle"
         /\ UNCHANGED <<sent, file, up, peer, backlog, upset>>
         /\ \/ down[c] # <<>> /\ down'[c] = Tail(down[c]) /\ conn'[c] = conn[c]
            \/ conn[c] = "reset" /\ conn'[c] = "broken"
<1>0. ClientTypes /\ NetTypes
  BY DEF BookingTypes
<1> QED BY <1>0 DEF B!Greeted, ClientTypes, NetTypes, B!history

LEMMA SendLineFacts ==
  ASSUME BookingTypes, NEW c \in Clients, B!SendLine(c)
  PROVE  /\ client[c] = "idle" /\ UNCHANGED <<file, down, peer, backlog, upset>>
         /\ \/ /\ client'[c] = "killed" /\ UNCHANGED <<conn, sent, up>>
               /\ conn[c] \in {"half", "broken"}
            \/ /\ client'[c] = "waits"
               /\ \E r \in Lines :
                    /\ sent'[c] = Append(sent[c], r)
                    /\ \/ conn[c] = "open" /\ conn' = conn /\ up'[c] = Append(up[c], r)
                       \/ conn[c] # "open" /\ conn'[c] = "half"
<1>0. ClientTypes /\ NetTypes
  BY DEF BookingTypes
<1>1. CASE conn[c] \in {"half", "broken"}
  BY <1>0, <1>1 DEF B!SendLine, ClientTypes, B!history
<1>2. CASE conn[c] \notin {"half", "broken"}
  <2>1. PICK r \in Lines :
          /\ client' = [client EXCEPT ![c] = "waits"]
          /\ sent' = [sent EXCEPT ![c] = Append(@, r)]
          /\ up' = IF conn[c] = "open" THEN [up EXCEPT ![c] = Append(@, r)] ELSE up
          /\ conn' = IF conn[c] = "open" THEN conn ELSE [conn EXCEPT ![c] = "half"]
    BY <1>2 DEF B!SendLine
  <2>2. client'[c] = "waits" /\ sent'[c] = Append(sent[c], r)
    BY <1>0, <2>1 DEF ClientTypes
  <2>3. \/ conn[c] = "open" /\ conn' = conn /\ up'[c] = Append(up[c], r)
        \/ conn[c] # "open" /\ conn'[c] = "half"
    BY <1>0, <2>1 DEF ClientTypes, NetTypes
  <2>4. client[c] = "idle" /\ UNCHANGED <<file, down, peer, backlog, upset>>
    BY DEF B!SendLine, B!history
  <2> QED BY <2>2, <2>3, <2>4
<1> QED BY <1>1, <1>2

LEMMA ReceiveFacts ==
  ASSUME BookingTypes, NEW c \in Clients, B!Receive(c)
  PROVE  /\ client[c] = "waits" /\ client'[c] = "idle"
         /\ UNCHANGED <<sent, up, peer, backlog, upset>>
         /\ \/ /\ down[c] # <<>> /\ down'[c] = Tail(down[c]) /\ conn'[c] = conn[c]
               /\ file'[c] = Append(file[c], Head(down[c]))
            \/ conn[c] # "open" /\ conn'[c] # "open"
<1>0. ClientTypes /\ NetTypes
  BY DEF BookingTypes
<1>1. /\ client[c] = "waits" /\ client'[c] = "idle"
      /\ UNCHANGED <<sent, up, peer, backlog, upset>>
  BY <1>0 DEF B!Receive, ClientTypes, B!history
<1>2. file'[c] = Append(file[c], buf'[c])
  BY <1>0 DEF B!Receive, ClientTypes
<1>3. \/ down[c] # <<>> /\ down'[c] = Tail(down[c]) /\ conn'[c] = conn[c]
         /\ buf'[c] = Head(down[c])
      \/ conn[c] # "open" /\ conn'[c] # "open"
  BY <1>0 DEF B!Receive, ClientTypes, NetTypes
<1> QED BY <1>1, <1>2, <1>3

LEMMA CloseFacts ==
  ASSUME BookingTypes, NEW c \in Clients, B!Close(c)
  PROVE  /\ client[c] = "idle" /\ client'[c] = "done" /\ peer'[c] = "closed"
         /\ UNCHANGED <<conn, sent, file, up, down, backlog, upset>>
BY DEF B!Close, BookingTypes, ClientTypes, NetTypes, B!history

LEMMA KillFacts ==
  ASSUME BookingTypes, NEW c \in Clients, B!Kill(c)
  PROVE  /\ client[c] \in {"greet", "idle", "waits"} /\ client'[c] = "killed"
         /\ upset' /\ UNCHANGED <<conn, sent, file, up, backlog>>
BY DEF B!Kill, BookingTypes, ClientTypes

LEMMA InitRemembered == B!Init => Remembered
BY DEF B!Init, Remembered

LEMMA ClientRemembers ==
  ASSUME BookingTypes, Remembered, NEW c \in Clients, ClientStep(c)
  PROVE  Remembered'
<1>0. \A d \in Clients : d # c => /\ client'[d] = client[d] /\ conn'[d] = conn[d]
                                  /\ peer'[d] = peer[d]
  BY OthersKept
<1>1. /\ client[c] # "killed"
      /\ client'[c] = "killed" =>
           upset' \/ (conn[c] \in {"half", "broken"} /\ conn'[c] = conn[c])
      /\ conn'[c] # "open" => conn[c] # "open"
      /\ conn'[c] = "open" => conn[c] = "open"
      /\ peer'[c] = "reset" => peer[c] = "reset" \/ client'[c] = "killed"
  BY ConnectFacts, GreetedFacts, SendLineFacts, ReceiveFacts, CloseFacts, KillFacts
     DEF ClientStep
<1>2. UNCHANGED <<server, serving, failed, stray>> /\ (upset' = upset \/ upset')
  BY ClientFrame, KillFacts
<1>3. upset => upset'
  BY ClientFrame, KillFacts
<1> QED BY <1>0, <1>1, <1>2, <1>3 DEF Remembered

LEMMA HangupRemembers ==
  ASSUME BookingTypes, Remembered, NEW K, B!Hangup(K),
         stray' \/ server' = "none" => upset', upset => upset',
         server' = "dead" \/ upset'
  PROVE  Remembered'
<1>1. /\ UNCHANGED <<client, peer>> /\ failed' = FALSE
      /\ \A c \in Clients : conn'[c] = "open" => conn[c] = "open"
  BY DEF B!Hangup
<1> QED BY <1>1 DEF Remembered

LEMMA NextRemembered ==
  BookingTypes /\ Remembered /\ [B!Next]_B!vars => Remembered'
<1> SUFFICES ASSUME BookingTypes, Remembered, [B!Next]_B!vars PROVE Remembered'
  OBVIOUS
<1>1. CASE LoopStep
  <2>1. UNCHANGED <<client, conn, stray, upset>>
    BY <1>1, LoopFrame
  <2>2. /\ UNCHANGED peer /\ server' # "none"
        /\ server # "none" /\ server # "dead"
        /\ failed' => (failed /\ serving' = serving)
                      \/ \E i \in 1 .. MaxClients :
                           /\ serving' = slots[i] /\ slots[i] \in Clients
                           /\ peer[slots[i]] = "reset"
    <3>1. CASE B!Select \/ B!Accept \/ B!ScanEnds
      BY <3>1 DEF B!Select, B!Accept, B!ScanEnds, B!netVars
    <3>2. ASSUME NEW i \in 1 .. MaxClients,
                 B!RecvRequest(i) \/ B!RecvEnd(i) \/ B!RecvFails(i)
          PROVE  /\ UNCHANGED peer /\ server' # "none"
                 /\ server # "none" /\ server # "dead"
                 /\ failed' => (failed /\ serving' = serving)
                      \/ /\ serving' = slots[i] /\ slots[i] \in Clients
                         /\ peer[slots[i]] = "reset"
      <4>1. slots[i] \in Clients /\ server = "scan"
        BY <3>2, TurnFacts DEF B!RecvRequest, B!RecvEnd, B!RecvFails
      <4> QED BY <3>2, <4>1 DEF B!RecvRequest, B!RecvEnd, B!RecvFails, B!netVars
    <3> QED BY <1>1, <3>1, <3>2 DEF LoopStep
  <2> QED BY <2>1, <2>2 DEF Remembered
<1>2. CASE BookStep
  <2>1. UNCHANGED <<client, conn, peer, failed, stray, upset>> /\ server \in Busy
    BY <1>2, BookFrame
  <2>2. server' \notin {"none", "dead"} /\ (failed => serving' = serving)
    BY <1>2, BookFrame, WriteFacts DEF Busy
  <2> QED BY <2>1, <2>2 DEF Remembered, Busy
<1>3. CASE EndStep
  <2>1. PICK K : B!Hangup(K) /\ server' = "dead" /\ UNCHANGED <<stray, upset>>
    BY <1>3 DEF EndStep, B!RecvFailsOtherwise, B!NoConnection, B!WriteFails, B!Die
  <2> QED BY <2>1, HangupRemembers DEF Remembered
<1>4. CASE B!Interrupt
  <2>1. PICK K : B!Hangup(K) /\ server' = "none" /\ upset'
    BY <1>4 DEF B!Interrupt
  <2> QED BY <2>1, HangupRemembers
<1>5. CASE B!Start
  BY <1>5 DEF B!Start, Remembered, B!clientVars, B!netVars
<1>6. CASE UNCHANGED B!vars
  BY <1>6 DEF B!vars, B!clientVars, B!netVars, B!serverVars, B!history, Remembered
<1> QED BY <1>1, <1>2, <1>3, <1>4, <1>5, <1>6, Steps, ClientRemembers

-----------------------------------------------------------------------------
(* Connections that are waiting to be accepted.                            *)

LEMMA DieFacts ==
  ASSUME BookingTypes, B!Die
  PROVE  /\ UNCHANGED <<client, sent, file, down, peer, flag, told, stray, upset, backlog>>
         /\ server' = "dead" /\ serving' = NoClient /\ given' = <<>>
         /\ \A c \in Clients :
              IF client[c] = "new" \/ c \in Range(backlog)
              THEN conn'[c] = conn[c] /\ up'[c] = up[c]
              ELSE conn'[c] # "open"
<1>1. /\ UNCHANGED <<client, sent, file, down, peer, flag, told, stray, upset, backlog>>
      /\ server' = "dead" /\ serving' = NoClient /\ given' = <<>>
  BY DEF B!Die, B!Hangup
<1>2. ASSUME NEW c \in Clients
      PROVE  IF client[c] = "new" \/ c \in Range(backlog)
             THEN conn'[c] = conn[c] /\ up'[c] = up[c]
             ELSE conn'[c] # "open"
  <2> DEFINE K == {d \in Clients : B!Accepted(d)}
  <2>1. c \in K <=> ~ (client[c] = "new" \/ c \in Range(backlog))
    <3>1. backlog \in Seq(Clients)
      BY DEF BookingTypes, NetTypes
    <3> QED BY <3>1 DEF B!Accepted, B!Contains, Range
  <2>2. B!Hangup(K)
    BY DEF B!Die
  <2> HIDE DEF K
  <2>3. /\ conn'[c] = IF c \in K /\ conn[c] = "open"
                      THEN IF B!Accepted(c) /\ up[c] = <<>> THEN "closed" ELSE "reset"
                      ELSE conn[c]
        /\ up'[c] = IF c \in K THEN <<>> ELSE up[c]
    BY <2>2 DEF B!Hangup
  <2> QED BY <2>1, <2>3
<1> QED BY <1>1, <1>2

LEMMA InterruptFacts ==
  ASSUME B!Interrupt
  PROVE  /\ UNCHANGED <<client, sent, file, down, peer, flag, told>>
         /\ server' = "none" /\ serving' = NoClient /\ given' = <<>> /\ backlog' = <<>>
         /\ stray' = (stray \/ Marked # {}) /\ upset'
         /\ \A c \in Clients :
              IF client[c] = "new" THEN conn'[c] = conn[c] /\ up'[c] = up[c]
              ELSE conn'[c] # "open"
<1>1. /\ UNCHANGED <<client, sent, file, down, peer, flag, told>>
      /\ server' = "none" /\ serving' = NoClient /\ given' = <<>> /\ backlog' = <<>>
      /\ upset'
  BY DEF B!Interrupt, B!Hangup
<1>2. stray' = (stray \/ Marked # {})
  BY DEF B!Interrupt, Marked
<1>3. ASSUME NEW c \in Clients
      PROVE  IF client[c] = "new" THEN conn'[c] = conn[c] /\ up'[c] = up[c]
             ELSE conn'[c] # "open"
  <2> DEFINE K == {d \in Clients : client[d] # "new"}
  <2>1. B!Hangup(K)
    BY DEF B!Interrupt
  <2>2. c \in K <=> client[c] # "new"
    OBVIOUS
  <2> HIDE DEF K
  <2>3. /\ conn'[c] = IF c \in K /\ conn[c] = "open"
                      THEN IF B!Accepted(c) /\ up[c] = <<>> THEN "closed" ELSE "reset"
                      ELSE conn[c]
        /\ up'[c] = IF c \in K THEN <<>> ELSE up[c]
    BY <2>1 DEF B!Hangup
  <2> QED BY <2>2, <2>3
<1> QED BY <1>1, <1>2, <1>3

LEMMA EndDies == ASSUME EndStep PROVE B!Die
BY DEF EndStep, B!RecvFailsOtherwise, B!NoConnection, B!WriteFails

LEMMA AcceptFacts ==
  ASSUME BookingTypes, Queued, B!Accept
  PROVE  /\ Head(backlog) \in Clients /\ backlog # <<>> /\ backlog' = Tail(backlog)
         /\ Range(backlog') = Range(backlog) \ {Head(backlog)}
         /\ server = "accept" /\ server' = "scan"
         /\ UNCHANGED <<up, peer, serving, line>>
         /\ \A d \in Clients : d # Head(backlog) => down'[d] = down[d]
         /\ client[Head(backlog)] \notin {"done", "killed"} =>
              down'[Head(backlog)] = Append(down[Head(backlog)], B!Welcome)
<1>1. backlog \in Seq(Clients) /\ backlog # <<>> /\ backlog' = Tail(backlog)
  BY DEF B!Accept, BookingTypes, NetTypes, ServerTypes
<1>2. Head(backlog) \in Clients
  BY <1>1, TailType
<1>3. Range(backlog') = Range(backlog) \ {Head(backlog)}
  <2>1. Head(backlog) = backlog[1] /\ DOMAIN backlog = 1 .. Len(backlog)
        /\ DOMAIN Tail(backlog) = 1 .. Len(backlog) - 1 /\ Len(backlog) \in Nat \ {0}
        /\ \A n \in DOMAIN Tail(backlog) : Tail(backlog)[n] = backlog[n + 1]
    BY <1>1, TailType
  <2>2. \A n \in DOMAIN backlog : n # 1 => backlog[n] # backlog[1]
    BY <2>1 DEF Queued
  <2>3. ASSUME NEW n \in DOMAIN backlog, n # 1
        PROVE  n - 1 \in DOMAIN Tail(backlog) /\ Tail(backlog)[n - 1] = backlog[n]
    BY <2>1, <2>3
  <2>4. ASSUME NEW n \in DOMAIN Tail(backlog)
        PROVE  n + 1 \in DOMAIN backlog /\ n + 1 # 1
    BY <2>1, <2>4
  <2> QED BY <1>1, <2>1, <2>2, <2>3, <2>4 DEF Range
<1>4. /\ \A d \in Clients : d # Head(backlog) => down'[d] = down[d]
      /\ client[Head(backlog)] \notin {"done", "killed"} =>
              down'[Head(backlog)] = Append(down[Head(backlog)], B!Welcome)
  <2>1. down \in [Clients -> Seq(Replies)]
    BY DEF BookingTypes, NetTypes
  <2> QED BY <1>2, <2>1 DEF B!Accept, B!Ends
<1>5. server = "accept" /\ server' = "scan" /\ UNCHANGED <<up, peer, serving, line>>
  BY DEF B!Accept
<1> QED BY <1>1, <1>2, <1>3, <1>4, <1>5

LEMMA InitQueued == B!Init => Queued
BY DEF B!Init, Queued

LEMMA NextQueued ==
  BookingTypes /\ Queued /\ Sessions /\ [B!Next]_B!vars => Queued'
<1> SUFFICES ASSUME BookingTypes, Queued, Sessions, [B!Next]_B!vars PROVE Queued'
  OBVIOUS
<1>0. backlog \in Seq(Clients)
  BY DEF BookingTypes, NetTypes
<1>k. ASSUME UNCHANGED backlog,
             \A c \in Range(backlog) : /\ client'[c] \in {client[c], "killed"}
                                       /\ conn'[c] = conn[c],
             \A c \in Clients : client'[c] = "new" => client[c] = "new" /\ conn'[c] = conn[c]
      PROVE  Queued'
  BY <1>k DEF Queued, Range
<1>1. ASSUME NEW c \in Clients, ClientStep(c) PROVE Queued'
  <2>0. \A d \in Clients : d # c => client'[d] = client[d] /\ conn'[d] = conn[d]
    BY <1>1, OthersKept
  <2>n. client'[c] # "new"
    BY <1>1, ConnectFacts, GreetedFacts, SendLineFacts, ReceiveFacts, CloseFacts, KillFacts
       DEF ClientStep
  <2>1. CASE B!Connect(c)
    <3>1. /\ client[c] = "new" /\ client'[c] = "greet" /\ backlog' = Append(backlog, c)
          /\ conn' = conn
      BY <2>1, ConnectFacts
    <3>2. \A n \in DOMAIN backlog : backlog[n] # c
      BY <3>1 DEF Queued
    <3>3. conn[c] = "open"
      BY <3>1 DEF Queued
    <3> QED BY <1>0, <2>0, <2>n, <3>1, <3>2, <3>3, AppendType DEF Queued
  <2>2. CASE ~ B!Connect(c)
    <3>1. UNCHANGED backlog
      BY <1>1, <2>2, GreetedFacts, SendLineFacts, ReceiveFacts, CloseFacts, KillFacts
         DEF ClientStep
    <3>2. ASSUME c \in Range(backlog) PROVE client'[c] = "killed" /\ conn'[c] = conn[c]
      <4>1. client[c] \in {"greet", "killed"} /\ conn[c] = "open"
        BY <3>2 DEF Queued, Range
      <4>2. ~ B!Greeted(c)
        <5>1. client[c] = "greet" => down[c] = <<>>
          BY <3>2, <4>1 DEF Sessions, Going, Session
        <5> QED BY <4>1, <5>1, GreetedFacts
      <4> QED BY <1>1, <2>2, <4>1, <4>2, SendLineFacts, ReceiveFacts, CloseFacts, KillFacts
              DEF ClientStep
    <3>3. Range(backlog) \subseteq Clients
      BY <1>0 DEF Range
    <3> QED BY <1>k, <2>0, <2>n, <3>1, <3>2, <3>3
  <2> QED BY <2>1, <2>2
<1>2. CASE LoopStep
  <2>1. UNCHANGED <<client, conn>>
    BY <1>2, LoopFrame
  <2>2. CASE B!Accept
    <3>1. backlog' = Tail(backlog) /\ backlog # <<>>
      BY <2>2, AcceptFacts
    <3>2. \A n \in DOMAIN backlog' : n + 1 \in DOMAIN backlog /\ backlog'[n] = backlog[n + 1]
      BY <1>0, <3>1
    <3>3. DOMAIN backlog' \subseteq Nat
      BY <1>0, <3>1
    <3> QED BY <2>1, <3>2, <3>3 DEF Queued
  <2>3. CASE ~ B!Accept
    <3>1. UNCHANGED backlog
      BY <1>2, <2>3 DEF LoopStep, B!Select, B!ScanEnds, B!RecvRequest, B!RecvEnd,
         B!RecvFails, B!netVars
    <3> QED BY <1>k, <2>1, <3>1
  <2> QED BY <2>2, <2>3
<1>3. CASE BookStep
  BY <1>3, <1>k, BookFrame
<1>4. CASE EndStep
  <2>1. \A c \in Range(backlog) : c \in Clients
    BY <1>0 DEF Range
  <2> QED BY <1>4, <1>k, <2>1, EndDies, DieFacts
<1>5. CASE B!Interrupt
  <2>1. backlog' = <<>>
    BY <1>5, InterruptFacts
  <2>2. \A c \in Clients : client'[c] = "new" => client[c] = "new" /\ conn'[c] = conn[c]
    BY <1>5, InterruptFacts
  <2> QED BY <2>1, <2>2 DEF Queued
<1>6. CASE B!Start
  BY <1>6, <1>k DEF B!Start, B!clientVars, B!netVars
<1>7. CASE UNCHANGED B!vars
  BY <1>7, <1>k DEF B!vars, B!clientVars, B!netVars
<1> QED BY <1>1, <1>2, <1>3, <1>4, <1>5, <1>6, <1>7, Steps

-----------------------------------------------------------------------------
(* The table and the request that is being served.                         *)

LEMMA InitTable == B!Init => Owned /\ Measured /\ Table
<1> SUFFICES ASSUME B!Init PROVE Owned /\ Measured /\ Table
  OBVIOUS
<1>1. /\ flag = [b \in Berths |-> 1] /\ told = [b \in Berths |-> 0] /\ given = <<>>
      /\ server = "select"
  BY DEF B!Init, B!AllFree
<1>2. Owned
  BY <1>1 DEF Owned
<1>3. Measured
  BY <1>1 DEF Measured, Busy
<1>4. Table
  <2>1. Marked = {}
    BY <1>1 DEF Marked
  <2> QED BY <1>1, <2>1 DEF Table, Clean, Busy
<1> QED BY <1>2, <1>3, <1>4

\* Nothing else than the steps of a request changes the table.
LEMMA TableFrame ==
  ASSUME BookingTypes, Measured,
         (\E c \in Clients : ClientStep(c)) \/ LoopStep \/ B!Start \/ UNCHANGED B!vars
  PROVE  /\ UNCHANGED <<flag, told, given, coach, stray>>
         /\ upset => upset'
         /\ \/ UNCHANGED <<server, line>>
            \/ server \notin Busy /\ given = <<>>
               /\ (server' \notin Busy \/ server' = "count")
<1>1. CASE \E c \in Clients : ClientStep(c)
  BY <1>1, ClientFrame, KillFacts
<1>2. CASE LoopStep
  <2>1. UNCHANGED <<flag, told, given, coach, stray, upset>>
    BY <1>2, LoopFrame
  <2>2. server \notin Busy /\ (server' \notin Busy \/ server' = "count")
    BY <1>2, TurnFacts DEF LoopStep, B!Select, B!Accept, B!ScanEnds, B!RecvRequest,
       B!RecvEnd, B!RecvFails, B!netVars, Busy
  <2> QED BY <2>1, <2>2 DEF Measured
<1>3. CASE B!Start
  BY <1>3 DEF B!Start, B!bookVars, Measured, Busy
<1>4. CASE UNCHANGED B!vars
  BY <1>4 DEF B!vars, B!bookVars, B!serverVars, B!history
<1> QED BY <1>1, <1>2, <1>3, <1>4

LEMMA NextMeasured ==
  BookingTypes /\ Measured /\ [B!Next]_B!vars => Measured'
<1> SUFFICES ASSUME BookingTypes, Measured, [B!Next]_B!vars PROVE Measured'
  OBVIOUS
<1>0. given \in Seq(Berths) /\ (server \in Busy => line \in Lines)
  BY DEF BookingTypes, ServerTypes, TableTypes
<1>1. CASE (\E c \in Clients : ClientStep(c)) \/ LoopStep \/ B!Start \/ UNCHANGED B!vars
  BY <1>1, TableFrame DEF Measured, Busy
<1>2. CASE EndStep \/ B!Interrupt
  BY <1>2, EndDies, DieFacts, InterruptFacts DEF Measured, Busy
<1>3. CASE BookStep
  <2>0. line' = line /\ line.qty \in 1 .. 9 /\ Len(given) \in Nat
    BY <1>0, <1>3, BookFrame, LinesFacts
  <2>1. CASE B!Count
    BY <2>0, <2>1, CountFacts DEF Measured, Busy
  <2>2. CASE B!Take
    BY <2>0, <2>2, TakeFacts DEF Measured, Busy
  <2>3. CASE B!Look
    <3>1. Len(given') = Len(given) + 1 /\ Len(given) < line.qty /\ server' = "settle"
      BY <1>0, <2>3, LookFacts, AppendType DEF Measured
    <3> QED BY <2>0, <3>1 DEF Measured, Busy
  <2>4. CASE B!Settle
    BY <2>0, <2>4, SettleFacts DEF Measured, Busy
  <2>5. CASE B!Write
    BY <2>0, <2>5, WriteFacts DEF Measured, Busy
  <2> QED BY <1>3, <2>1, <2>2, <2>3, <2>4, <2>5 DEF BookStep
<1> QED BY <1>1, <1>2, <1>3, Steps

\* A berth is in an answer once.
LEMMA GivenOnce ==
  ASSUME BookingTypes, Owned, NEW b
  PROVE  Cardinality({n \in DOMAIN given : given[n] = b})
           = IF b \in Range(given) THEN 1 ELSE 0
<1>1. CASE b \in Range(given)
  <2>1. PICK n \in DOMAIN given : given[n] = b
    BY <1>1 DEF Range
  <2>2. {m \in DOMAIN given : given[m] = b} = {n}
    BY <2>1 DEF Owned
  <2> QED BY <1>1, <2>2, FS_Singleton
<1>2. CASE b \notin Range(given)
  <2>1. {m \in DOMAIN given : given[m] = b} = {}
    BY <1>2 DEF Range
  <2> QED BY <1>2, <2>1, FS_EmptySet
<1> QED BY <1>1, <1>2

LEMMA BookOwned ==
  ASSUME BookingTypes, Remembered, Owned, Measured, Table, Sessions, BookStep
  PROVE  Owned'
<1>0. /\ given \in Seq(Berths) /\ flag \in [Berths -> {1, 2, 3}]
      /\ told \in [Berths -> Nat] /\ Len(given) \in Nat /\ DOMAIN given = 1 .. Len(given)
      /\ \A n \in DOMAIN given : given[n] \in Berths
  BY DEF BookingTypes, TableTypes
<1>f. upset' = upset /\ (~ B!Write => told' = told)
  BY BookFrame
<1>1. CASE B!Count
  <2>1. server = "count" /\ given' = <<>> /\ flag' = flag /\ told' = told
    BY <1>1, <1>f, CountFacts DEF B!Write
  <2>2. given = <<>>
    BY <2>1 DEF Measured
  <2> QED BY <1>f, <2>1, <2>2 DEF Owned
<1>2. CASE B!Take
  <2>1. server = "take" /\ server' = "look" /\ given' = given /\ told' = told
    BY <1>2, <1>f, TakeFacts DEF B!Write
  <2>2. PICK b \in Berths : flag[b] = 1 /\ flag' = [flag EXCEPT ![b] = 3]
    BY <1>2, TakeFacts
  <2>3. \A n \in DOMAIN given : given[n] # b
    BY <2>1, <2>2 DEF Owned
  <2> QED BY <1>0, <1>f, <2>1, <2>2, <2>3 DEF Owned
<1>3. CASE B!Look
  <2>1. server = "look" /\ server' = "settle" /\ flag' = flag /\ told' = told
    BY <1>3, <1>f, LookFacts DEF B!Write
  <2>2. PICK b \in Berths : flag[b] = 3 /\ given' = Append(given, b)
    BY <1>3, LookFacts
  <2>3. (\A n \in DOMAIN given : given[n] # b /\ flag[given[n]] = 2) /\ told[b] = 0
    BY <2>1, <2>2 DEF Owned
  <2>4. /\ Len(given') = Len(given) + 1 /\ given'[Len(given) + 1] = b
        /\ \A n \in DOMAIN given : given'[n] = given[n]
        /\ DOMAIN given' = DOMAIN given \cup {Len(given) + 1}
        /\ Len(given) + 1 \notin DOMAIN given
    BY <1>0, <2>2, AppendType
  <2>5. \A x \in Range(given) : x \in Range(given')
    BY <2>4 DEF Range
  <2>6. \A m, n \in DOMAIN given' : given'[m] = given'[n] => m = n
    BY <2>3, <2>4 DEF Owned
  <2>7. \A n \in DOMAIN given' : told[given'[n]] = 0
           /\ flag[given'[n]] = IF n = Len(given') THEN 3 ELSE 2
    BY <2>2, <2>3, <2>4 DEF Owned
  <2> QED BY <1>f, <2>1, <2>5, <2>6, <2>7 DEF Owned
<1>4. CASE B!Settle
  <2>1. /\ server = "settle" /\ server' # "settle" /\ given' = given /\ told' = told
        /\ flag' = [b \in Berths |-> IF flag[b] = 3 THEN 2 ELSE flag[b]]
    BY <1>4, <1>f, SettleFacts DEF B!Write
  <2>2. \A n \in DOMAIN given : told[given[n]] = 0 /\ flag'[given[n]] = 2
    BY <1>0, <2>1 DEF Owned
  <2>3. \A b \in Berths : told[b] = 0 \/ (told[b] = 1 /\ flag'[b] = 2)
    BY <2>1 DEF Owned
  <2>4. ASSUME ~ upset, NEW b \in Berths, flag'[b] = 2
        PROVE  told[b] = 1 \/ b \in Range(given)
    <3>1. CASE flag[b] = 3
      <4>1. Marked = {given[Len(given)]}
        BY <2>1, <2>4 DEF Remembered, Table, Clean
      <4>2. b = given[Len(given)] /\ Len(given) \in DOMAIN given
        BY <1>0, <2>1, <3>1, <4>1 DEF Marked, Measured
      <4> QED BY <4>2 DEF Range
    <3>2. CASE flag[b] = 2
      BY <2>4, <3>2 DEF Owned
    <3> QED BY <1>0, <2>1, <2>4, <3>1, <3>2
  <2> QED BY <1>f, <2>1, <2>2, <2>3, <2>4 DEF Owned
<1>5. CASE B!Write
  <2>1. server = "write" /\ server' = "scan" /\ given' = <<>> /\ flag' = flag
    BY <1>5, WriteFacts
  <2>2. CASE client[serving] \in {"done", "killed"} /\ told' = told
    <3>1. upset
      <4>1. serving \in Clients
        BY <2>1 DEF BookingTypes, ServerTypes, Busy
      <4>2. SUFFICES ASSUME ~ upset PROVE FALSE
        OBVIOUS
      <4>3. conn[serving] = "open"
        BY <2>1, <4>1, <4>2 DEF Remembered
      <4>4. client[serving] # "killed"
        BY <4>1, <4>2, <4>3 DEF Remembered
      <4> QED BY <2>2, <4>1, <4>3, <4>4 DEF Sessions, Going, Session
    <3> QED BY <1>f, <2>1, <2>2, <3>1 DEF Owned
  <2>3. CASE told' = [b \in Berths |->
               told[b] + Cardinality({n \in DOMAIN given : given[n] = b})]
    <3>1. ASSUME NEW b \in Berths
          PROVE  told'[b] = IF b \in Range(given) THEN 1 ELSE told[b]
      <4>1. told'[b] = told[b] + (IF b \in Range(given) THEN 1 ELSE 0)
        BY <2>3, GivenOnce
      <4>2. b \in Range(given) => told[b] = 0
        BY DEF Owned, Range
      <4> QED BY <1>0, <4>1, <4>2
    <3>2. \A b \in Range(given) : flag[b] = 2
      BY <2>1 DEF Owned, Range
    <3>3. \A b \in Berths : told'[b] = 0 \/ (told'[b] = 1 /\ flag[b] = 2)
      BY <3>1, <3>2 DEF Owned
    <3>4. ~ upset => \A b \in Berths : flag[b] = 2 => told'[b] = 1
      BY <3>1 DEF Owned
    <3> QED BY <1>f, <2>1, <3>3, <3>4 DEF Owned
  <2> QED BY <1>5, <2>2, <2>3, WriteFacts
<1> QED BY <1>1, <1>2, <1>3, <1>4, <1>5 DEF BookStep

LEMMA NextOwned ==
  BookingTypes /\ Remembered /\ Owned /\ Measured /\ Table /\ Sessions
    /\ [B!Next]_B!vars => Owned'
<1> SUFFICES ASSUME BookingTypes, Remembered, Owned, Measured, Table, Sessions,
                    [B!Next]_B!vars
             PROVE  Owned'
  OBVIOUS
<1>1. CASE (\E c \in Clients : ClientStep(c)) \/ LoopStep \/ B!Start \/ UNCHANGED B!vars
  BY <1>1, TableFrame DEF Owned
<1>2. CASE EndStep
  <2>1. /\ UNCHANGED <<flag, told, upset>> /\ given' = <<>>
    BY <1>2, EndDies, DieFacts
  <2>2. upset \/ given = <<>>
    <3>1. CASE B!WriteFails
      BY <3>1 DEF B!WriteFails, Remembered
    <3>2. CASE B!RecvFailsOtherwise \/ B!NoConnection
      BY <3>2 DEF B!RecvFailsOtherwise, B!NoConnection, Measured, Busy
    <3> QED BY <1>2, <3>1, <3>2 DEF EndStep
  <2> QED BY <2>1, <2>2 DEF Owned
<1>3. CASE B!Interrupt
  BY <1>3, InterruptFacts DEF Owned
<1> QED BY <1>1, <1>2, <1>3, BookOwned, Steps

LEMMA EmptyRange == Range(<<>>) = {}
BY DEF Range

LEMMA AppendRange ==
  ASSUME NEW S, NEW s \in Seq(S), NEW x \in S
  PROVE  Range(Append(s, x)) = Range(s) \cup {x}
<1>1. /\ DOMAIN Append(s, x) = DOMAIN s \cup {Len(s) + 1}
      /\ Append(s, x)[Len(s) + 1] = x
      /\ \A n \in DOMAIN s : Append(s, x)[n] = s[n]
  BY AppendType
<1> QED BY <1>1 DEF Range

LEMMA BookTable ==
  ASSUME BookingTypes, Measured, Owned, Table, BookStep, ~ stray
  PROVE  Clean' /\ (server' \in Busy => Fits')
<1>0. /\ given \in Seq(Berths) /\ flag \in [Berths -> {1, 2, 3}] /\ Len(given) \in Nat
      /\ DOMAIN given = 1 .. Len(given) /\ coach \in Coaches \cup {NoCoach}
      /\ line \in Lines /\ line.qty \in 1 .. 9
  BY BookFrame, LinesFacts DEF BookingTypes, TableTypes, ServerTypes
<1>f. line' = line /\ server \in Busy
  BY BookFrame
<1>t. Clean /\ Fits
  BY <1>f DEF Table
<1>1. CASE B!Count
  <2> DEFINE free == OfType(Free(line.train), line.type)
  <2>1. /\ server = "count" /\ given' = <<>> /\ flag' = flag
        /\ \/ server' = "take" /\ coach' = NoCoach /\ Roomy(free, line.qty) = {}
           \/ server' = "take" /\ coach' \in Coaches
           \/ /\ server' = "write" /\ coach' = NoCoach
              /\ ~ (Cardinality(free) >= line.qty)
    BY <1>1, CountFacts
  <2>2. Marked = {} /\ Marked' = {}
    BY <1>t, <2>1 DEF Clean, Marked
  <2>3. Free(line.train)' = Free(line.train)
    BY <1>f, <2>1 DEF Free
  <2>4. Had' = Free(line.train)
    BY <2>1, <2>2, <2>3, EmptyRange DEF Had
  <2>5. Cardinality(free) \in Nat
    <3>1. IsFiniteSet(Berths) /\ free \subseteq Berths
      BY BookingAssumption DEF BookingAssumption, OfType, Free
    <3> QED BY <3>1, FS_Subset, FS_CardinalityType
  <2>6. \A k \in Coaches : k # NoCoach
    BY BookingAssumption DEF BookingAssumption, Coaches
  <2>7. Clean'
    BY <2>1, <2>2 DEF Clean
  <2>8. Range(given') \cup Marked' = {}
    BY <2>1, <2>2, EmptyRange
  <2>9. Short' <=> Roomy(free, line.qty) = {}
    BY <1>f, <2>4 DEF Short, OfType, Roomy, InCoach, Coaches
  <2>10. OfType(Free(line.train), line.type)' = free
    BY <1>f, <2>3 DEF OfType
  <2>11. server' = "write" => Cardinality(free) < line.qty
    <3> HIDE DEF free
    <3> QED BY <1>0, <2>1, <2>5
  <2>12. (server' \in {"take", "look", "settle"} /\ coach' = NoCoach) => Roomy(free, line.qty) = {}
    <3> HIDE DEF free
    <3> QED BY <2>1, <2>6
  <2> HIDE DEF free
  <2> QED BY <1>f, <2>1, <2>7, <2>8, <2>9, <2>10, <2>11, <2>12 DEF Fits
<1>2. CASE B!Take
  <2>1. server = "take" /\ server' = "look" /\ given' = given /\ coach' = coach
    BY <1>2, TakeFacts
  <2>2. PICK b \in Berths : /\ flag[b] = 1 /\ Train[b] = line.train
                            /\ coach # NoCoach => Coach[b] = coach
                            /\ flag' = [flag EXCEPT ![b] = 3]
    BY <1>2, TakeFacts
  <2>3. Marked = {} /\ Marked' = {b}
    BY <1>0, <1>t, <2>1, <2>2 DEF Clean, Marked
  <2>4. Free(line.train)' = Free(line.train) \ {b} /\ b \in Free(line.train)
    BY <1>0, <1>f, <2>2 DEF Free
  <2>5. Had' = Had
    BY <2>1, <2>3, <2>4 DEF Had
  <2>6. Short' <=> Short
    BY <1>f, <2>5 DEF Short, OfType, Roomy, InCoach, Coaches
  <2>7. \A x \in Range(given') \cup Marked' :
          Train[x] = line'.train /\ (coach' # NoCoach => Coach[x] = coach')
    BY <1>f, <1>t, <2>1, <2>2, <2>3 DEF Fits
  <2> QED BY <1>t, <2>1, <2>3, <2>6, <2>7 DEF Clean, Fits
<1>3. CASE B!Look
  <2>1. server = "look" /\ server' = "settle" /\ flag' = flag /\ coach' = coach
    BY <1>3, LookFacts
  <2>2. PICK b \in Berths : flag[b] = 3 /\ given' = Append(given, b)
    BY <1>3, LookFacts
  <2>3. Marked = {b} /\ Marked' = {b}
    BY <1>t, <2>1, <2>2 DEF Clean, Marked
  <2>4. Range(given') = Range(given) \cup {b} /\ given'[Len(given')] = b
    BY <1>0, <2>2, AppendRange, AppendType
  <2>5. Free(line.train)' = Free(line.train)
    BY <1>f, <2>1 DEF Free
  <2>6. Had' = Had
    BY <2>3, <2>4, <2>5 DEF Had
  <2>7. Short' <=> Short
    BY <1>f, <2>6 DEF Short, OfType, Roomy, InCoach, Coaches
  <2>8. \A x \in Range(given') \cup Marked' :
          Train[x] = line'.train /\ (coach' # NoCoach => Coach[x] = coach')
    BY <1>f, <1>t, <2>1, <2>3, <2>4 DEF Fits
  <2> QED BY <1>t, <2>1, <2>3, <2>4, <2>7, <2>8 DEF Clean, Fits
<1>4. CASE B!Settle
  <2>1. /\ server = "settle" /\ given' = given /\ coach' = coach
        /\ flag' = [b \in Berths |-> IF flag[b] = 3 THEN 2 ELSE flag[b]]
        /\ server' \in {"take", "write"}
    BY <1>4, SettleFacts
  <2>2. Marked' = {}
    BY <1>0, <2>1 DEF Marked
  <2>3. given # <<>> /\ Marked \subseteq Range(given)
    <3>1. Len(given) \in DOMAIN given
      BY <1>0, <2>1 DEF Measured
    <3> QED BY <1>t, <2>1, <3>1 DEF Clean, Range
  <2>4. Free(line.train)' = Free(line.train)
    BY <1>0, <1>f, <2>1 DEF Free
  <2>5. Had' = Had
    BY <2>1, <2>2, <2>3, <2>4 DEF Had
  <2>6. Short' <=> Short
    BY <1>f, <2>5 DEF Short, OfType, Roomy, InCoach, Coaches
  <2>7. \A x \in Range(given') \cup Marked' :
          Train[x] = line'.train /\ (coach' # NoCoach => Coach[x] = coach')
    BY <1>f, <1>t, <2>1, <2>2 DEF Fits
  <2> QED BY <1>t, <2>1, <2>2, <2>3, <2>6, <2>7 DEF Clean, Fits
<1>5. CASE B!Write
  <2>1. server = "write" /\ server' = "scan" /\ flag' = flag
    BY <1>5, WriteFacts
  <2>2. Marked' = {}
    BY <1>t, <2>1 DEF Clean, Marked
  <2> QED BY <2>1, <2>2 DEF Clean, Busy
<1> QED BY <1>1, <1>2, <1>3, <1>4, <1>5 DEF BookStep

LEMMA NextTable ==
  BookingTypes /\ Measured /\ Owned /\ Table /\ [B!Next]_B!vars => Table'
<1> SUFFICES ASSUME BookingTypes, Measured, Owned, Table, [B!Next]_B!vars, ~ stray'
             PROVE  Clean' /\ (server' \in Busy => Fits')
  BY DEF Table
<1>1. CASE (\E c \in Clients : ClientStep(c)) \/ LoopStep \/ B!Start \/ UNCHANGED B!vars
  <2>1. /\ UNCHANGED <<flag, told, given, coach, stray>>
        /\ \/ UNCHANGED <<server, line>>
           \/ server \notin Busy /\ given = <<>>
              /\ (server' \notin Busy \/ server' = "count")
    BY <1>1, TableFrame
  <2>2. Clean /\ (server \in Busy => Fits)
    BY <2>1 DEF Table
  <2>3. Marked' = Marked
    BY <2>1 DEF Marked
  <2>4. CASE UNCHANGED <<server, line>>
    <3>1. Had' = Had /\ (Short' <=> Short)
      BY <2>1, <2>3, <2>4 DEF Had, Free, Short, OfType, Roomy, InCoach, Coaches
    <3>2. OfType(Free(line.train), line.type)' = OfType(Free(line.train), line.type)
      BY <2>1, <2>4 DEF OfType, Free
    <3> QED BY <2>1, <2>2, <2>3, <2>4, <3>1, <3>2 DEF Clean, Fits
  <2>5. CASE server \notin Busy /\ given = <<>> /\ (server' \notin Busy \/ server' = "count")
    <3>1. Marked' = {} /\ Range(given') = {}
      BY <2>1, <2>2, <2>3, <2>5, EmptyRange DEF Clean, Busy
    <3> QED BY <2>5, <3>1 DEF Clean, Fits, Busy
  <2> QED BY <2>1, <2>4, <2>5
<1>2. CASE EndStep
  <2>1. UNCHANGED <<flag, stray>> /\ server' = "dead"
    BY <1>2, EndDies, DieFacts
  <2>2. server \notin {"look", "settle"}
    BY <1>2 DEF EndStep, B!RecvFailsOtherwise, B!NoConnection, B!WriteFails
  <2>3. Marked' = {}
    BY <2>1, <2>2 DEF Table, Clean, Marked
  <2> QED BY <2>1, <2>3 DEF Clean, Busy
<1>3. CASE B!Interrupt
  <2>1. flag' = flag /\ server' = "none" /\ Marked = {}
    BY <1>3, InterruptFacts
  <2> QED BY <2>1 DEF Clean, Marked, Busy
<1>4. CASE BookStep
  <2>1. stray' = stray
    BY <1>4, BookFrame
  <2> QED BY <1>4, <2>1, BookTable
<1> QED BY <1>1, <1>2, <1>3, <1>4, Steps

-----------------------------------------------------------------------------
(* A client and the server in turn.                                        *)

LEMMA InitSessions == B!Init => Sessions
<1> SUFFICES ASSUME B!Init, NEW c \in Clients PROVE Going(c)
  BY DEF Sessions
<1>1. /\ client[c] = "new" /\ sent[c] = <<>> /\ file[c] = <<>> /\ up[c] = <<>>
      /\ down[c] = <<>> /\ serving # c
  BY LinesFacts DEF B!Init
<1>2. Len(file[c]) <= Len(sent[c]) /\ DOMAIN file[c] = {}
  BY <1>1
<1> QED BY <1>1, <1>2 DEF Going, Session

LEMMA GoingKept ==
  ASSUME NEW c \in Clients, Going(c), stray => stray',
         conn'[c] = "open" =>
           /\ conn[c] = "open" /\ client'[c] = client[c] /\ sent'[c] = sent[c]
           /\ file'[c] = file[c]
           /\ client[c] # "killed" =>
                /\ up'[c] = up[c] /\ down'[c] = down[c]
                /\ c \in Range(backlog') <=> c \in Range(backlog)
                /\ serving' = c <=> serving = c
                /\ serving = c => line' = line
  PROVE  Going(c)'
<1> SUFFICES ASSUME conn'[c] = "open" PROVE Going(c)'
  BY DEF Going
<1>1. \A a, r : Replied(a, r)' <=> Replied(a, r)
  BY DEF Replied
<1>2. B!Welcome' = B!Welcome
  BY DEF B!Welcome, B!Answer
<1>3. client[c] # "killed" /\ Session(c) => Session(c)'
  BY <1>1, <1>2 DEF Session
<1> QED BY <1>1, <1>3 DEF Going

LEMMA OneElement ==
  ASSUME NEW S, NEW s \in Seq(S), Len(s) = 1
  PROVE  s # <<>> /\ Tail(s) = <<>> /\ Head(s) = s[1]
<1>1. s # <<>> /\ Head(s) = s[1]
  OBVIOUS
<1>2. Tail(s) \in Seq(S) /\ Len(Tail(s)) = 0
  BY <1>1, TailType
<1> QED BY <1>1, <1>2, EmptySeq

LEMMA AppendEmpty ==
  ASSUME NEW x
  PROVE  /\ Append(<<>>, x) = <<x>> /\ Len(<<x>>) = 1 /\ <<x>>[1] = x /\ Tail(<<x>>) = <<>>
         /\ <<x>> # <<>> /\ Head(<<x>>) = x
OBVIOUS

\* The step of client c itself.
LEMMA OwnStep ==
  ASSUME BookingTypes, Queued, Sessions, NEW c \in Clients, ClientStep(c)
  PROVE  Going(c)'
<1> SUFFICES ASSUME conn'[c] = "open" PROVE Going(c)'
  BY DEF Going
<1>0. /\ sent[c] \in Seq(Lines) /\ file[c] \in Seq(Replies) /\ up[c] \in Seq(Lines)
      /\ down[c] \in Seq(Replies) /\ backlog \in Seq(Clients)
      /\ Len(sent[c]) \in Nat /\ Len(file[c]) \in Nat
  BY DEF BookingTypes, ClientTypes, NetTypes
<1>f. UNCHANGED <<serving, line, stray>> /\ Going(c)
  BY ClientFrame DEF Sessions
<1>r. \A a, r : Replied(a, r)' <=> Replied(a, r)
  BY DEF Replied
<1>1. CASE B!Connect(c)
  <2>1. /\ client[c] = "new" /\ client'[c] = "greet" /\ backlog' = Append(backlog, c)
        /\ UNCHANGED <<conn, sent, file, up, down>>
    BY <1>1, ConnectFacts
  <2>2. c \in Range(backlog')
    BY <1>0, <2>1, AppendRange
  <2>3. Session(c)
    BY <1>f, <2>1 DEF Going
  <2>4. Session(c)'
    BY <1>f, <2>1, <2>2, <2>3 DEF Session
  <2> QED BY <1>f, <1>r, <2>1, <2>4 DEF Going
<1>2. CASE B!Greeted(c)
  <2>1. /\ client[c] = "greet" /\ client'[c] = "idle" /\ conn[c] = "open"
        /\ UNCHANGED <<sent, file, up, backlog>>
        /\ down[c] # <<>> /\ down'[c] = Tail(down[c])
    BY <1>2, GreetedFacts
  <2>2. Session(c)
    BY <1>f, <2>1 DEF Going
  <2>3. down'[c] = <<>>
    BY <2>1, <2>2, AppendEmpty DEF Session
  <2>4. Session(c)'
    BY <1>f, <2>1, <2>2, <2>3 DEF Session
  <2> QED BY <1>f, <1>r, <2>1, <2>4 DEF Going
<1>3. CASE B!SendLine(c)
  <2>1. /\ client[c] = "idle" /\ UNCHANGED <<file, down, backlog>>
        /\ client'[c] = "waits" /\ conn[c] = "open"
    BY <1>3, SendLineFacts
  <2>2. PICK r \in Lines : sent'[c] = Append(sent[c], r) /\ up'[c] = Append(up[c], r)
    BY <1>3, <2>1, SendLineFacts
  <2>3. Session(c) /\ up[c] = <<>> /\ down[c] = <<>> /\ serving # c /\ Len(file[c]) = Len(sent[c])
    BY <1>f, <2>1 DEF Going, Session
  <2>4. /\ Len(sent'[c]) = Len(sent[c]) + 1 /\ sent'[c][Len(sent'[c])] = r
        /\ \A n \in DOMAIN sent[c] : sent'[c][n] = sent[c][n]
    BY <1>0, <2>2, AppendType
  <2>5. up'[c] = <<r>>
    BY <2>2, <2>3, AppendEmpty
  <2>6. Session(c)'
    BY <1>f, <2>1, <2>3, <2>4, <2>5 DEF Session
  <2>7. DOMAIN file[c] = DOMAIN sent[c]
    BY <1>0, <2>3
  <2>8. Len(file[c]) <= Len(sent'[c])
    BY <1>0, <2>3, <2>4
  <2> QED BY <1>f, <1>r, <2>1, <2>4, <2>6, <2>7, <2>8 DEF Going
<1>4. CASE B!Receive(c)
  <2>1. /\ client[c] = "waits" /\ client'[c] = "idle" /\ conn[c] = "open"
        /\ UNCHANGED <<sent, up, backlog>>
        /\ down[c] # <<>> /\ down'[c] = Tail(down[c])
        /\ file'[c] = Append(file[c], Head(down[c]))
    BY <1>4, ReceiveFacts
  <2>2. Session(c)
    BY <1>f, <2>1 DEF Going
  <2>3. /\ Len(sent[c]) = Len(file[c]) + 1 /\ up[c] = <<>> /\ serving # c
        /\ Len(down[c]) = 1
        /\ ~ stray => Replied(down[c][1], sent[c][Len(sent[c])])
    BY <2>1, <2>2 DEF Session
  <2>4. down'[c] = <<>> /\ Head(down[c]) = down[c][1] /\ Head(down[c]) \in Replies
    BY <1>0, <2>1, <2>3, OneElement, TailType
  <2>5. /\ Len(file'[c]) = Len(file[c]) + 1 /\ file'[c][Len(file[c]) + 1] = down[c][1]
        /\ \A n \in DOMAIN file[c] : file'[c][n] = file[c][n]
        /\ DOMAIN file'[c] = DOMAIN file[c] \cup {Len(file[c]) + 1}
    BY <1>0, <2>1, <2>4, AppendType
  <2>6. ~ stray => \A n \in DOMAIN file'[c] : Replied(file'[c][n], sent[c][n])
    BY <1>f, <2>1, <2>3, <2>5 DEF Going
  <2>7. Session(c)'
    BY <1>f, <2>1, <2>3, <2>4, <2>5 DEF Session
  <2>8. Len(file'[c]) <= Len(sent'[c])
    BY <1>0, <2>1, <2>3, <2>5
  <2> QED BY <1>f, <1>r, <2>1, <2>6, <2>7, <2>8 DEF Going
<1>5. CASE B!Close(c)
  <2>1. /\ client[c] = "idle" /\ client'[c] = "done"
        /\ UNCHANGED <<conn, sent, file, up, down, backlog>>
    BY <1>5, CloseFacts
  <2>2. Session(c)
    BY <1>f, <2>1 DEF Going
  <2>3. Session(c)'
    BY <1>f, <2>1, <2>2 DEF Session
  <2> QED BY <1>f, <1>r, <2>1, <2>3 DEF Going
<1>6. CASE B!Kill(c)
  <2>1. client'[c] = "killed" /\ UNCHANGED <<conn, sent, file>>
    BY <1>6, KillFacts
  <2> QED BY <1>f, <1>r, <2>1 DEF Going
<1> QED BY <1>1, <1>2, <1>3, <1>4, <1>5, <1>6 DEF ClientStep

LEMMA LoopSessions ==
  ASSUME BookingTypes, Remembered, Queued, Sessions, LoopStep
  PROVE  Sessions'
<1> SUFFICES ASSUME NEW d \in Clients PROVE Going(d)'
  BY DEF Sessions
<1>0. /\ up \in [Clients -> Seq(Lines)] /\ down[d] \in Seq(Replies) /\ Going(d)
      /\ NoClient \notin Clients
  BY LinesFacts DEF BookingTypes, NetTypes, Sessions
<1>f. UNCHANGED <<client, conn, sent, file, stray>>
  BY LoopFrame
<1>1. CASE B!Select \/ B!ScanEnds \/ \E i \in 1 .. MaxClients : B!RecvEnd(i)
  <2>1. UNCHANGED <<up, down, backlog, serving, line>>
    BY <1>1 DEF B!Select, B!ScanEnds, B!RecvEnd, B!netVars
  <2> QED BY <1>0, <1>f, <2>1, GoingKept
<1>2. CASE B!Accept
  <2>1. /\ UNCHANGED <<up, serving, line>> /\ Head(backlog) \in Range(backlog)
        /\ Range(backlog') = Range(backlog) \ {Head(backlog)}
        /\ d # Head(backlog) => down'[d] = down[d]
        /\ client[Head(backlog)] \notin {"done", "killed"} =>
              down'[Head(backlog)] = Append(down[Head(backlog)], B!Welcome)
    <3>1. backlog \in Seq(Clients) /\ backlog # <<>>
      BY <1>2, AcceptFacts DEF BookingTypes, NetTypes
    <3>2. Head(backlog) \in Range(backlog)
      BY <3>1 DEF Range
    <3> QED BY <1>2, <3>2, AcceptFacts
  <2>2. CASE d # Head(backlog)
    BY <1>0, <1>f, <2>1, <2>2, GoingKept
  <2>3. CASE d = Head(backlog) /\ client[d] = "killed"
    BY <1>0, <1>f, <2>1, <2>3, GoingKept
  <2>4. CASE d = Head(backlog) /\ client[d] # "killed"
    <3>1. client[d] = "greet" /\ conn[d] = "open"
      BY <2>1, <2>4 DEF Queued, Range
    <3>2. Session(d) /\ down[d] = <<>>
      BY <1>0, <2>1, <2>4, <3>1 DEF Going, Session
    <3>3. down'[d] = <<B!Welcome>> /\ d \notin Range(backlog')
      BY <2>1, <2>4, <3>1, <3>2, AppendEmpty
    <3>4. B!Welcome' = B!Welcome
      BY DEF B!Welcome, B!Answer
    <3>5. Session(d)'
      BY <1>f, <2>1, <3>1, <3>2, <3>3, <3>4 DEF Session
    <3>6. \A a, r : Replied(a, r)' <=> Replied(a, r)
      BY DEF Replied
    <3> QED BY <1>0, <1>f, <3>1, <3>5, <3>6 DEF Going
  <2> QED BY <2>2, <2>3, <2>4
<1>3. ASSUME NEW i \in 1 .. MaxClients, B!RecvRequest(i)
      PROVE  Going(d)'
  <2>1. /\ slots[i] \in Clients /\ serving = NoClient /\ serving' = slots[i]
        /\ up[slots[i]] # <<>> /\ line' = Head(up[slots[i]])
        /\ up' = [up EXCEPT ![slots[i]] = Tail(@)] /\ UNCHANGED <<down, backlog>>
    BY <1>3, TurnFacts DEF B!RecvRequest
  <2>2. CASE d # slots[i]
    <3>1. up'[d] = up[d] /\ serving # d /\ serving' # d
      BY <1>0, <2>1, <2>2
    <3> QED BY <1>0, <1>f, <2>1, <3>1, GoingKept
  <2>3. CASE d = slots[i] /\ client[d] = "killed"
    BY <1>0, <1>f, <2>3, GoingKept
  <2>4. CASE d = slots[i] /\ client[d] # "killed" /\ conn[d] = "open"
    <3>1. Session(d)
      BY <1>0, <2>4 DEF Going
    <3>2. client[d] = "waits"
      <4>1. client[d] \in {"new", "greet", "idle", "waits", "done"}
        BY <2>4 DEF BookingTypes, ClientTypes
      <4> QED BY <2>1, <2>4, <3>1, <4>1 DEF Session
    <3>3. /\ Len(sent[d]) = Len(file[d]) + 1
          /\ up[d] = <<sent[d][Len(sent[d])]>> /\ down[d] = <<>>
      BY <1>0, <2>1, <2>4, <3>1, <3>2 DEF Session
    <3>4. up'[d] = <<>> /\ line' = sent[d][Len(sent[d])]
      BY <1>0, <2>1, <2>4, <3>3, AppendEmpty
    <3>5. Session(d)'
      BY <1>f, <2>1, <2>4, <3>2, <3>3, <3>4 DEF Session
    <3>6. \A a, r : Replied(a, r)' <=> Replied(a, r)
      BY DEF Replied
    <3> QED BY <1>0, <1>f, <2>4, <3>5, <3>6 DEF Going
  <2>5. CASE conn[d] # "open"
    BY <1>f, <2>5 DEF Going
  <2> QED BY <2>2, <2>3, <2>4, <2>5
<1>4. ASSUME NEW i \in 1 .. MaxClients, B!RecvFails(i)
      PROVE  Going(d)'
  <2>1. /\ slots[i] \in Clients /\ serving = NoClient /\ serving' = slots[i]
        /\ peer[slots[i]] = "reset" /\ UNCHANGED <<up, down, backlog, line>>
    BY <1>4, TurnFacts DEF B!RecvFails, B!netVars
  <2>2. client[slots[i]] = "killed"
    BY <2>1 DEF Remembered
  <2>3. client[d] # "killed" => serving' # d /\ serving # d
    BY <1>0, <2>1, <2>2
  <2> QED BY <1>0, <1>f, <2>1, <2>3, GoingKept
<1> QED BY <1>1, <1>2, <1>3, <1>4 DEF LoopStep

LEMMA WriteSessions ==
  ASSUME BookingTypes, Measured, Table, Sessions, B!Write
  PROVE  Sessions'
<1> SUFFICES ASSUME NEW d \in Clients PROVE Going(d)'
  BY DEF Sessions
<1>0. /\ down \in [Clients -> Seq(Replies)] /\ serving \in Clients /\ Going(d)
      /\ NoClient \notin Clients /\ given \in Seq(Berths) /\ server = "write"
  BY WriteFacts, LinesFacts DEF BookingTypes, NetTypes, ServerTypes, TableTypes, Sessions, Busy
<1>f. UNCHANGED <<client, conn, sent, file, up, backlog, line, stray>>
  BY BookFrame DEF BookStep
<1> DEFINE a == IF given = <<>> THEN B!Answer("NA", <<>>) ELSE B!Answer("berths", given)
<1>1. /\ serving' = NoClient
      /\ \/ client[serving] \in {"done", "killed"} /\ down' = down
         \/ client[serving] \notin {"done", "killed"}
            /\ down' = [down EXCEPT ![serving] = Append(@, a)]
  BY WriteFacts
<1>2. ~ stray => Replied(a, line)
  <2>1. CASE given = <<>>
    BY <2>1 DEF Replied, B!Answer
  <2>2. CASE given # <<>>
    <3>1. Len(given) = line.qty
      <4>1. Len(given) # 0
        BY <1>0, <2>2, EmptySeq
      <4> QED BY <1>0, <4>1 DEF Measured
    <3>2. ~ stray => \A b \in Range(given) : Train[b] = line.train
      BY <1>0 DEF Table, Fits, Busy
    <3> QED BY <2>2, <3>1, <3>2 DEF Replied, B!Answer
  <2> QED BY <2>1, <2>2
<1> HIDE DEF a
<1>3. CASE d # serving
  <2>1. down'[d] = down[d] /\ serving' # d
    BY <1>0, <1>1, <1>3
  <2> QED BY <1>0, <1>3, <1>f, <2>1, GoingKept
<1>4. CASE client[d] = "killed"
  BY <1>0, <1>4, <1>f, GoingKept
<1>5. CASE conn[d] # "open"
  BY <1>f, <1>5 DEF Going
<1>6. CASE d = serving /\ client[d] # "killed" /\ conn[d] = "open"
  <2>1. Session(d)
    BY <1>0, <1>6 DEF Going
  <2>2. client[d] = "waits"
    <3>1. client[d] \in {"new", "greet", "idle", "waits", "done"}
      BY <1>6 DEF BookingTypes, ClientTypes
    <3> QED BY <1>6, <2>1, <3>1 DEF Session
  <2>3. /\ Len(sent[d]) = Len(file[d]) + 1 /\ up[d] = <<>> /\ down[d] = <<>>
        /\ line = sent[d][Len(sent[d])]
    BY <1>6, <2>1, <2>2 DEF Session
  <2>4. down'[d] = <<a>>
    BY <1>0, <1>1, <1>6, <2>2, <2>3, AppendEmpty
  <2>5. Len(down'[d]) = 1 /\ down'[d][1] = a
    BY <2>4, AppendEmpty
  <2>6. \A x, r : Replied(x, r)' <=> Replied(x, r)
    BY DEF Replied
  <2>7. serving' # d
    BY <1>0, <1>1
  <2>8. Session(d)'
    BY <1>f, <1>2, <2>2, <2>3, <2>5, <2>6, <2>7 DEF Session
  <2> QED BY <1>0, <1>f, <1>6, <2>6, <2>8 DEF Going
<1> QED BY <1>3, <1>4, <1>5, <1>6

LEMMA NextSessions ==
  BookingTypes /\ Remembered /\ Queued /\ Measured /\ Table /\ Sessions
    /\ [B!Next]_B!vars => Sessions'
<1> SUFFICES ASSUME BookingTypes, Remembered, Queued, Measured, Table, Sessions,
                    [B!Next]_B!vars
             PROVE  Sessions'
  OBVIOUS
<1>0. NoClient \notin Clients /\ backlog \in Seq(Clients)
  BY LinesFacts DEF BookingTypes, NetTypes
<1>1. ASSUME NEW c \in Clients, ClientStep(c) PROVE Sessions'
  <2> SUFFICES ASSUME NEW d \in Clients PROVE Going(d)'
    BY DEF Sessions
  <2>1. CASE d = c
    BY <1>1, <2>1, OwnStep
  <2>2. CASE d # c
    <3>1. UNCHANGED <<serving, line, stray>>
      BY <1>1, ClientFrame
    <3>2. backlog' = backlog \/ backlog' = Append(backlog, c)
      BY <1>1, ConnectFacts, GreetedFacts, SendLineFacts, ReceiveFacts, CloseFacts, KillFacts
         DEF ClientStep
    <3>3. d \in Range(backlog') <=> d \in Range(backlog)
      <4>1. Range(Append(backlog, c)) = Range(backlog) \cup {c}
        BY <1>0, AppendRange
      <4>2. CASE backlog' = Append(backlog, c)
        <5>1. Range(backlog') = Range(backlog) \cup {c}
          BY <4>1, <4>2
        <5> QED BY <2>2, <5>1
      <4>3. CASE backlog' = backlog
        BY <4>3
      <4> QED BY <3>2, <4>2, <4>3
    <3>4. Going(d)
      BY DEF Sessions
    <3> QED BY <1>1, <2>2, <3>1, <3>3, <3>4, OthersKept, GoingKept
  <2> QED BY <2>1, <2>2
<1>2. CASE BookStep
  <2>1. CASE ~ B!Write
    <3> SUFFICES ASSUME NEW d \in Clients PROVE Going(d)'
      BY DEF Sessions
    <3>1. /\ UNCHANGED <<client, conn, sent, file, up, down, backlog, serving, line, stray>>
          /\ Going(d)
      BY <1>2, <2>1, BookFrame DEF Sessions
    <3> QED BY <3>1, GoingKept
  <2> QED BY <2>1, WriteSessions
<1>3. CASE EndStep
  <2> SUFFICES ASSUME NEW d \in Clients, conn'[d] = "open" PROVE Going(d)'
    BY DEF Sessions, Going
  <2>1. /\ UNCHANGED <<client, sent, file, down, stray, backlog>> /\ serving' = NoClient
        /\ client[d] = "new" \/ d \in Range(backlog)
        /\ conn'[d] = conn[d] /\ up'[d] = up[d]
    BY <1>3, EndDies, DieFacts
  <2>2. Going(d) /\ conn[d] = "open" /\ serving' # d
    BY <1>0, <2>1 DEF Sessions
  <2>3. client[d] # "killed" => serving # d
    <3>1. client[d] \in {"new", "greet", "killed"}
      BY <2>1 DEF Queued, Range
    <3> QED BY <2>2, <3>1 DEF Going, Session
  <2> QED BY <2>1, <2>2, <2>3, GoingKept
<1>4. CASE B!Interrupt
  <2> SUFFICES ASSUME NEW d \in Clients, conn'[d] = "open" PROVE Going(d)'
    BY DEF Sessions, Going
  <2>1. /\ UNCHANGED <<client, sent, file, down>> /\ serving' = NoClient
        /\ client[d] = "new" /\ (stray => stray')
        /\ conn'[d] = conn[d] /\ up'[d] = up[d] /\ backlog' = <<>>
    BY <1>4, InterruptFacts
  <2>2. Going(d) /\ conn[d] = "open" /\ serving' # d
    BY <1>0, <2>1 DEF Sessions
  <2>3. serving # d
    <3>1. Session(d)
      BY <2>1, <2>2 DEF Going
    <3> QED BY <2>1, <3>1 DEF Session
  <2>4. d \notin Range(backlog)
    <3>1. \A n \in DOMAIN backlog : client[backlog[n]] # "new"
      BY DEF Queued
    <3> QED BY <2>1, <3>1 DEF Range
  <2>5. Range(backlog') = {}
    BY <2>1, EmptyRange
  <2> QED BY <2>1, <2>2, <2>3, <2>4, <2>5, GoingKept
<1>5. CASE B!Start \/ UNCHANGED B!vars
  <2> SUFFICES ASSUME NEW d \in Clients PROVE Going(d)'
    BY DEF Sessions
  <2>1. /\ UNCHANGED <<client, conn, sent, file, up, down, backlog, serving, line, stray>>
        /\ Going(d)
    BY <1>5 DEF B!Start, B!vars, B!clientVars, B!netVars, B!serverVars, B!history, Sessions
  <2> QED BY <2>1, GoingKept
<1> QED BY <1>1, <1>2, <1>3, <1>4, <1>5, LoopSessions, Steps

-----------------------------------------------------------------------------
(* Booking: the theorems.                                                  *)

\* A client that has not been cut off and the server take turns, the berths of
\* a request are marked, booked and told of one after the other, and all that
\* goes wrong without being noticed is remembered (server.c, client.c).
THEOREM BookingInvariant == B!Spec => []BookingInv
<1>1. B!Init => BookingInv
  BY InitTypes, InitRemembered, InitQueued, InitTable, InitSessions DEF BookingInv
<1>2. BookingInv /\ [B!Next]_B!vars => BookingInv'
  BY NextTypes, NextRemembered, NextQueued, NextOwned, NextMeasured, NextTable, NextSessions
     DEF BookingInv
<1> QED BY <1>1, <1>2, PTL DEF B!Spec

\* A berth is told to at most one passenger and is booked then, whatever has been
\* killed and restarted, and no berth is booked that nobody is told of unless
\* something was: of any number of clients, servers one after the other and
\* berths (the UPDATE and SELECT statements of server.c, which find the berth
\* that is being booked by its mark).
THEOREM BerthsAreOnce == B!Spec => []BerthsAddUp
<1>1. BookingInv => BerthsAddUp
  <2> SUFFICES ASSUME BookingInv, NEW b \in Berths
               PROVE  /\ told[b] <= 1
                      /\ told[b] = 1 => flag[b] = 2
                      /\ ~ upset /\ flag[b] = 2 => told[b] = 1 \/ Contains(given, b)
    BY DEF BerthsAddUp
  <2>1. /\ told[b] = 0 \/ (told[b] = 1 /\ flag[b] = 2)
        /\ ~ upset /\ flag[b] = 2 => told[b] = 1 \/ b \in Range(given)
    BY DEF BookingInv, Owned
  <2>2. b \in Range(given) => Contains(given, b)
    <3>1. given \in Seq(Berths)
      BY DEF BookingInv, BookingTypes, TableTypes
    <3> QED BY <3>1 DEF Range, Contains
  <2> QED BY <2>1, <2>2
<1> QED BY <1>1, BookingInvariant, PTL

\* What a client's file answers is what its lines asked for, all or nothing, and
\* the request being answered has its berths in one coach if one had room: unless
\* a server was stopped in the middle of a berth, whose mark the next one takes
\* for its own.
THEOREM AnswersAreAsAsked == B!Spec => []AsAsked
<1>1. BookingInv => AsAsked
  <2> SUFFICES ASSUME BookingInv, ~ stray PROVE AsAsked
    BY DEF AsAsked
  <2>1. ASSUME NEW c \in Clients, conn[c] = "open", NEW n \in DOMAIN file[c]
        PROVE  Replied(file[c][n], sent[c][n])
    BY <2>1 DEF BookingInv, Sessions, Going
  <2>2. ASSUME server = "write"
        PROVE  LET had == OfType(Free(line.train) \union Range(given), line.type)
               IN  IF given = <<>> THEN Cardinality(had) < line.qty
                   ELSE Together(Range(given)) \/ Roomy(had, line.qty) = {}
    <3>1. Marked = {} /\ Fits
      BY <2>2 DEF BookingInv, Table, Clean, Busy
    <3>2. CASE given = <<>>
      <4>1. Free(line.train) \union Range(given) = Free(line.train)
        BY <3>2, EmptyRange
      <4>2. Cardinality(OfType(Free(line.train), line.type)) < line.qty
        BY <2>2, <3>1, <3>2 DEF Fits
      <4> QED BY <3>2, <4>1, <4>2
    <3>3. CASE given # <<>> /\ coach = NoCoach
      <4>1. Short
        BY <2>2, <3>1, <3>3 DEF Fits
      <4>2. Had = Free(line.train) \union Range(given)
        BY <3>1 DEF Had
      <4> QED BY <3>3, <4>1, <4>2 DEF Short
    <3>4. CASE given # <<>> /\ coach # NoCoach
      <4>1. \A b \in Range(given) : Coach[b] = coach
        BY <3>1, <3>4 DEF Fits
      <4>2. coach \in Coaches
        BY <3>4 DEF BookingInv, BookingTypes, TableTypes
      <4>3. InCoach(Range(given), coach) = Range(given)
        BY <4>1 DEF InCoach
      <4> QED BY <3>4, <4>2, <4>3 DEF Together
    <3> QED BY <3>2, <3>3, <3>4
  <2> QED BY <2>1, <2>2 DEF AsAsked, Replied
<1> QED BY <1>1, BookingInvariant, PTL
-----------------------------------------------------------------------------
(* Nobody is forgotten: whose request is on its way is in client_socket,   *)
(* unless that was full when the client came.                              *)

\* The clients that a server has accepted.
Admitted == {c \in Clients : B!Accepted(c)}
Come == {c \in Clients : client[c] # "new"}
Full == Silent \in Range(slots) \/ Cardinality(Admitted) > MaxClients

Slotted ==
  /\ IsFiniteSet(Come)
  /\ \A i \in 1 .. MaxClients : slots[i] \in Clients => slots[i] \in Admitted
  /\ \A i, j \in 1 .. MaxClients : slots[i] \in Clients /\ slots[i] = slots[j] => i = j
  /\ \A c \in Admitted :
       conn[c] = "open" => /\ server \notin {"dead", "none"}
                           /\ peer[c] = "open" => c \in Range(slots) \/ Full
  /\ server = "none" => backlog = <<>>

\* A connection that has ended is noticed by a client that waits.
Noticed ==
  \A c \in Clients :
    /\ client[c] = "greet" => /\ conn[c] \in {"open", "closed", "reset"}
                              /\ conn[c] = "closed" => down[c] # <<>>
    /\ client[c] = "waits" => conn[c] # "broken"
    /\ client[c] \in {"new", "greet", "idle", "waits"} => peer[c] = "open"

LEMMA AdmittedIs ==
  ASSUME BookingTypes, NEW c \in Clients
  PROVE  /\ c \in Admitted <=> client[c] # "new" /\ c \notin Range(backlog)
         /\ B!Contains(backlog, c) <=> c \in Range(backlog)
<1>1. backlog \in Seq(Clients)
  BY DEF BookingTypes, NetTypes
<1>2. B!Contains(backlog, c) <=> c \in Range(backlog)
  BY <1>1 DEF B!Contains, Range
<1> QED BY <1>2 DEF Admitted, B!Accepted

\* The same after a step.
LEMMA AdmittedNext ==
  ASSUME BookingTypes', NEW c \in Clients
  PROVE  c \in Admitted' <=> client'[c] # "new" /\ c \notin Range(backlog')
<1>1. backlog' \in Seq(Clients)
  BY DEF BookingTypes, NetTypes
<1>2. B!Contains(backlog', c) <=> c \in Range(backlog')
  BY <1>1 DEF B!Contains, Range
<1> QED BY <1>2 DEF Admitted, B!Accepted

LEMMA AdmittedFinite ==
  ASSUME BookingTypes, Slotted
  PROVE  /\ Admitted \subseteq Come
         /\ IsFiniteSet(Admitted) /\ Cardinality(Admitted) \in Nat
<1>1. Admitted \subseteq Come
  BY DEF Admitted, Come, B!Accepted
<1> QED BY <1>1, FS_Subset, FS_CardinalityType DEF Slotted

\* Once a client has come it does not become new again.
LEMMA ComeFinite ==
  ASSUME BookingTypes, Slotted, [B!Next]_B!vars
  PROVE  IsFiniteSet(Come')
<1>0. IsFiniteSet(Come)
  BY DEF Slotted
<1>1. ASSUME NEW c \in Clients, ClientStep(c) PROVE IsFiniteSet(Come')
  <2>1. \A d \in Clients : d # c => client'[d] = client[d]
    BY <1>1, OthersKept
  <2>2. Come' \subseteq Come \cup {c}
    BY <2>1 DEF Come
  <2>3. IsFiniteSet(Come \cup {c})
    BY <1>0, FS_AddElement
  <2> QED BY <2>2, <2>3, FS_Subset
<1>2. CASE client' = client
  BY <1>0, <1>2 DEF Come
<1>3. (\E c \in Clients : ClientStep(c)) \/ client' = client
  BY Steps, LoopFrame, BookFrame, EndDies, DieFacts, InterruptFacts
     DEF B!Start, B!vars, B!clientVars
<1> QED BY <1>1, <1>2, <1>3

\* While slots only change by the step of a slot that is given up, who had one
\* has one, or it was full and still is.
LEMMA SlottedKept ==
  ASSUME BookingTypes, BookingTypes', Slotted, IsFiniteSet(Come'), Admitted' = Admitted,
         slots' = slots,
         \A c \in Admitted : /\ conn'[c] = "open" => conn[c] = "open"
                             /\ peer'[c] = "open" => peer[c] = "open",
         server' \in {"dead", "none"} => server = server',
         server' = "none" => backlog' = <<>>
  PROVE  Slotted'
<1>1. Full' <=> Full
  BY DEF Full, Range
<1>2. Range(slots') = Range(slots)
  OBVIOUS
<1> QED BY <1>1, <1>2 DEF Slotted

LEMMA EmptySlots ==
  ASSUME BookingTypes, IsFiniteSet(Come'), slots' = [i \in DOMAIN slots |-> NoClient],
         \A c \in Clients : c \in Admitted' => conn'[c] # "open",
         server' = "none" => backlog' = <<>>
  PROVE  Slotted'
<1>1. \A i \in 1 .. MaxClients : slots'[i] = NoClient
  BY DEF BookingTypes, ServerTypes
<1>2. \A c \in Admitted' : c \in Clients
  BY DEF Admitted
<1> QED BY <1>1, <1>2, LinesFacts DEF Slotted

LEMMA ClientSlotted ==
  ASSUME BookingTypes, BookingTypes', Queued, Slotted, NEW c \in Clients, ClientStep(c),
         IsFiniteSet(Come')
  PROVE  Slotted'
<1>0. UNCHANGED <<server, slots>>
  BY ClientFrame
<1>1. \A d \in Clients : d # c => /\ client'[d] = client[d] /\ conn'[d] = conn[d]
                                  /\ peer'[d] = peer[d]
  BY OthersKept
<1>2. /\ conn'[c] = "open" => conn[c] = "open"
      /\ client'[c] # "new"
  BY ConnectFacts, GreetedFacts, SendLineFacts, ReceiveFacts, CloseFacts, KillFacts
     DEF ClientStep
<1>3. peer'[c] = "open" => peer[c] = "open"
  <2>1. CASE B!Kill(c)
    BY <2>1 DEF B!Kill, BookingTypes, NetTypes
  <2> QED BY <2>1, ConnectFacts, GreetedFacts, SendLineFacts, ReceiveFacts, CloseFacts
          DEF ClientStep
<1>4. CASE B!Connect(c)
  <2>1. client[c] = "new" /\ backlog' = Append(backlog, c) /\ server # "none"
    BY <1>4, ConnectFacts DEF B!Connect
  <2>2. Range(backlog') = Range(backlog) \cup {c}
    <3>1. backlog \in Seq(Clients)
      BY DEF BookingTypes, NetTypes
    <3> QED BY <2>1, <3>1, AppendRange
  <2>3. \A d \in Clients : d \in Admitted' <=> d \in Admitted
    BY <1>1, <2>1, <2>2, AdmittedIs, AdmittedNext
  <2>4. Admitted' = Admitted
    BY <2>3 DEF Admitted
  <2>5. \A d \in Admitted : d \in Clients
    BY DEF Admitted
  <2> QED BY <1>0, <1>1, <1>2, <1>3, <2>1, <2>4, <2>5, SlottedKept
<1>5. CASE ~ B!Connect(c)
  <2>1. backlog' = backlog /\ client[c] # "new"
    BY <1>5, GreetedFacts, SendLineFacts, ReceiveFacts, CloseFacts, KillFacts DEF ClientStep
  <2>2. \A d \in Clients : d \in Admitted' <=> d \in Admitted
    BY <1>1, <1>2, <2>1, AdmittedIs, AdmittedNext
  <2>3. Admitted' = Admitted
    BY <2>2 DEF Admitted
  <2>4. \A d \in Admitted : d \in Clients
    BY DEF Admitted
  <2> QED BY <1>0, <1>1, <1>2, <1>3, <2>1, <2>3, <2>4, SlottedKept DEF Slotted
<1> QED BY <1>4, <1>5

\* Without an empty slot and a silent client, each slot has a client of its own.
LEMMA AllTaken ==
  ASSUME BookingTypes, Slotted, Silent \notin Range(slots),
         \A i \in 1 .. MaxClients : slots[i] # NoClient
  PROVE  MaxClients <= Cardinality(Admitted)
<1> DEFINE S == 1 .. MaxClients
           T == Admitted
<1>1. slots \in [S -> Clients \cup {NoClient, Silent}]
  BY DEF BookingTypes, ServerTypes
<1>2. \A i \in S : slots[i] \in Clients
  BY <1>1 DEF Range
<1>3. slots \in [S -> T]
  BY <1>1, <1>2 DEF Slotted
<1>4. \A i, j \in S : slots[i] = slots[j] => i = j
  BY <1>2 DEF Slotted
<1>5. IsFiniteSet(T)
  BY AdmittedFinite
<1>6. Cardinality(S) = MaxClients
  <2>1. MaxClients \in Nat \ {0}
    BY BookingAssumption DEF BookingAssumption
  <2>2. 1 \in Int /\ MaxClients \in Int /\ ~ (1 > MaxClients) /\ MaxClients - 1 + 1 = MaxClients
    BY <2>1
  <2> QED BY <2>2, FS_Interval
<1> HIDE DEF S, T
<1>7. slots \in Injection(S, T)
  BY <1>3, <1>4 DEF Injection, IsInjective
<1>8. Cardinality(S) <= Cardinality(T)
  BY <1>5, <1>7, FS_Injection
<1> QED BY <1>6, <1>8 DEF T

\* A set of natural numbers that is not empty has a least element.
LEMMA LeastNumber ==
  ASSUME NEW T, T \subseteq Nat, T # {}
  PROVE  \E x \in T : \A y \in T : x <= y
<1> DEFINE R == OpToRel(<, Nat)
<1>1. IsWellFoundedOn(R, Nat)
  BY NatLessThanWellFounded
<1> HIDE DEF R
<1>2. PICK x \in T : \A y \in T : <<y, x>> \notin R
  BY <1>1, WFMin
<1>3. \A y \in T : ~ (y < x)
  BY <1>2 DEF R, OpToRel
<1> QED BY <1>3

LEMMA AcceptSlotted ==
  ASSUME BookingTypes, BookingTypes', Queued, Slotted, B!Accept, IsFiniteSet(Come')
  PROVE  Slotted'
<1> DEFINE c == Head(backlog)
           empty == {i \in DOMAIN slots : slots[i] = NoClient}
<1>1. /\ c \in Clients /\ backlog # <<>> /\ Range(backlog') = Range(backlog) \ {c}
      /\ server' = "scan" /\ UNCHANGED <<client, conn, peer>>
  BY AcceptFacts DEF B!Accept, B!clientVars
<1>2. c \in Range(backlog) /\ client[c] # "new"
  <2>1. backlog \in Seq(Clients)
    BY DEF BookingTypes, NetTypes
  <2>2. 1 \in DOMAIN backlog /\ c = backlog[1]
    BY <1>1, <2>1
  <2> QED BY <2>2 DEF Queued, Range
<1>3. c \notin Admitted /\ \A d \in Clients : d \in Admitted' <=> d \in Admitted \/ d = c
  BY <1>1, <1>2, AdmittedIs, AdmittedNext
<1>4. Admitted' = Admitted \cup {c}
  BY <1>1, <1>3 DEF Admitted
<1>5. /\ Cardinality(Admitted') = Cardinality(Admitted) + 1
      /\ Cardinality(Admitted) \in Nat
  BY <1>3, <1>4, AdmittedFinite, FS_AddElement
<1>6. /\ slots \in [1 .. MaxClients -> Clients \cup {NoClient, Silent}]
      /\ MaxClients \in Nat /\ NoClient \notin Clients
  BY LinesFacts, BookingAssumption DEF BookingTypes, ServerTypes, BookingAssumption
<1>7. slots' = IF empty = {} THEN slots ELSE [slots EXCEPT ![B!Min(empty)] = c]
  BY DEF B!Accept
<1> HIDE DEF c
<1>8. \A i \in 1 .. MaxClients : slots[i] # c
  BY <1>1, <1>3 DEF Slotted
<1>9. CASE empty = {}
  <2>1. slots' = slots
    BY <1>7, <1>9
  <2>2. Full'
    <3>1. \A i \in 1 .. MaxClients : slots[i] # NoClient
      BY <1>6, <1>9
    <3>2. Silent \in Range(slots) \/ MaxClients <= Cardinality(Admitted)
      BY <3>1, AllTaken
    <3>3. Range(slots') = Range(slots)
      BY <2>1
    <3> HIDE DEF empty
    <3>4. CASE Silent \in Range(slots)
      BY <3>3, <3>4 DEF Full
    <3>5. CASE MaxClients <= Cardinality(Admitted)
      <4>1. Cardinality(Admitted') > MaxClients
        BY <1>5, <1>6, <3>5
      <4> QED BY <4>1 DEF Full
    <3> QED BY <3>2, <3>4, <3>5
  <2> QED BY <1>1, <1>4, <2>1, <2>2 DEF Slotted
<1>10. CASE empty # {}
  <2>1. B!Min(empty) \in empty
    <3>1. empty \subseteq Nat
      BY <1>6
    <3> HIDE DEF empty
    <3>2. \E x \in empty : \A y \in empty : x <= y
      BY <1>10, <3>1, LeastNumber
    <3> QED BY <3>2 DEF B!Min
  <2>2. PICK k \in 1 .. MaxClients : slots[k] = NoClient /\ slots' = [slots EXCEPT ![k] = c]
    BY <1>6, <1>7, <1>10, <2>1
  <2> HIDE DEF empty
  <2>3. \A i \in 1 .. MaxClients : slots'[i] = IF i = k THEN c ELSE slots[i]
    BY <1>6, <2>2
  <2>4. DOMAIN slots' = 1 .. MaxClients /\ DOMAIN slots = 1 .. MaxClients
    BY <1>6, <2>2
  <2>5. c \in Range(slots') /\ \A d \in Range(slots) : d # NoClient => d \in Range(slots')
    BY <2>2, <2>3, <2>4 DEF Range
  <2>6. Full => Full'
    <3>1. Silent # NoClient
      BY BookingAssumption DEF BookingAssumption
    <3> QED BY <1>5, <1>6, <2>5, <3>1 DEF Full
  <2>7. \A i \in 1 .. MaxClients : slots'[i] \in Clients => slots'[i] \in Admitted'
    BY <1>4, <2>3 DEF Slotted
  <2>8. \A i, j \in 1 .. MaxClients : slots'[i] \in Clients /\ slots'[i] = slots'[j] => i = j
    BY <1>8, <2>3 DEF Slotted
  <2>9. ASSUME NEW d \in Admitted', conn'[d] = "open", peer'[d] = "open"
        PROVE  d \in Range(slots') \/ Full'
    <3>1. CASE d = c
      BY <2>5, <3>1
    <3>2. CASE d # c
      <4>1. d \in Admitted /\ d \in Clients
        BY <1>4, <2>9, <3>2 DEF Admitted
      <4>2. d \in Range(slots) \/ Full
        BY <1>1, <2>9, <4>1 DEF Slotted
      <4> QED BY <1>6, <2>5, <2>6, <4>1, <4>2
    <3> QED BY <3>1, <3>2
  <2> QED BY <1>1, <2>7, <2>8, <2>9 DEF Slotted
<1> QED BY <1>9, <1>10

LEMMA InitSlotted == B!Init => Slotted /\ Noticed
<1> SUFFICES ASSUME B!Init PROVE Slotted /\ Noticed
  OBVIOUS
<1>1. Come = {} /\ Admitted = {}
  BY DEF B!Init, Come, Admitted, B!Accepted
<1>2. /\ \A i \in 1 .. MaxClients : slots[i] \notin Clients
      /\ server = "select"
  BY BookingAssumption DEF B!Init, BookingAssumption
<1>3. Slotted
  BY <1>1, <1>2, FS_EmptySet DEF Slotted
<1>4. Noticed
  BY DEF B!Init, Noticed
<1> QED BY <1>3, <1>4

LEMMA NextSlotted ==
  BookingTypes /\ BookingTypes' /\ Queued /\ Slotted /\ [B!Next]_B!vars => Slotted'
<1> SUFFICES ASSUME BookingTypes, BookingTypes', Queued, Slotted, [B!Next]_B!vars
             PROVE  Slotted'
  OBVIOUS
<1>0. IsFiniteSet(Come')
  BY ComeFinite
<1>k. ASSUME UNCHANGED <<client, conn, peer, backlog, slots>>,
             server' \notin {"dead", "none"} \/ server' = server
      PROVE  Slotted'
  <2>1. \A d \in Clients : d \in Admitted' <=> d \in Admitted
    BY <1>k, AdmittedIs, AdmittedNext
  <2>2. Admitted' = Admitted
    BY <2>1 DEF Admitted
  <2> QED BY <1>0, <1>k, <2>2, SlottedKept DEF Slotted
<1>1. CASE B!Select \/ B!ScanEnds \/ \E i \in 1 .. MaxClients : B!RecvRequest(i) \/ B!RecvFails(i)
  BY <1>1, <1>k DEF B!Select, B!ScanEnds, B!RecvRequest, B!RecvFails, B!clientVars, B!netVars
<1>2. ASSUME NEW i \in 1 .. MaxClients, B!RecvEnd(i) PROVE Slotted'
  <2>1. /\ UNCHANGED <<client, conn, peer, backlog, server>> /\ server = "scan"
        /\ slots' = [slots EXCEPT ![i] = NoClient] /\ peer[slots[i]] = "closed"
    BY <1>2 DEF B!RecvEnd, B!Turn, B!clientVars, B!netVars
  <2>2. \A d \in Clients : d \in Admitted' <=> d \in Admitted
    BY <2>1, AdmittedIs, AdmittedNext
  <2>3. Admitted' = Admitted
    BY <2>2 DEF Admitted
  <2>4. /\ slots \in [1 .. MaxClients -> Clients \cup {NoClient, Silent}]
        /\ slots[i] \in Clients
        /\ NoClient \notin Clients /\ Silent \notin Clients
    BY <1>2, TurnFacts, BookingAssumption
       DEF BookingTypes, ServerTypes, BookingAssumption, B!RecvEnd
  <2>5. \A j \in 1 .. MaxClients : slots'[j] = IF j = i THEN NoClient ELSE slots[j]
    BY <2>1, <2>4
  <2>6. \A d \in Range(slots) : d # slots[i] => d \in Range(slots')
    <3>1. DOMAIN slots = 1 .. MaxClients /\ DOMAIN slots' = 1 .. MaxClients
      BY <2>1, <2>4
    <3> QED BY <2>5, <3>1 DEF Range
  <2>7. Full => Full'
    BY <2>3, <2>4, <2>6 DEF Full
  <2>8. \A d \in Admitted : conn[d] = "open" /\ peer[d] = "open" => d \in Range(slots') \/ Full'
    BY <2>1, <2>6, <2>7 DEF Slotted
  <2> QED BY <1>0, <2>1, <2>3, <2>4, <2>5, <2>8 DEF Slotted
<1>3. CASE BookStep
  <2>1. server' \notin {"dead", "none"}
    BY <1>3, BookFrame, WriteFacts DEF Busy
  <2> QED BY <1>3, <1>k, <2>1, BookFrame
<1>4. CASE EndStep
  <2>1. B!Die /\ slots' = [i \in DOMAIN slots |-> NoClient] /\ server' = "dead"
        /\ UNCHANGED <<client, backlog>>
    BY <1>4, EndDies, DieFacts DEF B!Die, B!Hangup
  <2>2. \A d \in Clients : d \in Admitted' => conn'[d] # "open"
    BY <2>1, AdmittedIs, AdmittedNext, DieFacts
  <2> QED BY <1>0, <2>1, <2>2, EmptySlots
<1>5. CASE B!Interrupt
  <2>1. slots' = [i \in DOMAIN slots |-> NoClient] /\ backlog' = <<>> /\ client' = client
    BY <1>5 DEF B!Interrupt, B!Hangup
  <2>2. \A d \in Clients : d \in Admitted' => conn'[d] # "open"
    BY <1>5, <2>1, AdmittedIs, AdmittedNext, InterruptFacts
  <2> QED BY <1>0, <2>1, <2>2, EmptySlots
<1>6. CASE B!Start \/ UNCHANGED B!vars
  BY <1>6, <1>k DEF B!Start, B!vars, B!clientVars, B!netVars, B!serverVars
<1> QED BY <1>0, <1>1, <1>2, <1>3, <1>4, <1>5, <1>6, Steps, ClientSlotted, AcceptSlotted
        DEF LoopStep

LEMMA NoticedKept ==
  ASSUME Noticed, UNCHANGED <<client, peer>>,
         \A c \in Clients :
           /\ down[c] # <<>> => down'[c] # <<>>
           /\ \/ conn'[c] = conn[c] \/ conn'[c] = "reset"
              \/ conn'[c] = "closed" /\ (client[c] = "greet" => down'[c] # <<>>)
  PROVE  Noticed'
  BY DEF Noticed

\* Who has been accepted has been welcomed.
LEMMA HangupConn ==
  ASSUME BookingTypes, Sessions, NEW K, B!Hangup(K), NEW c \in Clients
  PROVE  \/ conn'[c] = conn[c] \/ conn'[c] = "reset"
         \/ conn'[c] = "closed" /\ (client[c] = "greet" => down[c] # <<>>)
<1>1. \/ conn'[c] = conn[c] \/ conn'[c] = "reset"
      \/ conn'[c] = "closed" /\ conn[c] = "open" /\ B!Accepted(c)
  BY DEF B!Hangup
<1>2. ASSUME conn[c] = "open", B!Accepted(c), client[c] = "greet"
      PROVE  down[c] # <<>>
  <2>1. c \notin Range(backlog)
    BY <1>2, AdmittedIs DEF Admitted
  <2>2. Session(c)
    BY <1>2 DEF Sessions, Going
  <2> QED BY <1>2, <2>1, <2>2, AppendEmpty DEF Session
<1> QED BY <1>1, <1>2

LEMMA NextNoticed ==
  BookingTypes /\ Queued /\ Sessions /\ Noticed /\ [B!Next]_B!vars => Noticed'
<1> SUFFICES ASSUME BookingTypes, Queued, Sessions, Noticed, [B!Next]_B!vars
             PROVE  Noticed'
  OBVIOUS
<1>0. down \in [Clients -> Seq(Replies)] /\ backlog \in Seq(Clients)
  BY DEF BookingTypes, NetTypes
<1>1. ASSUME NEW c \in Clients, ClientStep(c) PROVE Noticed'
  <2>1. \A d \in Clients : d # c =>
          /\ client'[d] = client[d] /\ conn'[d] = conn[d]
          /\ peer'[d] = peer[d] /\ down'[d] = down[d]
    BY <1>1, OthersKept
  <2>2. CASE B!Connect(c)
    <3>1. client[c] = "new" /\ client'[c] = "greet" /\ UNCHANGED <<conn, down, peer>>
      BY <2>2, ConnectFacts
    <3>2. conn[c] = "open"
      BY <3>1 DEF Queued
    <3> QED BY <2>1, <3>1, <3>2 DEF Noticed
  <2>3. CASE B!Greeted(c) \/ B!Receive(c)
    <3>1. client'[c] = "idle" /\ client[c] \in {"greet", "waits"} /\ peer'[c] = peer[c]
      BY <2>3, GreetedFacts, ReceiveFacts
    <3> QED BY <2>1, <3>1 DEF Noticed
  <2>4. CASE B!SendLine(c)
    <3>1. /\ client[c] = "idle" /\ UNCHANGED <<down, peer>>
          /\ \/ client'[c] = "killed"
             \/ client'[c] = "waits" /\ conn'[c] \in {"open", "half"}
      BY <2>4, SendLineFacts
    <3> QED BY <2>1, <3>1 DEF Noticed
  <2>5. CASE B!Close(c) \/ B!Kill(c)
    <3>1. client'[c] \in {"done", "killed"}
      BY <2>5, CloseFacts, KillFacts
    <3> QED BY <2>1, <3>1 DEF Noticed
  <2> QED BY <1>1, <2>2, <2>3, <2>4, <2>5 DEF ClientStep
<1>2. CASE LoopStep
  <2>1. UNCHANGED <<client, conn>>
    BY <1>2, LoopFrame
  <2>2. /\ UNCHANGED peer
        /\ down' = down \/ down' = [down EXCEPT ![Head(backlog)] = Append(@, B!Welcome)]
    BY <1>2 DEF LoopStep, B!Select, B!Accept, B!ScanEnds, B!RecvRequest, B!RecvEnd,
       B!RecvFails, B!netVars
  <2>3. \A d \in Clients : down[d] # <<>> => down'[d] # <<>>
    BY <1>0, <2>2, RepliesFacts, AppendType
  <2> QED BY <2>1, <2>2, <2>3, NoticedKept
<1>3. CASE BookStep
  <2>1. UNCHANGED <<client, conn, peer>>
    BY <1>3, BookFrame
  <2>2. ASSUME NEW d \in Clients, down[d] # <<>> PROVE down'[d] # <<>>
    <3> DEFINE a == IF given = <<>> THEN B!Answer("NA", <<>>) ELSE B!Answer("berths", given)
    <3>1. down' = down \/ down' = [down EXCEPT ![serving] = Append(@, a)]
      BY <1>3, BookFrame, WriteFacts
    <3> HIDE DEF a
    <3>2. Append(down[d], a) # <<>>
      BY <1>0
    <3> QED BY <1>0, <2>2, <3>1, <3>2
  <2> QED BY <2>1, <2>2, NoticedKept
<1>4. CASE EndStep \/ B!Interrupt
  <2>1. UNCHANGED <<client, peer, down>> /\ \E K : B!Hangup(K)
    BY <1>4, EndDies, DieFacts, InterruptFacts DEF B!Die, B!Interrupt
  <2>2. PICK K : B!Hangup(K)
    BY <2>1
  <2> QED BY <2>1, <2>2, HangupConn, NoticedKept
<1>5. CASE B!Start \/ UNCHANGED B!vars
  BY <1>5, NoticedKept DEF B!Start, B!vars, B!clientVars, B!netVars
<1> QED BY <1>1, <1>2, <1>3, <1>4, <1>5, Steps

\* What client c waits for can be had, or somebody can go on who will see to it.
Served(c) ==
  \/ down[c] # <<>> \/ conn[c] = "reset"
  \/ client[c] = "waits" /\ conn[c] \in {"closed", "half"}
  \/ serving = c
  \/ /\ server \notin {"dead", "none"}
     /\ \/ c \in Range(backlog)
        \/ up[c] # <<>> /\ c \in Range(slots)

\* Whoever waits for the welcome or an answer can receive something, or will be
\* accepted, read or answered, whatever has been killed and restarted; but for
\* the two ways in which the program forgets a client (Answered).
THEOREM NobodyIsForgotten ==
  B!Spec => [](\A c \in Clients : client[c] \in {"greet", "waits"} => Served(c) \/ B!Stuck(c))
<1>1. ASSUME BookingInv, Slotted, Noticed, NEW c \in Clients, client[c] \in {"greet", "waits"}
      PROVE  Served(c) \/ B!Stuck(c)
  <2>0. /\ BookingTypes /\ Queued
        /\ Session(c) \/ conn[c] # "open"
        /\ conn[c] \in {"open", "closed", "reset", "half", "broken"}
    BY <1>1 DEF BookingInv, BookingTypes, ClientTypes, Sessions, Going
  <2>1. CASE conn[c] # "open"
    BY <1>1, <2>0, <2>1 DEF Noticed, Served
  <2>2. CASE conn[c] = "open" /\ client[c] = "greet"
    <3>1. \/ down[c] = <<>> /\ c \in Range(backlog)
          \/ down[c] = <<B!Welcome>>
      BY <2>0, <2>2 DEF Session
    <3>2. CASE down[c] = <<B!Welcome>>
      BY <3>2, AppendEmpty DEF Served
    <3>3. CASE c \in Range(backlog)
      <4>1. server # "none"
        BY <1>1, <3>3, EmptyRange DEF Slotted
      <4>2. server = "dead" => B!Stuck(c)
        BY <2>0, <3>3, AdmittedIs DEF B!Stuck
      <4> QED BY <3>3, <4>1, <4>2 DEF Served
    <3> QED BY <3>1, <3>2, <3>3
  <2>3. CASE conn[c] = "open" /\ client[c] = "waits"
    <3>1. \/ \E x : up[c] = <<x>>
          \/ serving = c
          \/ Len(down[c]) = 1
      BY <2>0, <2>3 DEF Session
    <3>2. Len(down[c]) = 1 => down[c] # <<>>
      OBVIOUS
    <3>3. CASE \E x : up[c] = <<x>>
      <4>1. up[c] # <<>>
        BY <3>3
      <4>2. c \in Admitted
        <5>1. \A n \in DOMAIN backlog : client[backlog[n]] # "waits"
          BY <2>0 DEF Queued
        <5> QED BY <2>0, <2>3, <5>1, AdmittedIs DEF Range
      <4>3. server \notin {"dead", "none"} /\ (c \in Range(slots) \/ Full)
        <5>1. peer[c] = "open"
          BY <1>1 DEF Noticed
        <5> QED BY <1>1, <2>3, <4>2, <5>1 DEF Slotted
      <4>4. c \notin Range(slots) => B!Stuck(c)
        <5>1. B!Accepted(c) /\ B!Range(slots) = Range(slots)
          BY <4>2 DEF Admitted, B!Range, Range
        <5>2. B!Cardinality({d \in Clients : B!Accepted(d)}) = Cardinality(Admitted)
          BY SameCardinality DEF Admitted
        <5> QED BY <4>3, <5>1, <5>2 DEF Full, B!Stuck, B!Listed
      <4> QED BY <4>1, <4>3, <4>4 DEF Served
    <3> QED BY <3>1, <3>2, <3>3 DEF Served
  <2> QED BY <1>1, <2>1, <2>2, <2>3
<1>2. BookingInv /\ Slotted /\ Noticed
        => \A c \in Clients : client[c] \in {"greet", "waits"} => Served(c) \/ B!Stuck(c)
  BY <1>1
<1>3. BookingInv /\ BookingInv' /\ Slotted /\ Noticed /\ [B!Next]_B!vars
        => Slotted' /\ Noticed'
  BY NextSlotted, NextNoticed DEF BookingInv
<1> QED BY <1>2, <1>3, BookingInvariant, InitSlotted, PTL DEF B!Spec
=============================================================================
