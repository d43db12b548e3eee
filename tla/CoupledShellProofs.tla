------------------------- MODULE CoupledShellProofs -------------------------
(* Of the shared queue and its ids, and of who waits for whom, for any     *)
(* number of shells, clients and messages in the queue.                    *)
EXTENDS CoupledShell, WellFoundedInduction, FiniteSetTheorems, TLAPS

-----------------------------------------------------------------------------
(* Searching and removing.                                                 *)

\* A set of natural numbers that is not empty has a least element.
LEMMA Least ==
  ASSUME NEW T, T \subseteq Nat, T # {}
  PROVE  \E x \in T : \A y \in T : x <= y
<1> DEFINE R == OpToRel(<, Nat)
<1>1. IsWellFoundedOn(R, Nat)
  BY NatLessThanWellFounded
<1> HIDE DEF R
<1>2. PICK x \in T : \A y \in T : <<y, x>> \notin R
  BY <1>1, WFMin
<1>3. \A y \in T : ~ (y < x)
  BY <1>2 DEF R, OpToRel
<1> QED BY <1>3

LEMMA FirstFreeIsFree ==
  ASSUME list \subseteq Ids, list # Ids
  PROVE  FirstFree \in Ids \ list
<1>0. PICK free \in Ids : free \notin list
  OBVIOUS
<1>1. Ids \ list # {} /\ Ids \ list \subseteq Nat
  BY <1>0, ShellAssumption DEF Ids, ShellAssumption
<1>2. \E k \in Ids \ list : \A j \in Ids \ list : k <= j
  BY <1>1, Least
<1> QED BY <1>2 DEF FirstFree

Messages == [type : {1, 2, 3, 5, 6}, id : Ids \cup {Nobody}]

LEMMA PlaceFound ==
  ASSUME queue \in Seq(Messages), NEW type \in {3, 6}, type \in Types
  PROVE  Place(type) \in DOMAIN queue /\ queue[Place(type)].type = type
<1> DEFINE I == {k \in 1 .. Len(queue) : queue[k].type = type}
<1>1. I \subseteq Nat /\ I # {}
  BY DEF Types
<1>2. \E x \in I : \A y \in I : x <= y
  BY <1>1, Least
<1>3. Place(type) = Min(I)
  BY <1>1 DEF Place, SelectInSeq
<1>4. Min(I) \in I
  BY <1>2 DEF Min
<1> QED BY <1>3, <1>4

\* What is left when a message is taken, place by place.
LEMMA Removed ==
  ASSUME queue \in Seq(Messages), NEW n \in DOMAIN queue
  PROVE  /\ RemoveAt(queue, n) \in Seq(Messages)
         /\ Len(RemoveAt(queue, n)) = Len(queue) - 1
         /\ \A p \in 1 .. Len(queue) - 1 :
              RemoveAt(queue, n)[p] = queue[IF p < n THEN p ELSE p + 1]
<1> DEFINE L == SubSeq(queue, 1, n - 1)
           R == SubSeq(queue, n + 1, Len(queue))
<1>1. /\ L \in Seq(Messages) /\ Len(L) = n - 1
      /\ \A p \in 1 .. n - 1 : L[p] = queue[p]
  OBVIOUS
<1>2. /\ R \in Seq(Messages) /\ Len(R) = Len(queue) - n
      /\ \A p \in 1 .. Len(queue) - n : R[p] = queue[p + n]
  OBVIOUS
<1>3. RemoveAt(queue, n) = L \o R
  BY DEF RemoveAt
<1> HIDE DEF L, R
<1>4. /\ L \o R \in Seq(Messages) /\ Len(L \o R) = Len(queue) - 1
  BY <1>1, <1>2
<1>5. ASSUME NEW p \in 1 .. Len(queue) - 1
      PROVE  (L \o R)[p] = queue[IF p < n THEN p ELSE p + 1]
  <2>1. CASE p < n
    BY <2>1, <1>1, <1>2
  <2>2. CASE ~ (p < n)
    <3>1. (L \o R)[p] = R[p - (n - 1)]
      BY <2>2, <1>1, <1>2
    <3>2. p - (n - 1) \in 1 .. Len(queue) - n /\ (p - (n - 1)) + n = p + 1
      BY <2>2
    <3> QED BY <2>2, <3>1, <3>2, <1>2
  <2> QED BY <2>1, <2>2
<1> QED BY <1>3, <1>4, <1>5

LEMMA RemovedHead ==
  ASSUME queue \in Seq(Messages), queue # <<>>
  PROVE  /\ Tail(queue) \in Seq(Messages)
         /\ Len(Tail(queue)) = Len(queue) - 1
         /\ \A p \in 1 .. Len(queue) - 1 : Tail(queue)[p] = queue[p + 1]
         /\ Head(queue) = queue[1]
         /\ 1 \in DOMAIN queue
  OBVIOUS

-----------------------------------------------------------------------------
(* The inductive invariant.                                                *)

Places == {"prompt", "ask", "await", "failed", "output", "forget", "hung",
           "ended"}

\* Types, and that client_list has a free cell whenever it is searched.
TypeOK ==
  /\ queue \in Seq(Messages)
  /\ list \subseteq Ids
  /\ server \in {"receive", "reply", "spread", "overrun"}
  /\ server \in {"receive", "spread"} => list # Ids
  /\ server = "reply" => i \in Ids
  /\ at \in [Shells -> Places]
  /\ id \in [Shells -> Ids \cup {Nobody}]
  /\ handler \in [Shells -> BOOLEAN]
  /\ receiver \in [Shells -> {"loop", "exit"}]
  /\ crossed \in BOOLEAN

\* The id is in the message that the server is about to send.
Replying(k) == server = "reply" /\ i = k

\* UniqueIds for one id, without counting.
UniqueAt(k) ==
  /\ \A s, t \in Shells : Owns(s, k) /\ Owns(t, k) => s = t
  /\ \A m, n \in OnTheWay(k) : m = n
  /\ \A s \in Shells : Owns(s, k) =>
       OnTheWay(k) = {} /\ ~ Replying(k) /\ k \in list
  /\ OnTheWay(k) # {} => ~ Replying(k) /\ k \in list
  /\ Replying(k) => k \in list

\* An interrupt in the middle of sh_uncouple is what crossed remembers.
Remembered ==
  \A s \in Shells : handler[s] /\ at[s] = "forget" => crossed

IInv ==
  /\ TypeOK
  /\ Remembered
  /\ ~ crossed => \A k \in Ids : UniqueAt(k)

LEMMA NobodyIsNoId == Nobody \notin Ids
  BY ShellAssumption DEF Nobody, Ids, ShellAssumption

\* A message more, or one less, on the way.
LEMMA Appended ==
  ASSUME queue \in Seq(Messages), NEW m \in Messages,
         queue' = Append(queue, m), NEW k
  PROVE  /\ queue' \in Seq(Messages)
         /\ ~ (m.type \in {2, 3} /\ m.id = k) => OnTheWay(k)' = OnTheWay(k)
         /\ m.type \in {2, 3} /\ m.id = k =>
              OnTheWay(k)' = OnTheWay(k) \cup {Len(queue) + 1}
<1>1. /\ queue' \in Seq(Messages)
      /\ DOMAIN queue' = DOMAIN queue \cup {Len(queue) + 1}
      /\ \A p \in DOMAIN queue : queue'[p] = queue[p]
      /\ queue'[Len(queue) + 1] = m
  OBVIOUS
<1> QED BY <1>1 DEF OnTheWay

LEMMA Taken ==
  ASSUME queue \in Seq(Messages), NEW n \in DOMAIN queue,
         queue' \in Seq(Messages), Len(queue') = Len(queue) - 1,
         \A p \in 1 .. Len(queue) - 1 :
           queue'[p] = queue[IF p < n THEN p ELSE p + 1],
         NEW k
  PROVE  /\ OnTheWay(k) = {} => OnTheWay(k)' = {}
         /\ (\A a, b \in OnTheWay(k) : a = b) =>
              /\ \A a, b \in OnTheWay(k)' : a = b
              /\ n \in OnTheWay(k) => OnTheWay(k)' = {}
<1> DEFINE Old(p) == IF p < n THEN p ELSE p + 1
<1>1. DOMAIN queue' = 1 .. Len(queue) - 1 /\ DOMAIN queue = 1 .. Len(queue)
  OBVIOUS
<1>2. \A p \in OnTheWay(k)' : Old(p) \in OnTheWay(k) /\ Old(p) # n
  BY <1>1 DEF OnTheWay
<1>3. \A p, q \in OnTheWay(k)' : Old(p) = Old(q) => p = q
  BY <1>1 DEF OnTheWay
<1> HIDE DEF Old
<1> QED BY <1>2, <1>3

\* Nothing comes to a new place, and the server forgets nobody.
LEMMA Fewer ==
  ASSUME NEW k \in Ids, UniqueAt(k),
         \A s \in Shells : Owns(s, k)' => Owns(s, k),
         OnTheWay(k) = {} => OnTheWay(k)' = {},
         \A m, n \in OnTheWay(k)' : m = n,
         Replying(k)' => Replying(k),
         list \subseteq list'
  PROVE  UniqueAt(k)'
  BY DEF UniqueAt

-----------------------------------------------------------------------------
(* The steps keep the types.                                               *)

\* The messages that are sent.
LEMMA MessagesSent ==
  ASSUME NEW type \in {1, 5, 6}, NEW k \in Ids \cup {Nobody}
  PROVE  /\ Msg(type, Nobody) \in Messages
         /\ Msg(2, k) \in Messages
         /\ Msg(3, k) \in Messages
  BY DEF Msg, Messages

\* Taking the head, or the first message of a type.
LEMMA ReceiveTakes ==
  ASSUME TypeOK, NEW type, Receive(type)
  PROVE  /\ queue' \in Seq(Messages)
         /\ 1 \in DOMAIN queue
         /\ queue[1].type = type
         /\ Head(queue) = queue[1]
         /\ Len(queue') = Len(queue) - 1
         /\ \A p \in 1 .. Len(queue) - 1 :
              queue'[p] = queue[IF p < 1 THEN p ELSE p + 1]
<1>1. queue \in Seq(Messages) /\ queue # <<>> /\ queue' = Tail(queue)
      /\ Head(queue).type = type
  BY DEF TypeOK, Receive
<1> QED BY <1>1, RemovedHead

LEMMA TakeTakes ==
  ASSUME TypeOK, NEW type \in {3, 6}, Take(type)
  PROVE  /\ queue' \in Seq(Messages)
         /\ Place(type) \in DOMAIN queue
         /\ queue[Place(type)].type = type
         /\ Len(queue') = Len(queue) - 1
         /\ \A p \in 1 .. Len(queue) - 1 :
              queue'[p] = queue[IF p < Place(type) THEN p ELSE p + 1]
<1>1. Place(type) \in DOMAIN queue /\ queue[Place(type)].type = type
  BY PlaceFound DEF TypeOK, Take
<1>2. queue \in Seq(Messages) /\ queue' = RemoveAt(queue, Place(type))
  BY DEF TypeOK, Take
<1> HIDE DEF Place
<1> QED BY <1>1, <1>2, Removed

LEMMA ServerType ==
  ASSUME TypeOK, Server
  PROVE  TypeOK'
<1>1. CASE Register
  <2>1. queue' \in Seq(Messages)
    BY <1>1, ReceiveTakes DEF Register
  <2>2. FirstFree \in Ids
    BY <1>1, FirstFreeIsFree DEF Register, Receive, TypeOK
  <2> QED BY <1>1, <2>1, <2>2 DEF Register, Receive, TypeOK, childVars
<1>2. CASE Deregister
  <2>1. queue' \in Seq(Messages)
    BY <1>2, ReceiveTakes DEF Deregister
  <2>2. list' \subseteq list /\ crossed' \in BOOLEAN
    BY <1>2 DEF Deregister, TypeOK
  <2> QED BY <1>2, <2>1, <2>2 DEF Deregister, Receive, TypeOK, childVars
<1>3. CASE Broadcast
  <2>1. queue' \in Seq(Messages)
    BY <1>3, ReceiveTakes DEF Broadcast
  <2> QED BY <1>3, <2>1 DEF Broadcast, Receive, TypeOK, childVars
<1>4. CASE ReceiveOwn
  <2>1. queue' \in Seq(Messages)
    BY <1>4, ReceiveTakes DEF ReceiveOwn
  <2> QED BY <1>4, <2>1 DEF ReceiveOwn, Receive, TypeOK, childVars
<1>5. CASE Reply
  <2>1. queue' \in Seq(Messages)
    BY <1>5 DEF Reply, Send, TypeOK, Msg, Messages
  <2> QED BY <1>5, <2>1 DEF Reply, TypeOK, childVars
<1>6. CASE Spread
  <2>1. queue' \in Seq(Messages)
    BY <1>6, MessagesSent, Appended DEF Spread, Send, TypeOK
  <2> QED BY <1>6, <2>1 DEF Spread, TypeOK, childVars
<1> QED BY <1>1, <1>2, <1>3, <1>4, <1>5, <1>6 DEF Server

LEMMA UserType ==
  ASSUME TypeOK, NEW s \in Shells, User(s)
  PROVE  TypeOK'
<1>1. CASE Couple(s) \/ Command(s) \/ End(s)
  <2>1. at' \in [Shells -> Places]
    BY <1>1 DEF Couple, Command, End, Goto, TypeOK, Places
  <2> QED BY <1>1, <2>1 DEF Couple, Command, End, Prompt, serverVars, TypeOK
<1>2. CASE Uncouple(s)
  <2>0. id[s] \in Ids \cup {Nobody}
    BY DEF TypeOK
  <2>1. Msg(2, id[s]) \in Messages
    BY <2>0 DEF Msg, Messages
  <2>2. queue' = Append(queue, Msg(2, id[s])) \/ queue' = queue
    BY <1>2 DEF Uncouple
  <2>3. queue' \in Seq(Messages)
    BY <2>1, <2>2 DEF TypeOK
  <2> QED BY <1>2, <2>3 DEF Uncouple, Prompt, Goto, serverVars, TypeOK, Places
<1>3. CASE Interrupt(s)
  <2>1. Resumed(s) \subseteq Places
    BY DEF Resumed, TypeOK, Places
  <2>2. at' \in [Shells -> Places]
    BY <1>3, <2>1 DEF Interrupt, Goto, TypeOK
  <2>3. handler' \in [Shells -> BOOLEAN]
    BY <1>3 DEF Interrupt, TypeOK
  <2>4. crossed' \in BOOLEAN
    BY <1>3 DEF Interrupt, TypeOK
  <2> QED BY <1>3, <2>2, <2>3, <2>4 DEF Interrupt, serverVars, TypeOK
<1> QED BY <1>1, <1>2, <1>3 DEF User

LEMMA ChildType ==
  ASSUME TypeOK, NEW s \in Shells, Child(s)
  PROVE  TypeOK'
<1>1. CASE Ask(s) \/ SendOutput(s)
  <2>1. queue' \in Seq(Messages)
    <3>1. Msg(1, Nobody) \in Messages /\ Msg(5, Nobody) \in Messages
      BY DEF Msg, Messages
    <3>2. \/ queue' = Append(queue, Msg(1, Nobody))
          \/ queue' = Append(queue, Msg(5, Nobody))
      BY <1>1 DEF Ask, SendOutput, Send
    <3> QED BY <3>1, <3>2 DEF TypeOK
  <2> QED BY <1>1, <2>1 DEF Ask, SendOutput, Running, Goto, serverVars, TypeOK,
             Places
<1>2. CASE GetId(s)
  <2>1. queue' \in Seq(Messages) /\ queue[Place(3)] \in Messages
    BY <1>2, TakeTakes DEF GetId, TypeOK
  <2>2. id' \in [Shells -> Ids \cup {Nobody}]
    BY <1>2, <2>1 DEF GetId, TypeOK, Messages
  <2>3. at' \in [Shells -> Places]
    BY <1>2 DEF GetId, AfterCouple, Goto, TypeOK, Places
  <2> QED BY <1>2, <2>1, <2>2, <2>3 DEF GetId, Running, serverVars, TypeOK
<1>3. CASE Forget(s)
  BY <1>3 DEF Forget, Running, Goto, serverVars, TypeOK, Places
<1>4. CASE UncoupleExit(s)
  <2>1. queue' \in Seq(Messages)
    BY <1>4 DEF UncoupleExit, Send, TypeOK, Msg, Messages
  <2> QED BY <1>4, <2>1 DEF UncoupleExit, serverVars, TypeOK
<1>5. CASE Failed(s)
  <2>1. at' \in [Shells -> Places]
    BY <1>5 DEF Failed, AfterCouple, Goto, TypeOK, Places
  <2>2. id' \in [Shells -> Ids \cup {Nobody}] /\ crossed' \in BOOLEAN
    BY <1>5 DEF Failed, TypeOK
  <2> QED BY <1>5, <2>1, <2>2 DEF Failed, serverVars, TypeOK
<1> QED BY <1>1, <1>2, <1>3, <1>4, <1>5 DEF Child

LEMMA ReceiverType ==
  ASSUME TypeOK, NEW s \in Shells, Receiver(s)
  PROVE  TypeOK'
<1>1. CASE Show(s)
  <2>1. queue' \in Seq(Messages)
    BY <1>1, TakeTakes DEF Show
  <2> QED BY <1>1, <2>1 DEF Show, serverVars, childVars, TypeOK
<1>2. CASE ReceiverExit(s)
  <2>1. queue' \in Seq(Messages)
    BY <1>2 DEF ReceiverExit, Send, TypeOK, Msg, Messages
  <2> QED BY <1>2, <2>1 DEF ReceiverExit, serverVars, childVars, TypeOK
<1> QED BY <1>1, <1>2 DEF Receiver

LEMMA StutterType ==
  ASSUME TypeOK, UNCHANGED vars
  PROVE  TypeOK'
  BY DEF TypeOK, vars, serverVars, childVars

LEMMA NextType ==
  ASSUME TypeOK, [Next]_vars
  PROVE  TypeOK'
  BY ServerType, UserType, ChildType, ReceiverType, StutterType DEF Next

LEMMA InitType == Init => TypeOK
<1>1. Init => Ids # {} /\ <<>> \in Seq(Messages)
  BY ShellAssumption DEF Ids, ShellAssumption
<1> QED BY <1>1 DEF Init, TypeOK, Places

\* Every variable of the queue, the list and the shells keeps its type, and the
\* server never searches a full list except where the model says "overrun".
THEOREM TypeCorrect == Spec => []TypeOK
<1>1. TypeOK /\ [Next]_vars => TypeOK'
  BY NextType
<1> QED BY <1>1, InitType, PTL DEF Spec

-----------------------------------------------------------------------------
(* A jam lasts.                                                            *)

\* Server and shells that all wait for room in the one queue wait for ever: no
\* step of anybody, an interrupt's handler included, takes a message out of it.
THEOREM JamLasts == Spec => JamStays
<1>1. ASSUME TypeOK, [Next]_vars, Jam
      PROVE  Jam'
  <2>0. ~ Room
    BY <1>1 DEF Jam
  <2>1. CASE Server
    BY <1>1, <2>0, <2>1 DEF Jam, Server, Register, Deregister, Broadcast,
       ReceiveOwn, Receive, Reply, Spread, Send
  <2>2. ASSUME NEW s \in Shells, User(s)
        PROVE  Jam'
    <3>1. UNCHANGED <<queue, server>>
      BY <2>0, <2>2 DEF User, Couple, Uncouple, Command, End, Interrupt, Prompt,
         serverVars
    <3>2. \A t \in Shells : receiver[t] = "exit" => receiver'[t] = "exit"
      BY <1>1, <2>2 DEF User, Couple, Uncouple, Command, End, Interrupt, Prompt,
         TypeOK
    <3>3. \A t \in Shells : at[t] # "await" \/ handler[t] =>
                             at'[t] # "await" \/ handler'[t]
      <4>1. CASE Interrupt(s)
        BY <1>1, <4>1 DEF Interrupt, Resumed, Goto, TypeOK, Places
      <4>2. CASE ~ Interrupt(s)
        BY <1>1, <2>2, <4>2 DEF User, Couple, Uncouple, Command, End, Prompt,
           Goto, TypeOK, Places
      <4> QED BY <4>1, <4>2
    <3> QED BY <1>1, <3>1, <3>2, <3>3 DEF Jam, Room, Types
  <2>3. ASSUME NEW s \in Shells, Child(s)
        PROVE  Jam'
    <3>1. ~ (Ask(s) \/ SendOutput(s) \/ UncoupleExit(s) \/ GetId(s))
      BY <1>1, <2>0 DEF Ask, SendOutput, UncoupleExit, GetId, Send, Take, Jam,
         Running
    <3>2. Forget(s) \/ Failed(s)
      BY <2>3, <3>1 DEF Child
    <3>3. UNCHANGED <<queue, server, receiver, handler>>
      BY <3>2 DEF Forget, Failed, Running, serverVars
    <3>4. \A t \in Shells : at[t] # "await" => at'[t] # "await"
      BY <1>1, <3>2 DEF Forget, Failed, AfterCouple, Goto, TypeOK, Places
    <3> QED BY <1>1, <3>3, <3>4 DEF Jam, Room, Types
  <2>4. ASSUME NEW s \in Shells, Receiver(s)
        PROVE  Jam'
    BY <1>1, <2>0, <2>4 DEF Receiver, Show, ReceiverExit, Send, Take, Jam
  <2>5. CASE UNCHANGED vars
    BY <1>1, <2>5 DEF vars, serverVars, childVars, Jam, Room, Types
  <2> QED BY <1>1, <2>1, <2>2, <2>3, <2>4, <2>5 DEF Next
<1>2. TypeOK /\ [Next]_vars => [Jam => Jam']_vars
  BY <1>1
<1> QED BY <1>2, TypeCorrect, PTL DEF Spec, JamStays

-----------------------------------------------------------------------------
(* The steps keep ids apart.                                               *)

LEMMA ServerUnique ==
  ASSUME IInv, Server, ~ crossed', NEW k \in Ids
  PROVE  UniqueAt(k)'
<1>0. TypeOK /\ TypeOK' /\ UniqueAt(k) /\ (\A m \in Ids : UniqueAt(m))
  BY ServerType DEF IInv, Server, Register, Deregister, Broadcast, ReceiveOwn,
     Reply, Spread, TypeOK
<1>1. \A s \in Shells : Owns(s, k)' <=> Owns(s, k)
  BY DEF Server, Register, Deregister, Broadcast, ReceiveOwn, Receive, Reply,
     Spread, childVars, Owns
<1>2. ASSUME NEW type, Receive(type)
      PROVE  /\ OnTheWay(k) = {} => OnTheWay(k)' = {}
             /\ \A m, n \in OnTheWay(k)' : m = n
             /\ 1 \in OnTheWay(k) => OnTheWay(k)' = {}
             /\ Head(queue) = queue[1] /\ queue[1].type = type
             /\ 1 \in DOMAIN queue
  BY <1>0, <1>2, ReceiveTakes, Taken DEF UniqueAt, TypeOK
<1>3. CASE Register
  <2>1. FirstFree \notin list
    BY <1>3, <1>0, FirstFreeIsFree DEF Register, Receive, TypeOK
  <2>2. /\ OnTheWay(k) = {} => OnTheWay(k)' = {}
        /\ \A m, n \in OnTheWay(k)' : m = n
    BY <1>2, <1>3 DEF Register
  <2>3. list' = list \cup {FirstFree} /\ (Replying(k)' <=> k = FirstFree)
    BY <1>3 DEF Register, Replying
  <2> QED BY <1>0, <1>1, <2>1, <2>2, <2>3 DEF UniqueAt
<1>4. CASE Deregister
  <2> DEFINE given == Head(queue).id
  <2>1. list' = list \ {given} \/ list' = list
    BY <1>4, <1>0 DEF Deregister, TypeOK
  <2>2. /\ OnTheWay(k) = {} => OnTheWay(k)' = {}
        /\ \A m, n \in OnTheWay(k)' : m = n
        /\ 1 \in OnTheWay(k) => OnTheWay(k)' = {}
    BY <1>2, <1>4 DEF Deregister
  <2>3. k = given => 1 \in OnTheWay(k)
    BY <1>2, <1>4 DEF Deregister, OnTheWay
  <2>4. ~ Replying(k) /\ ~ Replying(k)'
    BY <1>4 DEF Deregister, Receive, Replying
  <2> HIDE DEF given
  <2> QED BY <1>0, <1>1, <2>1, <2>2, <2>3, <2>4 DEF UniqueAt
<1>5. CASE Broadcast \/ ReceiveOwn
  <2>1. /\ OnTheWay(k) = {} => OnTheWay(k)' = {}
        /\ \A m, n \in OnTheWay(k)' : m = n
    BY <1>2, <1>5 DEF Broadcast, ReceiveOwn
  <2>2. list' = list /\ ~ Replying(k)'
    BY <1>5 DEF Broadcast, ReceiveOwn, Receive, Replying
  <2> QED BY <1>0, <1>1, <2>1, <2>2, Fewer
<1>6. CASE Reply
  <2>1. /\ Msg(3, i) \in Messages /\ Msg(3, i).type = 3 /\ Msg(3, i).id = i
        /\ queue' = Append(queue, Msg(3, i)) /\ queue \in Seq(Messages)
    BY <1>6, <1>0 DEF Reply, Send, TypeOK, Msg, Messages
  <2>2. /\ i # k => OnTheWay(k)' = OnTheWay(k)
        /\ i = k => OnTheWay(k)' = OnTheWay(k) \cup {Len(queue) + 1}
    BY <2>1, Appended
  <2>3. list' = list /\ ~ Replying(k)' /\ (Replying(k) <=> i = k)
    BY <1>6 DEF Reply, Replying
  <2> QED BY <1>0, <1>1, <2>2, <2>3 DEF UniqueAt
<1>7. CASE Spread
  <2>1. /\ Msg(6, Nobody) \in Messages /\ Msg(6, Nobody).type = 6
        /\ queue' = Append(queue, Msg(6, Nobody)) /\ queue \in Seq(Messages)
    BY <1>7, <1>0 DEF Spread, Send, TypeOK, Msg, Messages
  <2>2. OnTheWay(k)' = OnTheWay(k)
    BY <2>1, Appended
  <2>3. list' = list /\ ~ Replying(k)'
    BY <1>7 DEF Spread, Replying
  <2> QED BY <1>0, <1>1, <2>2, <2>3 DEF UniqueAt
<1> QED BY <1>3, <1>4, <1>5, <1>6, <1>7 DEF Server

\* An id that is given back goes from the shell into the message.
LEMMA GivenBack ==
  ASSUME TypeOK, NEW k \in Ids, UniqueAt(k), NEW s \in Shells,
         at[s] # "forget", UNCHANGED <<list, server, i>>,
         queue' = Append(queue, Msg(2, id[s])),
         ~ Owns(s, k)', \A t \in Shells \ {s} : Owns(t, k)' <=> Owns(t, k)
  PROVE  UniqueAt(k)'
<1>0. id[s] \in Ids \cup {Nobody}
  BY DEF TypeOK
<1>1. /\ Msg(2, id[s]) \in Messages /\ Msg(2, id[s]).type = 2
      /\ Msg(2, id[s]).id = id[s]
  BY <1>0 DEF Msg, Messages
<1>2. /\ id[s] # k => OnTheWay(k)' = OnTheWay(k)
      /\ id[s] = k => OnTheWay(k)' = OnTheWay(k) \cup {Len(queue) + 1}
  BY <1>1, Appended DEF TypeOK
<1>3. id[s] = k <=> Owns(s, k)
  BY DEF Owns
<1>4. Replying(k)' <=> Replying(k)
  BY DEF Replying
<1> QED BY <1>2, <1>3, <1>4 DEF UniqueAt

\* A message without an id, or with nobody's, changes nothing.
LEMMA OtherSent ==
  ASSUME TypeOK, NEW k \in Ids, UniqueAt(k), NEW type \in {1, 2, 5},
         queue' = Append(queue, Msg(type, Nobody)), UNCHANGED <<list, server, i>>,
         \A t \in Shells : Owns(t, k)' <=> Owns(t, k)
  PROVE  UniqueAt(k)'
<1>1. /\ Msg(type, Nobody) \in Messages /\ Msg(type, Nobody).id # k
  BY NobodyIsNoId DEF Msg, Messages
<1>2. OnTheWay(k)' = OnTheWay(k)
  BY <1>1, Appended DEF TypeOK
<1>3. Replying(k)' <=> Replying(k)
  BY DEF Replying
<1> QED BY <1>2, <1>3 DEF UniqueAt

LEMMA UserUnique ==
  ASSUME IInv, NEW s \in Shells, User(s), ~ crossed', NEW k \in Ids
  PROVE  UniqueAt(k)'
<1>0. TypeOK /\ UniqueAt(k)
  BY DEF IInv, User, Couple, Uncouple, Command, End, Prompt, Interrupt, TypeOK
<1>1. CASE Couple(s) \/ Command(s) \/ End(s)
  <2>1. \A t \in Shells : Owns(t, k)' <=> Owns(t, k)
    BY <1>0, <1>1 DEF Couple, Command, End, Prompt, Goto, Owns, TypeOK, Places
  <2>2. UNCHANGED <<queue, list, server, i>>
    BY <1>1 DEF Couple, Command, End, Prompt, serverVars
  <2>3. OnTheWay(k)' = OnTheWay(k) /\ (Replying(k)' <=> Replying(k))
    BY <2>2 DEF OnTheWay, Replying
  <2> QED BY <1>0, <2>1, <2>2, <2>3 DEF UniqueAt
<1>2. CASE Uncouple(s)
  <2>1. ~ Owns(s, k)' /\ \A t \in Shells \ {s} : Owns(t, k)' <=> Owns(t, k)
    BY <1>0, <1>2 DEF Uncouple, Goto, Owns, TypeOK
  <2>2. UNCHANGED <<list, server, i>> /\ at[s] # "forget"
    BY <1>2 DEF Uncouple, Prompt, serverVars
  <2>3. CASE queue' = Append(queue, Msg(2, id[s]))
    BY <1>0, <2>1, <2>2, <2>3, GivenBack
  <2>4. CASE queue' = queue
    <3>1. OnTheWay(k)' = OnTheWay(k) /\ (Replying(k)' <=> Replying(k))
      BY <2>2, <2>4 DEF OnTheWay, Replying
    <3>2. \A t \in Shells : Owns(t, k)' => Owns(t, k)
      BY <2>1
    <3> QED BY <1>0, <2>2, <3>1, <3>2 DEF UniqueAt
  <2> QED BY <1>2, <2>3, <2>4 DEF Uncouple
<1>3. CASE Interrupt(s)
  <2>1. at[s] # "forget"
    BY <1>0, <1>3 DEF Interrupt, TypeOK
  <2>2. "forget" \notin Resumed(s)
    BY <2>1 DEF Resumed
  <2>3. \A t \in Shells : Owns(t, k)' <=> Owns(t, k)
    BY <1>0, <1>3, <2>1, <2>2 DEF Interrupt, Goto, Owns, TypeOK
  <2>4. UNCHANGED <<queue, list, server, i>>
    BY <1>3 DEF Interrupt, serverVars
  <2>5. OnTheWay(k)' = OnTheWay(k) /\ (Replying(k)' <=> Replying(k))
    BY <2>4 DEF OnTheWay, Replying
  <2> QED BY <1>0, <2>3, <2>4, <2>5 DEF UniqueAt
<1> QED BY <1>1, <1>2, <1>3 DEF User

LEMMA ChildUnique ==
  ASSUME IInv, NEW s \in Shells, Child(s), ~ crossed', NEW k \in Ids
  PROVE  UniqueAt(k)'
<1>0. TypeOK /\ UniqueAt(k)
  BY DEF IInv, Child, Ask, SendOutput, GetId, Forget, Running, UncoupleExit,
     Failed, TypeOK
<1>1. CASE Ask(s) \/ SendOutput(s)
  <2>1. \A t \in Shells : Owns(t, k)' <=> Owns(t, k)
    BY <1>0, <1>1 DEF Ask, SendOutput, Running, Goto, Owns, TypeOK
  <2>2. UNCHANGED <<list, server, i>>
    BY <1>1 DEF Ask, SendOutput, Running, serverVars
  <2>3. \/ queue' = Append(queue, Msg(1, Nobody))
        \/ queue' = Append(queue, Msg(5, Nobody))
    BY <1>1 DEF Ask, SendOutput, Send
  <2> QED BY <1>0, <2>1, <2>2, <2>3, OtherSent
<1>2. CASE GetId(s)
  <2> DEFINE g == queue[Place(3)].id
  <2>1. /\ OnTheWay(k) = {} => OnTheWay(k)' = {}
        /\ \A m, n \in OnTheWay(k)' : m = n
        /\ Place(3) \in OnTheWay(k) => OnTheWay(k)' = {}
    BY <1>0, <1>2, TakeTakes, Taken DEF GetId, UniqueAt, TypeOK
  <2>2. g = k => Place(3) \in OnTheWay(k)
    BY <1>0, <1>2, TakeTakes DEF GetId, OnTheWay
  <2> HIDE DEF g
  <2>3. /\ Owns(s, k)' => g = k
        /\ \A t \in Shells \ {s} : Owns(t, k)' <=> Owns(t, k)
    BY <1>0, <1>2 DEF GetId, Goto, Owns, TypeOK, g
  <2>4. UNCHANGED <<list, server, i>>
    BY <1>2 DEF GetId, Running, serverVars
  <2>5. Replying(k)' <=> Replying(k)
    BY <2>4 DEF Replying
  <2> QED BY <1>0, <2>1, <2>2, <2>3, <2>4, <2>5 DEF UniqueAt
<1>3. CASE Forget(s) \/ Failed(s)
  <2>1. \A t \in Shells : Owns(t, k)' => Owns(t, k)
    BY <1>0, <1>3, NobodyIsNoId DEF Forget, Failed, Running, Goto, Owns, TypeOK
  <2>2. UNCHANGED <<queue, list, server, i>>
    BY <1>3 DEF Forget, Failed, Running, serverVars
  <2>3. OnTheWay(k)' = OnTheWay(k) /\ (Replying(k)' <=> Replying(k))
    BY <2>2 DEF OnTheWay, Replying
  <2> QED BY <1>0, <2>1, <2>2, <2>3 DEF UniqueAt
<1>4. CASE UncoupleExit(s)
  <2>1. at[s] # "forget"
    BY <1>4 DEF IInv, Remembered, UncoupleExit
  <2>2. ~ Owns(s, k)' /\ \A t \in Shells \ {s} : Owns(t, k)' <=> Owns(t, k)
    BY <1>0, <1>4, NobodyIsNoId DEF UncoupleExit, Owns, TypeOK
  <2>3. UNCHANGED <<list, server, i>> /\ queue' = Append(queue, Msg(2, id[s]))
    BY <1>4 DEF UncoupleExit, Send, serverVars
  <2> QED BY <1>0, <2>1, <2>2, <2>3, GivenBack
<1> QED BY <1>1, <1>2, <1>3, <1>4 DEF Child

LEMMA ReceiverUnique ==
  ASSUME IInv, NEW s \in Shells, Receiver(s), ~ crossed', NEW k \in Ids
  PROVE  UniqueAt(k)'
<1>0. TypeOK /\ UniqueAt(k)
  BY DEF IInv, Receiver, Show, ReceiverExit, TypeOK
<1>1. /\ \A t \in Shells : Owns(t, k)' <=> Owns(t, k)
      /\ UNCHANGED <<list, server, i>>
  BY DEF Receiver, Show, ReceiverExit, childVars, serverVars, Owns
<1>2. CASE Show(s)
  <2>1. /\ OnTheWay(k) = {} => OnTheWay(k)' = {}
        /\ \A m, n \in OnTheWay(k)' : m = n
    BY <1>0, <1>2, TakeTakes, Taken DEF Show, UniqueAt, TypeOK
  <2>2. Replying(k)' <=> Replying(k)
    BY <1>1 DEF Replying
  <2> QED BY <1>0, <1>1, <2>1, <2>2, Fewer
<1>3. CASE ReceiverExit(s)
  BY <1>0, <1>1, <1>3, OtherSent DEF ReceiverExit, Send
<1> QED BY <1>2, <1>3 DEF Receiver

LEMMA NextRemembered ==
  ASSUME IInv, [Next]_vars
  PROVE  Remembered'
<1> SUFFICES ASSUME NEW t \in Shells, handler'[t], at'[t] = "forget"
             PROVE  crossed'
  BY DEF Remembered
<1>0. TypeOK /\ (handler[t] /\ at[t] = "forget" => crossed)
  BY DEF IInv, Remembered
<1>1. CASE Server
  BY <1>0, <1>1 DEF Server, Register, Deregister, Broadcast, ReceiveOwn,
     Receive, Reply, Spread, childVars
<1>2. ASSUME NEW s \in Shells, User(s)
      PROVE  crossed'
  <2>1. CASE Interrupt(s)
    <3>1. at'[s] = "forget" => at[s] = "forget"
      BY <1>0, <2>1 DEF Interrupt, Resumed, Goto, TypeOK
    <3>2. crossed' = (crossed \/ at[s] = "forget")
      BY <2>1 DEF Interrupt
    <3>3. CASE t = s
      BY <3>1, <3>2, <3>3
    <3>4. CASE t # s
      BY <1>0, <2>1, <3>2, <3>4 DEF Interrupt, Goto, TypeOK
    <3> QED BY <3>3, <3>4
  <2>2. CASE Couple(s) \/ Uncouple(s) \/ Command(s) \/ End(s)
    BY <1>0, <2>2 DEF Couple, Uncouple, Command, End, Prompt, Goto, TypeOK
  <2> QED BY <1>2, <2>1, <2>2 DEF User
<1>3. ASSUME NEW s \in Shells, Child(s)
      PROVE  crossed'
  BY <1>0, <1>3 DEF Child, Ask, GetId, Forget, SendOutput, UncoupleExit, Failed,
     AfterCouple, Running, Goto, TypeOK
<1>4. ASSUME NEW s \in Shells, Receiver(s)
      PROVE  crossed'
  BY <1>0, <1>4 DEF Receiver, Show, ReceiverExit, childVars
<1>5. CASE UNCHANGED vars
  BY <1>0, <1>5 DEF vars, childVars
<1> QED BY <1>1, <1>2, <1>3, <1>4, <1>5 DEF Next

LEMMA NextUnique ==
  ASSUME IInv, [Next]_vars, ~ crossed', NEW k \in Ids
  PROVE  UniqueAt(k)'
<1>1. CASE UNCHANGED vars
  <2>1. UniqueAt(k)
    BY <1>1 DEF IInv, vars
  <2> QED BY <1>1, <2>1 DEF vars, serverVars, childVars, UniqueAt, Owns, OnTheWay,
             Replying
<1> QED BY <1>1, ServerUnique, UserUnique, ChildUnique, ReceiverUnique DEF Next

LEMMA InitUnique == Init => IInv
<1>1. ASSUME Init, NEW k \in Ids
      PROVE  UniqueAt(k)
  <2>1. \A s \in Shells : ~ Owns(s, k)
    BY <1>1, NobodyIsNoId DEF Init, Owns
  <2>2. OnTheWay(k) = {} /\ ~ Replying(k)
    BY <1>1 DEF Init, OnTheWay, Replying
  <2> QED BY <2>1, <2>2 DEF UniqueAt
<1>2. Init => Remembered
  BY DEF Init, Remembered
<1> QED BY <1>1, <1>2, InitType DEF IInv

\* A set without two elements has at most one.
LEMMA AtMostOne ==
  ASSUME NEW S, \A x, y \in S : x = y
  PROVE  /\ S = {} => Cardinality(S) = 0
         /\ S # {} => Cardinality(S) = 1
<1>1. CASE S = {}
  BY <1>1, FS_EmptySet
<1>2. ASSUME NEW x \in S
      PROVE  Cardinality(S) = 1
  <2>1. S = {x}
    OBVIOUS
  <2> QED BY <2>1, FS_Singleton
<1> QED BY <1>1, <1>2

\* While no interrupt and no stale digit mixes the ids up, each is with one shell,
\* in one message, or about to be sent, and marked as connected.
THEOREM IdsAreUnique == Spec => []UniqueIds
<1>1. ASSUME IInv
      PROVE  UniqueIds
  <2> SUFFICES ASSUME ~ crossed, NEW k \in Ids
               PROVE
      LET owners == {s \in Shells : Owns(s, k)}
          replies == IF server = "reply" /\ i = k THEN {0} ELSE {}
          places == Cardinality(owners) + Cardinality(OnTheWay(k))
                      + Cardinality(replies)
      IN  places <= 1 /\ (places = 1 => k \in list)
    BY DEF UniqueIds
  <2> DEFINE owners == {s \in Shells : Owns(s, k)}
             replies == IF server = "reply" /\ i = k THEN {0} ELSE {}
  <2>1. UniqueAt(k)
    BY <1>1 DEF IInv
  <2>2. /\ owners = {} => Cardinality(owners) = 0
        /\ owners # {} => Cardinality(owners) = 1
    BY <2>1, AtMostOne DEF UniqueAt
  <2>3. /\ OnTheWay(k) = {} => Cardinality(OnTheWay(k)) = 0
        /\ OnTheWay(k) # {} => Cardinality(OnTheWay(k)) = 1
    BY <2>1, AtMostOne DEF UniqueAt
  <2>4. /\ ~ Replying(k) => Cardinality(replies) = 0
        /\ Replying(k) => Cardinality(replies) = 1
    BY FS_EmptySet, FS_Singleton DEF Replying
  <2>5. /\ owners # {} => OnTheWay(k) = {} /\ ~ Replying(k) /\ k \in list
        /\ OnTheWay(k) # {} => ~ Replying(k) /\ k \in list
        /\ Replying(k) => k \in list
    BY <2>1 DEF UniqueAt
  <2> HIDE DEF owners, replies
  <2>6. /\ Cardinality(owners) + Cardinality(OnTheWay(k)) + Cardinality(replies) <= 1
        /\ Cardinality(owners) + Cardinality(OnTheWay(k)) + Cardinality(replies) = 1
             => k \in list
    BY <2>2, <2>3, <2>4, <2>5
  <2> QED BY <2>6 DEF owners, replies
<1>2. IInv /\ [Next]_vars => IInv'
  BY NextType, NextRemembered, NextUnique DEF IInv
<1> QED BY <1>1, <1>2, InitUnique, PTL DEF Spec
-----------------------------------------------------------------------------
(* While nobody interrupts, each shell that awaits an id has a message, or *)
(* the server, at work for it: what the argument for PromptReturns needs.  *)

Waiting == {s \in Shells : at[s] = "await"}

\* A request that the server has not taken, or an id that no shell has taken.
Answering == {n \in DOMAIN queue : queue[n].type \in {1, 3}}
Owed == Cardinality(Answering) + (IF server = "reply" THEN 1 ELSE 0)

Served ==
  /\ ints \in Nat
  /\ ints = 0 =>
       /\ \A s \in Shells : ~ handler[s] /\ at[s] # "failed" /\ receiver[s] = "loop"
       /\ ~ lost => IsFiniteSet(Waiting) /\ Cardinality(Waiting) = Owed

LEMMA AnsweringFinite ==
  ASSUME TypeOK
  PROVE  IsFiniteSet(Answering) /\ Cardinality(Answering) \in Nat /\ Owed \in Nat
<1>1. IsFiniteSet(1 .. Len(queue))
  BY FS_Interval DEF TypeOK
<1>2. Answering \in SUBSET (1 .. Len(queue))
  BY DEF Answering, TypeOK
<1>3. IsFiniteSet(Answering)
  BY <1>1, <1>2, FS_Subset
<1> QED BY <1>3, FS_CardinalityType DEF Owed

\* A message more.
LEMMA AnsweringSent ==
  ASSUME TypeOK, NEW m \in Messages, queue' = Append(queue, m)
  PROVE  Cardinality(Answering') =
           IF m.type \in {1, 3} THEN Cardinality(Answering) + 1
                                ELSE Cardinality(Answering)
<1>1. /\ queue \in Seq(Messages)
      /\ DOMAIN queue = 1 .. Len(queue)
      /\ DOMAIN queue' = DOMAIN queue \cup {Len(queue) + 1}
      /\ \A p \in DOMAIN queue : queue'[p] = queue[p]
      /\ queue'[Len(queue) + 1] = m
  BY DEF TypeOK
<1>2. Answering' = IF m.type \in {1, 3} THEN Answering \cup {Len(queue) + 1} ELSE Answering
  BY <1>1 DEF Answering
<1>3. Len(queue) + 1 \notin Answering
  BY <1>1 DEF Answering
<1> QED BY <1>2, <1>3, AnsweringFinite, FS_AddElement

\* A message less: those that are left have moved up.
LEMMA AnsweringTaken ==
  ASSUME TypeOK, NEW n \in DOMAIN queue,
         queue' \in Seq(Messages), Len(queue') = Len(queue) - 1,
         \A p \in 1 .. Len(queue) - 1 :
           queue'[p] = queue[IF p < n THEN p ELSE p + 1]
  PROVE  Cardinality(Answering') =
           IF queue[n].type \in {1, 3} THEN Cardinality(Answering) - 1
                                       ELSE Cardinality(Answering)
<1> DEFINE Old(p) == IF p < n THEN p ELSE p + 1
           S == Answering'
           T == Answering \ {n}
           f == [p \in S |-> Old(p)]
<1>1. /\ DOMAIN queue' = 1 .. Len(queue) - 1 /\ DOMAIN queue = 1 .. Len(queue)
      /\ Len(queue) \in Nat /\ n \in Nat
  BY DEF TypeOK
<1>2. \A p \in S : Old(p) \in T
  BY <1>1 DEF Answering
<1>3. \A p, q \in S : Old(p) = Old(q) => p = q
  BY <1>1 DEF Answering
<1>4. \A r \in T : \E p \in S : Old(p) = r
  <2> TAKE r \in T
  <2>1. r \in 1 .. Len(queue) /\ r # n /\ queue[r].type \in {1, 3}
    BY <1>1 DEF Answering
  <2>2. CASE r < n
    <3>1. r \in 1 .. Len(queue) - 1 /\ Old(r) = r
      BY <1>1, <2>1, <2>2
    <3>2. r \in S
      BY <1>1, <2>1, <3>1 DEF Answering
    <3> QED BY <3>1, <3>2
  <2>3. CASE n < r
    <3>1. r - 1 \in 1 .. Len(queue) - 1 /\ Old(r - 1) = r
      BY <1>1, <2>1, <2>3
    <3>2. r - 1 \in S
      BY <1>1, <2>1, <3>1 DEF Answering
    <3> QED BY <3>1, <3>2
  <2> QED BY <1>1, <2>1, <2>2, <2>3
<1> HIDE DEF Old, S, T
<1>5. f \in Bijection(S, T)
  <2>1. f \in [S -> T]
    BY <1>2
  <2>2. f \in Injection(S, T)
    BY <1>3, <2>1 DEF Injection, IsInjective
  <2>3. f \in Surjection(S, T)
    BY <1>4, <2>1 DEF Surjection
  <2> QED BY <2>2, <2>3 DEF Bijection
<1>6. IsFiniteSet(T) /\ Cardinality(T) = IF n \in Answering THEN Cardinality(Answering) - 1
                                                            ELSE Cardinality(Answering)
  BY AnsweringFinite, FS_RemoveElement DEF T
<1>7. Cardinality(S) = Cardinality(T)
  BY <1>5, <1>6, FS_Injection DEF Bijection
<1>8. n \in Answering <=> queue[n].type \in {1, 3}
  BY DEF Answering
<1> QED BY <1>6, <1>7, <1>8 DEF S

LEMMA ServerServed ==
  ASSUME TypeOK, Served, Server
  PROVE  Served'
<1>1. UNCHANGED <<ints, handler, at, receiver>> /\ Waiting' = Waiting
  BY DEF Server, Register, Deregister, Broadcast, ReceiveOwn, Receive, Reply,
     Spread, childVars, Waiting
<1>2. Cardinality(Answering) \in Nat
  BY AnsweringFinite
<1>3. ASSUME NEW type, Receive(type)
      PROVE  /\ Cardinality(Answering') = IF type \in {1, 3} THEN Cardinality(Answering) - 1
                                                             ELSE Cardinality(Answering)
             /\ server = "receive"
  <2>1. server = "receive"
    BY <1>3 DEF Receive
  <2> QED BY <1>3, <2>1, ReceiveTakes, AnsweringTaken
<1>4. CASE Register
  <2>1. Owed' = Owed /\ lost' = lost
    BY <1>2, <1>3, <1>4 DEF Register, Owed
  <2> QED BY <1>1, <2>1 DEF Served
<1>5. CASE Deregister \/ Broadcast
  <2>1. Owed' = Owed /\ lost' = lost
    BY <1>2, <1>3, <1>5 DEF Deregister, Broadcast, Owed
  <2> QED BY <1>1, <2>1 DEF Served
<1>6. CASE ReceiveOwn
  BY <1>1, <1>6 DEF ReceiveOwn, Served
<1>7. CASE Reply
  <2>1. Msg(3, i) \in Messages /\ Msg(3, i).type = 3 /\ queue' = Append(queue, Msg(3, i))
    BY <1>7 DEF Reply, Send, TypeOK, Msg, Messages
  <2>2. Cardinality(Answering') = Cardinality(Answering) + 1
    BY <2>1, AnsweringSent
  <2>3. Owed' = Owed /\ lost' = lost
    BY <1>2, <1>7, <2>2 DEF Reply, Owed
  <2> QED BY <1>1, <2>3 DEF Served
<1>8. CASE Spread
  <2>1. /\ Msg(6, Nobody) \in Messages /\ Msg(6, Nobody).type = 6
        /\ queue' = Append(queue, Msg(6, Nobody))
    BY <1>8 DEF Spread, Send, Msg, Messages
  <2>2. Cardinality(Answering') = Cardinality(Answering)
    BY <2>1, AnsweringSent
  <2>3. Owed' = Owed /\ lost' = lost
    BY <1>2, <1>8, <2>2 DEF Spread, Owed
  <2> QED BY <1>1, <2>3 DEF Served
<1> QED BY <1>4, <1>5, <1>6, <1>7, <1>8 DEF Server

\* Nobody has begun or ceased to wait, and no message counts that has come.
LEMMA ServedKept ==
  ASSUME Served, UNCHANGED <<ints, handler, receiver, lost, server>>,
         Waiting' = Waiting, Cardinality(Answering') = Cardinality(Answering),
         \A s \in Shells : at'[s] = "failed" => at[s] = "failed"
  PROVE  Served'
  BY DEF Served, Owed

LEMMA UserServed ==
  ASSUME TypeOK, Served, NEW s \in Shells, User(s)
  PROVE  Served'
<1>1. CASE Couple(s) \/ Command(s) \/ End(s)
  <2>1. /\ UNCHANGED <<ints, handler, receiver, lost, server, queue>>
        /\ at[s] = "prompt" /\ \E place \in {"ask", "output", "hung", "ended"} :
                                 at' = [at EXCEPT ![s] = place]
    BY <1>1 DEF Couple, Command, End, Prompt, Goto, serverVars
  <2>2. Waiting' = Waiting /\ \A t \in Shells : at'[t] = "failed" => at[t] = "failed"
    BY <2>1 DEF Waiting, TypeOK
  <2>3. Answering' = Answering
    BY <2>1 DEF Answering
  <2> QED BY <2>1, <2>2, <2>3, ServedKept
<1>2. CASE Uncouple(s)
  <2>1. /\ UNCHANGED <<ints, handler, receiver, lost, server>>
        /\ at[s] = "prompt" /\ at' = [at EXCEPT ![s] = "forget"]
    BY <1>2 DEF Uncouple, Prompt, Goto, serverVars
  <2>2. Waiting' = Waiting /\ \A t \in Shells : at'[t] = "failed" => at[t] = "failed"
    BY <2>1 DEF Waiting, TypeOK
  <2>3. Cardinality(Answering') = Cardinality(Answering)
    <3>1. CASE queue' = queue
      BY <3>1 DEF Answering
    <3>2. CASE queue' = Append(queue, Msg(2, id[s]))
      <4>1. Msg(2, id[s]) \in Messages /\ Msg(2, id[s]).type = 2
        BY DEF TypeOK, Msg, Messages
      <4> QED BY <3>2, <4>1, AnsweringSent
    <3> QED BY <1>2, <3>1, <3>2 DEF Uncouple
  <2> QED BY <2>1, <2>2, <2>3, ServedKept
<1>3. CASE Interrupt(s)
  BY <1>3 DEF Interrupt, Served
<1> QED BY <1>1, <1>2, <1>3 DEF User

LEMMA ChildServed ==
  ASSUME TypeOK, Served, NEW s \in Shells, Child(s)
  PROVE  Served'
<1>0. Cardinality(Answering) \in Nat
  BY AnsweringFinite
<1>1. CASE Ask(s)
  <2>1. /\ UNCHANGED <<ints, handler, receiver, lost, server>>
        /\ at[s] = "ask" /\ at' = [at EXCEPT ![s] = "await"]
        /\ Msg(1, Nobody) \in Messages /\ Msg(1, Nobody).type = 1
        /\ queue' = Append(queue, Msg(1, Nobody))
    BY <1>1 DEF Ask, Running, Send, Goto, serverVars, Msg, Messages
  <2>2. Cardinality(Answering') = Cardinality(Answering) + 1
    BY <2>1, AnsweringSent
  <2>3. Waiting' = Waiting \cup {s} /\ s \notin Waiting
    BY <2>1 DEF Waiting, TypeOK
  <2>4. IsFiniteSet(Waiting) => /\ IsFiniteSet(Waiting')
                                /\ Cardinality(Waiting') = Cardinality(Waiting) + 1
    BY <2>3, FS_AddElement
  <2>5. \A t \in Shells : at'[t] = "failed" => at[t] = "failed"
    BY <2>1 DEF TypeOK
  <2>6. Owed' = Owed + 1
    BY <1>0, <2>1, <2>2 DEF Owed
  <2> QED BY <2>1, <2>4, <2>5, <2>6 DEF Served
<1>2. CASE GetId(s)
  <2>1. /\ UNCHANGED <<ints, handler, receiver, lost, server>>
        /\ at[s] = "await" /\ \E place \in {"output", "prompt"} :
                                at' = [at EXCEPT ![s] = place]
        /\ Take(3)
    BY <1>2 DEF GetId, Running, Goto, AfterCouple, serverVars
  <2>2. Cardinality(Answering') = Cardinality(Answering) - 1
    <3> HIDE DEF Place
    <3> QED BY <2>1, TakeTakes, AnsweringTaken
  <2>3. Waiting' = Waiting \ {s} /\ s \in Waiting
    BY <2>1 DEF Waiting, TypeOK
  <2>4. IsFiniteSet(Waiting) => /\ IsFiniteSet(Waiting')
                                /\ Cardinality(Waiting') = Cardinality(Waiting) - 1
    BY <2>3, FS_RemoveElement
  <2>5. \A t \in Shells : at'[t] = "failed" => at[t] = "failed"
    BY <2>1 DEF TypeOK
  <2>6. Owed' = Owed - 1
    BY <1>0, <2>1, <2>2 DEF Owed
  <2> QED BY <2>1, <2>4, <2>5, <2>6 DEF Served
<1>3. CASE Forget(s)
  <2>1. /\ UNCHANGED <<ints, handler, receiver, lost, server, queue>>
        /\ at[s] = "forget" /\ at' = [at EXCEPT ![s] = "prompt"]
    BY <1>3 DEF Forget, Running, Goto, serverVars
  <2>2. Waiting' = Waiting /\ \A t \in Shells : at'[t] = "failed" => at[t] = "failed"
    BY <2>1 DEF Waiting, TypeOK
  <2>3. Answering' = Answering
    BY <2>1 DEF Answering
  <2> QED BY <2>1, <2>2, <2>3, ServedKept
<1>4. CASE SendOutput(s)
  <2>1. /\ UNCHANGED <<ints, handler, receiver, lost, server>>
        /\ at[s] = "output" /\ at' = [at EXCEPT ![s] = "prompt"]
        /\ Msg(5, Nobody) \in Messages /\ Msg(5, Nobody).type = 5
        /\ queue' = Append(queue, Msg(5, Nobody))
    BY <1>4 DEF SendOutput, Running, Send, Goto, serverVars, Msg, Messages
  <2>2. Waiting' = Waiting /\ \A t \in Shells : at'[t] = "failed" => at[t] = "failed"
    BY <2>1 DEF Waiting, TypeOK
  <2>3. Cardinality(Answering') = Cardinality(Answering)
    BY <2>1, AnsweringSent
  <2> QED BY <2>1, <2>2, <2>3, ServedKept
<1>5. CASE UncoupleExit(s) \/ Failed(s)
  <2>1. ints # 0 /\ ints' = ints
    BY <1>5 DEF UncoupleExit, Failed, Served
  <2> QED BY <2>1 DEF Served
<1> QED BY <1>1, <1>2, <1>3, <1>4, <1>5 DEF Child

LEMMA ReceiverServed ==
  ASSUME TypeOK, Served, NEW s \in Shells, Receiver(s)
  PROVE  Served'
<1>1. CASE Show(s)
  <2>1. UNCHANGED <<ints, handler, receiver, lost, server, at>> /\ Take(6)
    BY <1>1 DEF Show, serverVars, childVars
  <2>2. Cardinality(Answering') = Cardinality(Answering)
    BY <2>1, TakeTakes, AnsweringTaken
  <2>3. Waiting' = Waiting /\ \A t \in Shells : at'[t] = "failed" => at[t] = "failed"
    BY <2>1 DEF Waiting
  <2> QED BY <2>1, <2>2, <2>3, ServedKept
<1>2. CASE ReceiverExit(s)
  <2>1. ints # 0 /\ ints' = ints
    BY <1>2 DEF ReceiverExit, Served
  <2> QED BY <2>1 DEF Served
<1> QED BY <1>1, <1>2 DEF Receiver

LEMMA NextServed == TypeOK /\ Served /\ [Next]_vars => Served'
<1> SUFFICES ASSUME TypeOK, Served, [Next]_vars PROVE Served'
  OBVIOUS
<1>1. CASE UNCHANGED vars
  BY <1>1 DEF vars, serverVars, childVars, queueVars, Served, Waiting, Answering, Owed
<1> QED BY <1>1, ServerServed, UserServed, ChildServed, ReceiverServed DEF Next

LEMMA InitServed == Init => Served
<1> SUFFICES ASSUME Init PROVE Served
  OBVIOUS
<1>1. Waiting = {} /\ Answering = {}
  BY DEF Init, Waiting, Answering
<1>2. Owed = 0 /\ IsFiniteSet(Waiting) /\ Cardinality(Waiting) = 0
  BY <1>1, FS_EmptySet DEF Owed, Init
<1> QED BY <1>2 DEF Served, Init

\* As long as nobody interrupts and the server has not taken its own reply from
\* the queue, there is an answer or a request for each shell that waits.
NoReplyIsMissing == ints = 0 /\ ~ lost => Cardinality(Waiting) = Owed

\* msgrcv of type 3 takes any reply, so that shells take each other's: still as
\* many ids and requests are on their way as there are shells waiting for one.

THEOREM AsManyRepliesAsWait == Spec => []NoReplyIsMissing
<1>1. Served => NoReplyIsMissing
  BY DEF Served, NoReplyIsMissing
<1> QED BY <1>1, InitServed, NextServed, TypeCorrect, PTL DEF Spec

\* What the server and a shell need for their next call to return: the guards of
\* their actions, while nobody interrupts.
ServerGoes ==
  \/ server = "receive" /\ queue # <<>>
  \/ server \in {"reply", "spread"} /\ Room
ShellGoes(s) ==
  \/ at[s] \in {"ask", "output"} /\ Room
  \/ at[s] = "await" /\ 3 \in Types
  \/ at[s] = "forget"
  \/ receiver[s] = "loop" /\ 6 \in Types

\* A shell is on its way back to the prompt only while a call of somebody can
\* return, unless for one of the reasons that PromptReturns names.
SomebodyGoes ==
  (\E s \in Shells : at[s] \notin {"prompt", "hung", "ended"}) =>
    \/ ServerGoes \/ \E s \in Shells : ShellGoes(s)
    \/ lost \/ Jam \/ server = "overrun" \/ ints > 0

\* No ring of shells and server waits for each other, unless the queue is jammed
\* or one of the other reasons of PromptReturns holds: the safety it rests on.
THEOREM NobodyWaitsForNothing == Spec => []SomebodyGoes
<1>1. TypeOK /\ Served => SomebodyGoes
  <2> SUFFICES ASSUME TypeOK, Served, ~ lost, ~ Jam, server # "overrun", ~ (ints > 0),
                      ~ ServerGoes,
                      NEW s \in Shells, at[s] \notin {"prompt", "hung", "ended"}
               PROVE  \E t \in Shells : ShellGoes(t)
    BY DEF SomebodyGoes
  <2>1. /\ \A t \in Shells : ~ handler[t] /\ at[t] # "failed" /\ receiver[t] = "loop"
        /\ IsFiniteSet(Waiting) /\ Cardinality(Waiting) = Owed
    BY DEF Served
  <2>2. CASE server \in {"reply", "spread"}
    <3>1. ~ Room
      BY <2>2 DEF ServerGoes
    <3>2. 6 \in Types \/ (3 \in Types /\ \E t \in Shells : at[t] = "await")
      BY <2>1, <2>2, <3>1 DEF Jam
    <3> QED BY <2>1, <3>2 DEF ShellGoes
  <2>3. CASE server = "receive"
    <3>1. queue = <<>>
      BY <2>3 DEF ServerGoes
    <3>2. Room
      BY <3>1, ShellAssumption DEF Room, ShellAssumption
    <3>3. at[s] # "await"
      <4>1. Answering = {}
        BY <3>1 DEF Answering
      <4>2. Owed = 0
        BY <2>3, <4>1, FS_EmptySet DEF Owed
      <4>3. Waiting = {}
        BY <2>1, <4>2, FS_EmptySet
      <4> QED BY <4>3 DEF Waiting
    <3>4. at[s] \in {"ask", "output", "forget"}
      BY <2>1, <3>3 DEF TypeOK, Places
    <3> QED BY <3>2, <3>4 DEF ShellGoes
  <2> QED BY <2>2, <2>3 DEF TypeOK
<1> QED BY <1>1, InitServed, NextServed, TypeCorrect, PTL DEF Spec
=============================================================================
