----------------------------- MODULE BankProofs -----------------------------
(* Who an ATM works for, what the master knows, that transactions are put  *)
(* to the accounts once, and that nobody waits for a process that has      *)
(* nothing to do: for any number of clients and ATMs and logs of any       *)
(* length.                                                                 *)
EXTENDS Bank, WellFoundedInduction, FiniteSetTheorems, TLAPS

-----------------------------------------------------------------------------
(* Queues.                                                                 *)

\* A set of natural numbers that is not empty has a least element.
LEMMA Least ==
  ASSUME NEW T, T \subseteq Nat, T # {}
  PROVE  \E x \in T : \A y \in T : x <= y
<1> DEFINE R == OpToRel(<, Nat)
<1>1. IsWellFoundedOn(R, Nat)
  BY NatLessThanWellFounded
<1> HIDE DEF R
<1>2. PICK x \in T : \A y \in T : <<y, x>> \notin R
  BY <1>1, WFMin
<1>3. \A y \in T : ~ (y < x)
  BY <1>2 DEF R, OpToRel
<1> QED BY <1>3

LEMMA LeastIsMin ==
  ASSUME NEW T, T \subseteq Nat, T # {}
  PROVE  Min(T) \in T
<1>1. \E x \in T : \A y \in T : x <= y
  BY Least
<1> QED BY <1>1 DEF Min

\* A queue without its n-th message.
IsWithout(rest, q, n) ==
  /\ rest \in Seq(Messages)
  /\ Len(rest) = Len(q) - 1
  /\ \A p \in 1 .. Len(q) - 1 : rest[p] = q[IF p < n THEN p ELSE p + 1]

LEMMA Removed ==
  ASSUME NEW q \in Seq(Messages), NEW n \in DOMAIN q
  PROVE  IsWithout(RemoveAt(q, n), q, n)
<1> DEFINE L == SubSeq(q, 1, n - 1)
           R == SubSeq(q, n + 1, Len(q))
<1>1. /\ L \in Seq(Messages) /\ Len(L) = n - 1
      /\ \A p \in 1 .. n - 1 : L[p] = q[p]
  OBVIOUS
<1>2. /\ R \in Seq(Messages) /\ Len(R) = Len(q) - n
      /\ \A p \in 1 .. Len(q) - n : R[p] = q[p + n]
  OBVIOUS
<1>3. RemoveAt(q, n) = L \o R
  BY DEF RemoveAt
<1> HIDE DEF L, R
<1>4. /\ L \o R \in Seq(Messages) /\ Len(L \o R) = Len(q) - 1
  BY <1>1, <1>2
<1>5. ASSUME NEW p \in 1 .. Len(q) - 1
      PROVE  (L \o R)[p] = q[IF p < n THEN p ELSE p + 1]
  <2>1. CASE p < n
    BY <2>1, <1>1, <1>2
  <2>2. CASE ~ (p < n)
    <3>1. (L \o R)[p] = R[p - (n - 1)]
      BY <2>2, <1>1, <1>2
    <3>2. p - (n - 1) \in 1 .. Len(q) - n /\ (p - (n - 1)) + n = p + 1
      BY <2>2
    <3> QED BY <2>2, <3>1, <3>2, <1>2
  <2> QED BY <2>1, <2>2
<1> QED BY <1>3, <1>4, <1>5 DEF IsWithout

\* What msgrcv of a reply takes, and what it leaves.
LEMMA ReplyTaken ==
  ASSUME NEW q \in Seq(Messages), HasReply(q)
  PROVE  \E n \in DOMAIN q : /\ q[n].type = "reply"
                             /\ FirstReply(q) = q[n]
                             /\ IsWithout(WithoutReply(q), q, n)
<1> DEFINE I == {k \in 1 .. Len(q) : IsReply(q[k])}
<1>1. I \subseteq Nat /\ I # {}
  BY DEF HasReply
<1>2. SelectInSeq(q, IsReply) = Min(I)
  BY <1>1 DEF SelectInSeq
<1>3. Min(I) \in I
  BY <1>1, LeastIsMin
<1>4. WithoutReply(q) = RemoveAt(q, Min(I))
  BY <1>1, <1>2 DEF WithoutReply, RemoveFirstMatch
<1> DEFINE n == Min(I)
<1>5. n \in DOMAIN q /\ q[n].type = "reply" /\ FirstReply(q) = q[n]
  BY <1>2, <1>3 DEF FirstReply, IsReply
<1> HIDE DEF n, I
<1>6. IsWithout(WithoutReply(q), q, n)
  BY <1>4, <1>5, Removed DEF n
<1> QED BY <1>5, <1>6

LEMMA HeadTaken ==
  ASSUME NEW q \in Seq(Messages), q # <<>>
  PROVE  /\ 1 \in DOMAIN q
         /\ Head(q) = q[1]
         /\ Head(q) \in Messages
         /\ IsWithout(Tail(q), q, 1)
  BY DEF IsWithout

\* A queue of one message.
LEMMA One ==
  ASSUME NEW m \in Messages
  PROVE  /\ <<m>> \in Seq(Messages)
         /\ <<m>> # <<>>
         /\ Len(<<m>>) = 1
         /\ Head(<<m>>) = m
         /\ Tail(<<m>>) = <<>>
         /\ Append(<<>>, m) = <<m>>
         /\ HasReply(<<m>>) => m.type = "reply"
  BY DEF HasReply, IsReply

LEMMA OneReplyTaken ==
  ASSUME NEW m \in Messages, HasReply(<<m>>)
  PROVE  WithoutReply(<<m>>) = <<>>
<1>1. ASSUME NEW q \in Seq(Messages), Len(q) = 1, HasReply(q)
      PROVE  WithoutReply(q) = <<>>
  <2>1. PICK n \in DOMAIN q : IsWithout(WithoutReply(q), q, n)
    BY <1>1, ReplyTaken
  <2>2. WithoutReply(q) \in Seq(Messages) /\ Len(WithoutReply(q)) = 0
    BY <1>1, <2>1 DEF IsWithout
  <2> QED BY <2>2
<1> QED BY <1>1, One

-----------------------------------------------------------------------------
(* The inductive invariant.                                                *)

\* The master is at a cell, for an account, while it works.
MasterPlaced ==
  /\ master # "receive" => subject \in Clients
  /\ master = "free" => place.atm \in Atms /\ place.slot \in Slots

\* ATM a books for c and has its card.
Own(c, a) == account[a] = c /\ card[a].acc = c

\* The phases of an ATM: nobody there, or one client, which is inside, has sent
\* a message or waits for one, is being checked by the master or served, or
\* waits for an answer that the ATM has received itself.
Empty(a) ==
  /\ lock[a] = 1
  /\ \A c \in Clients : ~ Uses(c, a)
  /\ atmQ[a] = <<>> /\ doing[a] = "receive"

Customer(c, a) ==
  /\ lock[a] = 0
  /\ Uses(c, a)
  /\ \A d \in Clients : Uses(d, a) => d = c

Inside(c, a) ==
  /\ client[c] = "inside"
  /\ atmQ[a] = <<>> /\ doing[a] = "receive"
  /\ Own(c, a)

Sent(c, a) ==
  /\ client[c] = "waiting"
  /\ doing[a] = "receive"
  /\ \E m \in Messages :
       /\ atmQ[a] = <<m>>
       /\ IF m.type = "enter" THEN m.of = c ELSE Own(c, a)

Verifying(c, a) ==
  /\ client[c] = "waiting"
  /\ atmQ[a] = <<>> /\ doing[a] = "verify"
  /\ account[a] = c

Served(c, a) ==
  /\ client[c] = "waiting"
  /\ atmQ[a] = <<>> /\ doing[a] \in {"check", "view"}
  /\ Own(c, a)

LeftOut(c, a) ==
  /\ client[c] = "waiting"
  /\ atmQ[a] = <<>> /\ doing[a] = "receive"

Phase(c, a) ==
  \/ Inside(c, a) \/ Sent(c, a) \/ Verifying(c, a) \/ Served(c, a)
  \/ LeftOut(c, a)

InPhase(a) == Empty(a) \/ \E c \in Clients : Customer(c, a) /\ Phase(c, a)

\* In queue q, before place n, the master is asked to check account c.
AskedBefore(q, n, c) ==
  \E j \in 1 .. n - 1 : q[j].type = "verify" /\ q[j].of = c

KnownWhenAsked(q, K) ==
  \A i \in DOMAIN q :
    q[i].type = "globalcc" => q[i].of \in K \/ AskedBefore(q, i, q[i].of)

\* An account that an ATM works for is known or will be.
Announced(q, K) ==
  \A a \in Atms : account[a] # NoAccount =>
    account[a] \in K \/ AskedBefore(q, Len(q) + 1, account[a])

MasterKnows ==
  /\ subject \in known \cup {NoAccount}
  /\ KnownWhenAsked(masterQ, known)
  /\ Announced(masterQ, known)

IInv ==
  /\ TypeOK
  /\ MasterPlaced
  /\ \A a \in Atms : InPhase(a)
  /\ MasterKnows

LEMMA InitIInv == Init => IInv
<1> SUFFICES ASSUME Init PROVE IInv
  OBVIOUS
<1> USE BankAssumption DEF Init, BankAssumption, Atms, Slots
<1>1. TypeOK
  <2>1. /\ <<>> \in Seq(Messages)
        /\ 1 \in 1 .. NumAtms /\ 1 \in 1 .. NumAtms + 1
        /\ 1 \in 1 .. LogSize + 1
    BY DEF Messages
  <2>2. Free \in [acc : Clients \cup {NoAccount}, delta : Int]
    BY DEF Free
  <2>3. log \in [Atms -> [Slots -> [acc : Clients \cup {NoAccount},
                                   delta : Int]]]
    BY <2>2
  <2>4. scan \in [Atms -> [atm : 1 .. NumAtms + 1, slot : 1 .. LogSize + 1,
                          sum : Int]]
    <3>1. [atm |-> 1, slot |-> 1, sum |-> 0] \in
            [atm : 1 .. NumAtms + 1, slot : 1 .. LogSize + 1, sum : Int]
      BY <2>1
    <3> QED BY <3>1
  <2>5. card \in [Atms -> [acc : Clients \cup {NoAccount}, balance : Int]]
    OBVIOUS
  <2>6. /\ client \in [Clients -> {"away", "waiting", "inside"}]
        /\ at \in [Clients -> Atms]
        /\ requests \in [Clients -> Nat]
        /\ ledger \in [Clients -> Int]
        /\ net \in [Clients -> Int]
    BY <2>1
  <2>7. /\ lock \in [Atms -> 0 .. 1]
        /\ atmQ \in [Atms -> Seq(Messages)]
        /\ doing \in [Atms -> {"receive", "verify", "check", "view"}]
        /\ account \in [Atms -> Clients \cup {NoAccount}]
        /\ amount \in [Atms -> Int]
    BY <2>1
  <2>8. /\ masterQ \in Seq(Messages)
        /\ master \in {"receive", "apply", "free"}
        /\ subject \in Clients \cup {NoAccount}
        /\ place \in [atm : 1 .. NumAtms + 1, slot : 1 .. LogSize + 1]
        /\ known \subseteq Clients
        /\ dropped \in BOOLEAN
    BY <2>1
  <2> HIDE DEF Init, Atms, Slots
  <2> QED BY <2>3, <2>4, <2>5, <2>6, <2>7, <2>8 DEF TypeOK
<1>2. MasterPlaced
  BY DEF MasterPlaced
<1>3. \A a \in Atms : InPhase(a)
  BY DEF InPhase, Empty, Uses
<1>4. MasterKnows
  BY DEF MasterKnows, KnownWhenAsked, Announced
<1> QED BY <1>1, <1>2, <1>3, <1>4 DEF IInv

\* What the phases say together of the queue of an ATM.
LEMMA OneCustomerFromPhases ==
  (\A a \in Atms : InPhase(a)) => OneCustomer
<1> SUFFICES ASSUME \A b \in Atms : InPhase(b), NEW a \in Atms
             PROVE  /\ \A c, d \in Clients : Uses(c, a) /\ Uses(d, a) => c = d
                    /\ lock[a] = 1 <=> \A c \in Clients : ~ Uses(c, a)
                    /\ Len(atmQ[a]) + (IF doing[a] = "receive" THEN 0 ELSE 1)
                         <= 1
                    /\ atmQ[a] # <<>> \/ doing[a] # "receive" =>
                         \E c \in Clients : Uses(c, a) /\ client[c] = "waiting"
  BY DEF OneCustomer
<1>1. CASE Empty(a)
  BY <1>1 DEF Empty
<1>2. ASSUME NEW c \in Clients, Customer(c, a), Phase(c, a)
      PROVE  /\ Len(atmQ[a]) + (IF doing[a] = "receive" THEN 0 ELSE 1) <= 1
             /\ atmQ[a] # <<>> \/ doing[a] # "receive" =>
                  client[c] = "waiting"
  <2>1. CASE Sent(c, a)
    BY <2>1, One DEF Sent
  <2>2. CASE ~ Sent(c, a)
    <3>1. atmQ[a] = <<>> /\ Len(atmQ[a]) = 0
      BY <1>2, <2>2 DEF Phase, Inside, Verifying, Served, LeftOut
    <3>2. doing[a] # "receive" => client[c] = "waiting"
      BY <1>2, <2>2 DEF Phase, Inside, Verifying, Served, LeftOut
    <3> QED BY <3>1, <3>2
  <2> QED BY <2>1, <2>2
<1>3. ASSUME NEW c \in Clients, Customer(c, a)
      PROVE  /\ \A d, e \in Clients : Uses(d, a) /\ Uses(e, a) => d = e
             /\ lock[a] = 1 <=> \A d \in Clients : ~ Uses(d, a)
             /\ Uses(c, a)
  BY <1>3 DEF Customer
<1> QED BY <1>1, <1>2, <1>3 DEF InPhase

LEMMA CardIsOwnFromPhases ==
  TypeOK /\ (\A a \in Atms : InPhase(a)) => CardIsOwn
<1> SUFFICES ASSUME TypeOK, \A a \in Atms : InPhase(a),
                    NEW c \in Clients, client[c] = "inside"
             PROVE  Own(c, at[c])
  BY DEF CardIsOwn, Own
<1>1. at[c] \in Atms /\ Uses(c, at[c])
  BY DEF TypeOK, Uses
<1>2. PICK d \in Clients : Customer(d, at[c]) /\ Phase(d, at[c])
  BY <1>1 DEF InPhase, Empty
<1>3. d = c
  BY <1>1, <1>2 DEF Customer
<1> QED BY <1>2, <1>3 DEF Phase, Inside, Sent, Verifying, Served, LeftOut

LEMMA ServedAreKnownFromQueue ==
  TypeOK /\ MasterKnows => ServedAreKnown
  BY DEF TypeOK, MasterKnows, KnownWhenAsked, AskedBefore, ServedAreKnown

-----------------------------------------------------------------------------
(* The steps keep the types.                                               *)

LEMMA MessagesMade ==
  ASSUME NEW c \in Clients, NEW n \in Int
  PROVE  /\ \A text \in {"OK", "NEW", "INSUFFICIENT FUNDS", "BALANCE"} :
              Reply(text, n, c) \in Messages
         /\ \A type \in {"withdraw", "deposit", "view"} :
              Message(type, "", n, c) \in Messages
  BY DEF Reply, Message, Messages

LEMMA PlainMessages ==
  ASSUME NEW c \in Clients
  PROVE  /\ Message("enter", "", 0, c) \in Messages
         /\ Message("verify", "", 0, c) \in Messages
         /\ Message("globalcc", "", 0, c) \in Messages
         /\ \A text \in {"OK", "NEW", "INSUFFICIENT FUNDS"} :
              Reply(text, 0, c) \in Messages
  BY DEF Reply, Message, Messages

LEMMA Grown ==
  ASSUME NEW q \in Seq(Messages), NEW m \in Messages
  PROVE  Append(q, m) \in Seq(Messages)
  OBVIOUS

LEMMA QueueGrown ==
  ASSUME atmQ \in [Atms -> Seq(Messages)], NEW a \in Atms, NEW m \in Messages
  PROVE  /\ [atmQ EXCEPT ![a] = Append(@, m)] \in [Atms -> Seq(Messages)]
         /\ atmQ[a] # <<>> =>
              /\ [atmQ EXCEPT ![a] = Tail(@)] \in [Atms -> Seq(Messages)]
              /\ [atmQ EXCEPT ![a] = Append(Tail(@), m)]
                   \in [Atms -> Seq(Messages)]
<1>1. Append(atmQ[a], m) \in Seq(Messages)
  OBVIOUS
<1>2. atmQ[a] # <<>> => /\ Tail(atmQ[a]) \in Seq(Messages)
                        /\ Append(Tail(atmQ[a]), m) \in Seq(Messages)
  OBVIOUS
<1> QED BY <1>1, <1>2

LEMMA MessageFields ==
  ASSUME NEW m \in Messages
  PROVE  m.of \in Clients /\ m.number \in Int
  BY DEF Messages

LEMMA ClientType ==
  ASSUME TypeOK, NEW c \in Clients, Client(c), InPhase(at[c])
  PROVE  TypeOK'
<1> USE DEF atmVars, masterVars
<1>1. ASSUME NEW a \in Atms, Enter(c, a) PROVE TypeOK'
  <2>1. Message("enter", "", 0, c) \in Messages
    BY PlainMessages
  <2>2. lock[a] \in 0 .. 1 /\ lock[a] > 0
    BY <1>1 DEF Enter, TypeOK
  <2>3. atmQ' \in [Atms -> Seq(Messages)]
    BY <1>1, <2>1, QueueGrown DEF Enter, TypeOK
  <2>5. lock' \in [Atms -> 0 .. 1]
    <3>1. lock[a] - 1 \in 0 .. 1
      BY <2>2
    <3>2. lock \in [Atms -> 0 .. 1] /\ lock' = [lock EXCEPT ![a] = @ - 1]
      BY <1>1 DEF Enter, TypeOK
    <3> QED BY <3>1, <3>2
  <2>4. client' \in [Clients -> {"away", "waiting", "inside"}]
        /\ at' \in [Clients -> Atms]
    BY <1>1 DEF Enter, TypeOK
  <2> QED BY <1>1, <2>3, <2>4, <2>5 DEF Enter, TypeOK
<1>2. ASSUME NEW type \in {"withdraw", "deposit", "view"},
             NEW n \in Int, Ask(c, type, n)
      PROVE  TypeOK'
  <2>1. Message(type, "", n, c) \in Messages
    BY MessagesMade
  <2>2. at[c] \in Atms
    BY DEF TypeOK
  <2>3. atmQ' \in [Atms -> Seq(Messages)]
    BY <1>2, <2>1, <2>2, QueueGrown DEF Ask, TypeOK
  <2>4. client' \in [Clients -> {"away", "waiting", "inside"}]
    BY <1>2 DEF Ask, TypeOK
  <2>5. requests' \in [Clients -> Nat]
    <3>1. /\ requests \in [Clients -> Nat]
          /\ requests' = [requests EXCEPT ![c] = @ + 1]
      BY <1>2 DEF Ask, TypeOK
    <3> QED BY <3>1
  <2> QED BY <1>2, <2>3, <2>4, <2>5 DEF Ask, TypeOK
<1>3. CASE Answered(c)
  <2>1. at[c] \in Atms /\ atmQ[at[c]] \in Seq(Messages)
    BY DEF TypeOK
  <2>2. WithoutReply(atmQ[at[c]]) \in Seq(Messages)
    BY <1>3, <2>1, ReplyTaken DEF Answered, IsWithout
  <2>3. atmQ' \in [Atms -> Seq(Messages)]
    BY <1>3, <2>1, <2>2 DEF Answered, TypeOK
  <2>4. client' \in [Clients -> {"away", "waiting", "inside"}]
    BY <1>3 DEF Answered, TypeOK
  <2> QED BY <1>3, <2>3, <2>4 DEF Answered, TypeOK
<1>4. ASSUME Leave(c), lock[at[c]] = 0 PROVE TypeOK'
  <2>1. at[c] \in Atms /\ 1 \in Atms
    BY BankAssumption DEF TypeOK, Atms, BankAssumption
  <2>2. lock' \in [Atms -> 0 .. 1]
    BY <1>4, <2>1 DEF Leave, TypeOK
  <2>3. client' \in [Clients -> {"away", "waiting", "inside"}]
        /\ at' \in [Clients -> Atms]
    BY <1>4, <2>1 DEF Leave, TypeOK
  <2> QED BY <1>4, <2>2, <2>3 DEF Leave, TypeOK
<1>5. Leave(c) => lock[at[c]] = 0
  BY DEF Leave, InPhase, Empty, Uses, Customer
<1> QED BY <1>1, <1>2, <1>3, <1>4, <1>5, BankAssumption DEF Client, BankAssumption

LEMMA MasterType ==
  ASSUME TypeOK, MasterPlaced, Master
  PROVE  TypeOK'
<1> USE DEF clientVars, atmVars
<1>1. masterQ # <<>> => /\ Tail(masterQ) \in Seq(Messages)
                        /\ Head(masterQ).of \in Clients
  BY HeadTaken, MessageFields DEF TypeOK, IsWithout
<1>2. CASE MasterTakesOwn
  BY <1>1, <1>2 DEF MasterTakesOwn, MasterReceives, masterVars, TypeOK
<1>3. CASE Verify
  <2> DEFINE c == Head(masterQ).of
  <2>1. c \in Clients /\ Tail(masterQ) \in Seq(Messages)
    BY <1>1, <1>3 DEF Verify, MasterReceives
  <2>2. Reply("OK", 0, c) \in Messages /\ Reply("NEW", 0, c) \in Messages
    BY <2>1, PlainMessages
  <2> HIDE DEF c
  <2>3. masterQ' \in Seq(Messages)
    BY <1>3, <2>1, <2>2 DEF Verify, c
  <2>4. known' \subseteq Clients
    BY <1>3, <2>1 DEF Verify, TypeOK, c
  <2>5. ledger' \in [Clients -> Int]
    <3>1. /\ ledger \in [Clients -> Int]
          /\ ledger' = ledger \/ ledger' = [ledger EXCEPT ![c] = 0]
      BY <1>3 DEF Verify, TypeOK, c
    <3> QED BY <3>1
  <2> QED BY <1>3, <2>3, <2>4, <2>5 DEF Verify, TypeOK
<1>4. CASE StartCheck
  <2>1. place' \in [atm : 1 .. NumAtms + 1, slot : 1 .. LogSize + 1]
    BY <1>4, BankAssumption DEF StartCheck, BankAssumption
  <2> QED BY <1>1, <1>4, <2>1 DEF StartCheck, MasterReceives, TypeOK
<1>5. CASE Apply
  <2> DEFINE t == log[place.atm][place.slot]
  <2>1. /\ place.atm \in Atms /\ place.atm \in 1 .. NumAtms + 1
        /\ place.slot \in 1 .. LogSize + 1
    BY <1>5 DEF Apply, TypeOK
  <2>2. [atm |-> place.atm + 1, slot |-> 1]
          \in [atm : 1 .. NumAtms + 1, slot : 1 .. LogSize + 1]
    BY <2>1, BankAssumption DEF Atms, BankAssumption
  <2>3. place' \in [atm : 1 .. NumAtms + 1, slot : 1 .. LogSize + 1]
    BY <1>5, <2>2 DEF Apply, TypeOK
  <2>4. place.slot \in Slots => t.delta \in Int
    BY <2>1 DEF TypeOK
  <2>5. ~ (place.slot > LogSize) => place.slot \in Slots
    BY <2>1, BankAssumption DEF Slots, BankAssumption
  <2> HIDE DEF t
  <2>6. ledger' \in [Clients -> Int]
    <3>1. ledger \in [Clients -> Int]
      BY DEF TypeOK
    <3>2. \/ ledger' = ledger
          \/ /\ place.slot \in Slots
             /\ ledger' = [ledger EXCEPT ![subject] = @ + t.delta]
      BY <1>5, <2>5 DEF Apply, t
    <3> QED BY <2>4, <3>1, <3>2
  <2>7. master' \in {"receive", "apply", "free"}
    BY <1>5 DEF Apply, TypeOK
  <2> QED BY <1>5, <2>3, <2>6, <2>7 DEF Apply, TypeOK
<1>6. CASE FreeCell
  <2>1. place.atm \in Atms /\ place.slot \in Slots
    BY <1>6 DEF FreeCell, MasterPlaced
  <2>2. place.slot + 1 \in 1 .. LogSize + 1
    BY <2>1, BankAssumption DEF Slots, BankAssumption
  <2>3. place' \in [atm : 1 .. NumAtms + 1, slot : 1 .. LogSize + 1]
    BY <1>6, <2>2 DEF FreeCell, TypeOK
  <2>4. Free \in [acc : Clients \cup {NoAccount}, delta : Int]
    BY DEF Free
  <2>5. log' \in [Atms -> [Slots -> [acc : Clients \cup {NoAccount},
                                   delta : Int]]]
    BY <1>6, <2>1, <2>4 DEF FreeCell, TypeOK
  <2> QED BY <1>6, <2>3, <2>5 DEF FreeCell, TypeOK
<1>7. CASE EndCheck
  <2>1. subject \in Clients
    BY <1>7 DEF EndCheck, MasterPlaced
  <2>2. ledger[subject] \in Int
    BY <2>1 DEF TypeOK
  <2> DEFINE n == IF subject \in known THEN ledger[subject] ELSE 0
  <2>5. n \in Int
    BY <2>2
  <2> HIDE DEF n
  <2>6. Reply("BALANCE", n, subject) \in Messages
    BY <2>1, <2>5, MessagesMade
  <2>3. masterQ' \in Seq(Messages)
    BY <1>7, <2>6 DEF EndCheck, TypeOK, n
  <2>4. place' \in [atm : 1 .. NumAtms + 1, slot : 1 .. LogSize + 1]
    BY <1>7, BankAssumption DEF EndCheck, BankAssumption
  <2> QED BY <1>7, <2>3, <2>4 DEF EndCheck, TypeOK
<1> QED BY <1>2, <1>3, <1>4, <1>5, <1>6, <1>7 DEF Master

\* An ATM that serves, or has a message that is no enter, has an account.
LEMMA HasAccount ==
  ASSUME NEW a \in Atms, InPhase(a),
         \/ doing[a] # "receive"
         \/ atmQ[a] # <<>> /\ Head(atmQ[a]).type # "enter"
  PROVE  account[a] \in Clients
<1>1. PICK c \in Clients : Phase(c, a)
  BY DEF InPhase, Empty
<1>2. CASE Sent(c, a)
  <2>1. PICK m \in Messages : /\ atmQ[a] = <<m>>
                              /\ IF m.type = "enter" THEN m.of = c
                                 ELSE Own(c, a)
    BY <1>2 DEF Sent
  <2>2. m.type # "enter"
    BY <1>2, <2>1, One DEF Sent
  <2> QED BY <2>1, <2>2 DEF Own
<1>3. CASE ~ Sent(c, a)
  BY <1>1, <1>3 DEF Phase, Inside, Verifying, Served, LeftOut, Own
<1> QED BY <1>2, <1>3

Logs == [Atms -> [Slots -> [acc : Clients \cup {NoAccount}, delta : Int]]]

LEMMA PushType ==
  ASSUME log \in Logs, NEW a \in Atms, NEW acc \in Clients, NEW delta \in Int,
         Push(a, acc, delta)
  PROVE  log' \in Logs
<1> DEFINE free == {j \in Slots : log[a][j] = Free}
<1>1. CASE free = {}
  BY <1>1 DEF Push
<1>2. CASE free # {}
  <2>1. Min(free) \in Slots
    BY <1>2, LeastIsMin, BankAssumption DEF Slots, BankAssumption
  <2>2. log' = [log EXCEPT ![a][Min(free)] = [acc |-> acc, delta |-> delta]]
    BY <1>2 DEF Push
  <2>3. [acc |-> acc, delta |-> delta]
          \in [acc : Clients \cup {NoAccount}, delta : Int]
    OBVIOUS
  <2> QED BY <2>1, <2>2, <2>3 DEF Logs
<1> QED BY <1>1, <1>2

LEMMA BookType ==
  ASSUME TypeOK, NEW a \in Atms, account[a] \in Clients, NEW delta \in Int,
         Book(a, delta)
  PROVE  log' \in Logs /\ net' \in [Clients -> Int]
<1>1. log \in Logs /\ net \in [Clients -> Int]
  BY DEF TypeOK, Logs
<1>2. log' \in Logs
  BY <1>1, PushType DEF Book
<1>3. net' = [net EXCEPT ![account[a]] = @ + delta]
  BY DEF Book
<1> QED BY <1>1, <1>2, <1>3

LEMMA AtmType ==
  ASSUME TypeOK, NEW a \in Atms, InPhase(a), Atm(a)
  PROVE  TypeOK'
<1> USE DEF clientVars, masterVars
<1>0. /\ atmQ \in [Atms -> Seq(Messages)]
      /\ masterQ \in Seq(Messages)
      /\ atmQ[a] # <<>> => /\ Head(atmQ[a]).of \in Clients
                           /\ Head(atmQ[a]).number \in Int
                           /\ Tail(atmQ[a]) \in Seq(Messages)
      /\ HasReply(masterQ) =>
           /\ WithoutReply(masterQ) \in Seq(Messages)
           /\ FirstReply(masterQ).number \in Int
           /\ FirstReply(masterQ).of \in Clients
  <2>1. atmQ \in [Atms -> Seq(Messages)] /\ masterQ \in Seq(Messages)
    BY DEF TypeOK
  <2>2. ASSUME HasReply(masterQ)
        PROVE  /\ WithoutReply(masterQ) \in Seq(Messages)
               /\ FirstReply(masterQ) \in Messages
    BY <2>1, <2>2, ReplyTaken DEF IsWithout
  <2>3. atmQ[a] # <<>> =>
          Head(atmQ[a]) \in Messages /\ Tail(atmQ[a]) \in Seq(Messages)
    BY <2>1, HeadTaken DEF IsWithout
  <2> QED BY <2>1, <2>2, <2>3, MessageFields
<1>a. atmQ \in [Atms -> Seq(Messages)] /\ masterQ \in Seq(Messages)
  BY DEF TypeOK
<1>1. CASE TakeOwnReply(a)
  BY <1>0, <1>1 DEF TakeOwnReply, Receives, TypeOK, atmVars
<1>2. CASE TakeEnter(a)
  <2> DEFINE c == Head(atmQ[a]).of
  <2>1. c \in Clients
    BY <1>0, <1>2 DEF TakeEnter, Receives
  <2>2. atmQ' \in [Atms -> Seq(Messages)]
    BY <1>0, <1>2 DEF TakeEnter, Receives
  <2> HIDE DEF c
  <2>3. masterQ' \in Seq(Messages)
    <3>1. Message("verify", "", 0, c) \in Messages
      BY <2>1, PlainMessages
    <3>2. masterQ' = Append(masterQ, Message("verify", "", 0, c))
      BY <1>2 DEF TakeEnter, c
    <3> QED BY <1>a, <3>1, <3>2, Grown, Zenon
  <2>4. /\ account' \in [Atms -> Clients \cup {NoAccount}]
        /\ doing' \in [Atms -> {"receive", "verify", "check", "view"}]
    BY <1>2, <2>1 DEF TakeEnter, TypeOK, c
  <2> QED BY <1>2, <2>2, <2>3, <2>4 DEF TakeEnter, TypeOK
<1>3. CASE EndEnter(a)
  <2>1. account[a] \in Clients
    BY <1>3, HasAccount DEF EndEnter
  <2>2. atmQ' \in [Atms -> Seq(Messages)]
    BY <1>0, <1>3, <2>1, PlainMessages, QueueGrown DEF EndEnter
  <2>3. masterQ' \in Seq(Messages)
    BY <1>0, <1>3 DEF EndEnter
  <2>4. [acc |-> account[a], balance |-> 0]
          \in [acc : Clients \cup {NoAccount}, balance : Int]
    BY <2>1
  <2>5. card' \in [Atms -> [acc : Clients \cup {NoAccount}, balance : Int]]
    BY <1>3, <2>4 DEF EndEnter, TypeOK
  <2>6. doing' \in [Atms -> {"receive", "verify", "check", "view"}]
    BY <1>3 DEF EndEnter, TypeOK
  <2> QED BY <1>3, <2>2, <2>3, <2>5, <2>6 DEF EndEnter, TypeOK
<1>4. CASE TakeDeposit(a)
  <2>1. account[a] \in Clients
    BY <1>4, HasAccount DEF TakeDeposit, Receives
  <2>2. log' \in Logs /\ net' \in [Clients -> Int]
    BY <1>0, <1>4, <2>1, BookType DEF TakeDeposit, Receives
  <2>3. atmQ' \in [Atms -> Seq(Messages)]
    BY <1>0, <1>4, <2>1, PlainMessages, QueueGrown DEF TakeDeposit, Receives
  <2> QED BY <1>4, <2>2, <2>3 DEF TakeDeposit, atmVars, TypeOK, Logs
<1>5. CASE TakeWithdraw(a)
  <2>1. atmQ' \in [Atms -> Seq(Messages)] /\ Head(atmQ[a]).number \in Int
    BY <1>0, <1>5 DEF TakeWithdraw, Receives
  <2>2. amount' \in [Atms -> Int]
    BY <1>5, <2>1 DEF TakeWithdraw, TypeOK
  <2>3. [atm |-> 1, slot |-> 1, sum |-> card[a].balance]
          \in [atm : 1 .. NumAtms + 1, slot : 1 .. LogSize + 1, sum : Int]
    BY BankAssumption DEF BankAssumption, TypeOK
  <2>4. scan' \in [Atms -> [atm : 1 .. NumAtms + 1, slot : 1 .. LogSize + 1,
                          sum : Int]]
    BY <1>5, <2>3 DEF TakeWithdraw, TypeOK
  <2>5. doing' \in [Atms -> {"receive", "verify", "check", "view"}]
    BY <1>5 DEF TakeWithdraw, TypeOK
  <2> QED BY <1>5, <2>1, <2>2, <2>4, <2>5 DEF TakeWithdraw, TypeOK
<1>6. CASE CheckSlot(a)
  <2> DEFINE s == scan[a]
             t == log[s.atm][s.slot]
  <2>1. s \in [atm : 1 .. NumAtms + 1, slot : 1 .. LogSize + 1, sum : Int]
        /\ s.atm \in Atms
    BY <1>6 DEF CheckSlot, TypeOK
  <2>2. s.slot > LogSize \/ (s.slot \in Slots /\ t.delta \in Int)
    <3>1. s.slot > LogSize \/ s.slot \in Slots
      BY <2>1, BankAssumption DEF Slots, BankAssumption
    <3>2. s.slot \in Slots => t.delta \in Int
      BY <2>1 DEF TypeOK
    <3> QED BY <3>1, <3>2
  <2> HIDE DEF s, t
  <2> DEFINE new == IF s.slot > LogSize \/ t = Free
                    THEN [s EXCEPT !.atm = @ + 1, !.slot = 1]
                    ELSE [s EXCEPT !.slot = @ + 1,
                            !.sum = IF t.acc = account[a] THEN @ + t.delta
                                    ELSE @]
  <2>3. new \in [atm : 1 .. NumAtms + 1, slot : 1 .. LogSize + 1, sum : Int]
    <3>1. s.atm + 1 \in 1 .. NumAtms + 1 /\ 1 \in 1 .. LogSize + 1
      BY <2>1, BankAssumption DEF Atms, BankAssumption
    <3>2. CASE s.slot > LogSize \/ t = Free
      BY <2>1, <3>1, <3>2
    <3>3. CASE ~ (s.slot > LogSize \/ t = Free)
      <4>1. s.slot + 1 \in 1 .. LogSize + 1
        BY <2>1, <2>2, <3>3, BankAssumption DEF Slots, BankAssumption
      <4>2. (IF t.acc = account[a] THEN s.sum + t.delta ELSE s.sum) \in Int
        BY <2>1, <2>2, <3>3
      <4> QED BY <2>1, <3>3, <4>1, <4>2
    <3> QED BY <3>2, <3>3
  <2>4. scan' = [scan EXCEPT ![a] = new]
    BY <1>6 DEF CheckSlot, s, t
  <2> HIDE DEF new
  <2>5. scan' \in [Atms -> [atm : 1 .. NumAtms + 1, slot : 1 .. LogSize + 1,
                          sum : Int]]
    BY <2>3, <2>4 DEF TypeOK
  <2> QED BY <1>6, <2>5 DEF CheckSlot, TypeOK
<1>7. CASE EndWithdraw(a)
  <2>1. account[a] \in Clients
    BY <1>7, HasAccount DEF EndWithdraw
  <2>2. - amount[a] \in Int
    BY DEF TypeOK
  <2>3. log \in Logs /\ net \in [Clients -> Int]
    BY DEF TypeOK, Logs
  <2>4. log' \in Logs /\ net' \in [Clients -> Int]
    <3>1. CASE Book(a, - amount[a])
      BY <2>1, <2>2, <3>1, BookType
    <3>2. CASE UNCHANGED <<log, net>>
      BY <2>3, <3>2
    <3> QED BY <1>7, <3>1, <3>2 DEF EndWithdraw
  <2>5. atmQ' \in [Atms -> Seq(Messages)]
    <3>1. \/ atmQ' = [atmQ EXCEPT ![a] = Append(@,
                        Reply("INSUFFICIENT FUNDS", 0, account[a]))]
          \/ atmQ' = [atmQ EXCEPT ![a] = Append(@, Reply("OK", 0, account[a]))]
      BY <1>7 DEF EndWithdraw
    <3>2. /\ Reply("INSUFFICIENT FUNDS", 0, account[a]) \in Messages
          /\ Reply("OK", 0, account[a]) \in Messages
      BY <2>1, PlainMessages
    <3>3. /\ [atmQ EXCEPT ![a] = Append(@,
                Reply("INSUFFICIENT FUNDS", 0, account[a]))]
                  \in [Atms -> Seq(Messages)]
          /\ [atmQ EXCEPT ![a] = Append(@, Reply("OK", 0, account[a]))]
               \in [Atms -> Seq(Messages)]
      BY <1>a, <3>2, QueueGrown
    <3> QED BY <3>1, <3>3, Zenon
  <2>6. [atm |-> 1, slot |-> 1, sum |-> 0]
          \in [atm : 1 .. NumAtms + 1, slot : 1 .. LogSize + 1, sum : Int]
    BY BankAssumption DEF BankAssumption
  <2>7. /\ scan' \in [Atms -> [atm : 1 .. NumAtms + 1, slot : 1 .. LogSize + 1,
                             sum : Int]]
        /\ amount' \in [Atms -> Int]
    BY <1>7, <2>6 DEF EndWithdraw, TypeOK
  <2>8. doing' \in [Atms -> {"receive", "verify", "check", "view"}]
    BY <1>7 DEF EndWithdraw, TypeOK
  <2> QED BY <1>7, <2>4, <2>5, <2>7, <2>8 DEF EndWithdraw, TypeOK, Logs
<1>8. CASE TakeView(a)
  <2>1. account[a] \in Clients
    BY <1>8, HasAccount DEF TakeView, Receives
  <2>2. atmQ' \in [Atms -> Seq(Messages)]
    BY <1>0, <1>8 DEF TakeView, Receives
  <2>3. masterQ' \in Seq(Messages)
    <3>1. Message("globalcc", "", 0, account[a]) \in Messages
      BY <2>1, PlainMessages
    <3>2. masterQ' = Append(masterQ, Message("globalcc", "", 0, account[a]))
      BY <1>8 DEF TakeView
    <3> QED BY <1>a, <3>1, <3>2, Grown, Zenon
  <2>4. doing' \in [Atms -> {"receive", "verify", "check", "view"}]
    BY <1>8 DEF TakeView, TypeOK
  <2> QED BY <1>8, <2>2, <2>3, <2>4 DEF TakeView, TypeOK
<1>9. CASE EndView(a)
  <2> DEFINE r == FirstReply(masterQ)
  <2>1. /\ masterQ' \in Seq(Messages)
        /\ r.number \in Int /\ r.of \in Clients
    BY <1>0, <1>9 DEF EndView
  <2> HIDE DEF r
  <2>2. Reply("BALANCE", r.number, r.of) \in Messages
    BY <2>1, MessagesMade
  <2>3. atmQ' \in [Atms -> Seq(Messages)]
    <3>1. \/ atmQ' = [atmQ EXCEPT ![a] =
                        Append(@, Reply("BALANCE", r.number, r.of))]
          \/ atmQ' = atmQ
      BY <1>9 DEF EndView, r
    <3>2. [atmQ EXCEPT ![a] = Append(@, Reply("BALANCE", r.number, r.of))]
            \in [Atms -> Seq(Messages)]
      BY <1>a, <2>2, QueueGrown
    <3> QED BY <1>a, <3>1, <3>2, Zenon
  <2>4. card' \in [Atms -> [acc : Clients \cup {NoAccount}, balance : Int]]
    <3>1. \/ card' = [card EXCEPT ![a] = [@ EXCEPT !.balance = r.number]]
          \/ card' = card
      BY <1>9 DEF EndView, r
    <3>2. card \in [Atms -> [acc : Clients \cup {NoAccount}, balance : Int]]
      BY DEF TypeOK
    <3> QED BY <2>1, <3>1, <3>2
  <2>5. doing' \in [Atms -> {"receive", "verify", "check", "view"}]
    BY <1>9 DEF EndView, TypeOK
  <2> QED BY <1>9, <2>1, <2>3, <2>4, <2>5 DEF EndView, TypeOK
<1> QED BY <1>1, <1>2, <1>3, <1>4, <1>5, <1>6, <1>7, <1>8, <1>9 DEF Atm

-----------------------------------------------------------------------------
(* The steps keep each ATM in a phase.                                     *)

LEMMA PhaseKept ==
  ASSUME NEW b \in Atms, InPhase(b),
         \A c \in Clients : Uses(c, b)' <=> Uses(c, b),
         \A c \in Clients : Uses(c, b) => client'[c] = client[c],
         lock'[b] = lock[b], atmQ'[b] = atmQ[b], doing'[b] = doing[b],
         account'[b] = account[b], card'[b].acc = card[b].acc
  PROVE  InPhase(b)'
<1>1. CASE Empty(b)
  BY <1>1 DEF Empty, InPhase
<1>2. ASSUME NEW c \in Clients, Customer(c, b), Phase(c, b)
      PROVE  Customer(c, b)' /\ Phase(c, b)'
  <2>1. Customer(c, b)' /\ client'[c] = client[c]
    BY <1>2 DEF Customer
  <2>2. Phase(c, b)'
    BY <1>2, <2>1 DEF Phase, Inside, Sent, Verifying, Served, LeftOut, Own
  <2> QED BY <2>1, <2>2
<1> QED BY <1>1, <1>2 DEF InPhase

LEMMA TheCustomer ==
  ASSUME NEW c \in Clients, client[c] # "away", InPhase(at[c])
  PROVE  Customer(c, at[c]) /\ Phase(c, at[c])
<1>1. Uses(c, at[c])
  BY DEF Uses
<1>2. PICK d \in Clients : Customer(d, at[c]) /\ Phase(d, at[c])
  BY <1>1 DEF InPhase, Empty
<1>3. d = c
  BY <1>1, <1>2 DEF Customer
<1> QED BY <1>2, <1>3

LEMMA ClientPhase ==
  ASSUME TypeOK, \A b \in Atms : InPhase(b), NEW c \in Clients, Client(c)
  PROVE  \A b \in Atms : InPhase(b)'
<1> USE DEF atmVars
<1>0. /\ client \in [Clients -> {"away", "waiting", "inside"}]
      /\ at \in [Clients -> Atms]
      /\ lock \in [Atms -> 0 .. 1]
      /\ atmQ \in [Atms -> Seq(Messages)]
  BY DEF TypeOK
<1>1. ASSUME NEW a \in Atms, Enter(c, a), NEW b \in Atms PROVE InPhase(b)'
  <2>1. /\ client[c] = "away" /\ lock[a] > 0
        /\ client' = [client EXCEPT ![c] = "waiting"]
        /\ at' = [at EXCEPT ![c] = a]
        /\ lock' = [lock EXCEPT ![a] = @ - 1]
        /\ atmQ' = [atmQ EXCEPT ![a] =
                      Append(@, Message("enter", "", 0, c))]
        /\ doing' = doing /\ account' = account /\ card' = card
    BY <1>1 DEF Enter
  <2>2. \A d \in Clients :
          Uses(d, b)' <=> Uses(d, b) \/ (d = c /\ b = a)
    BY <1>0, <2>1 DEF Uses
  <2>3. CASE b # a
    <3>1. \A d \in Clients : Uses(d, b) => client'[d] = client[d]
      BY <1>0, <2>1 DEF Uses
    <3>2. lock'[b] = lock[b] /\ atmQ'[b] = atmQ[b]
      BY <1>0, <2>1, <2>3
    <3> QED BY <2>1, <2>2, <2>3, <3>1, <3>2, PhaseKept
  <2>4. CASE b = a
    <3>1. lock[a] # 0
      <4>1. lock[a] > 0
        BY <2>1
      <4> QED BY <4>1
    <3>2. Empty(a)
      BY <2>4, <3>1 DEF InPhase, Customer
    <3> DEFINE m == Message("enter", "", 0, c)
    <3>3. m \in Messages /\ m.type = "enter" /\ m.of = c
      <4>1. m \in Messages
        BY PlainMessages
      <4>2. m.type = "enter" /\ m.of = c
        BY DEF Message
      <4> QED BY <4>1, <4>2
    <3> HIDE DEF m
    <3>4. atmQ'[a] = <<m>>
      <4>1. atmQ'[a] = Append(atmQ[a], m)
        BY <1>0, <2>1 DEF m
      <4> QED BY <3>2, <3>3, <4>1, One DEF Empty
    <3>5. lock'[a] = 0
      <4>1. lock[a] = 1 /\ lock'[a] = lock[a] - 1
        BY <1>0, <2>1, <3>2 DEF Empty
      <4> QED BY <4>1
    <3>6. client'[c] = "waiting" /\ doing'[a] = "receive"
      BY <1>0, <2>1, <3>2 DEF Empty
    <3>7. Customer(c, a)'
      BY <2>2, <2>4, <3>2, <3>5 DEF Customer, Empty
    <3>8. Sent(c, a)'
      BY <3>3, <3>4, <3>6 DEF Sent
    <3> QED BY <2>4, <3>7, <3>8 DEF InPhase, Phase
  <2> QED BY <2>3, <2>4
<1>2. ASSUME NEW type \in {"withdraw", "deposit", "view"},
             NEW n \in Int, Ask(c, type, n), NEW b \in Atms
      PROVE  InPhase(b)'
  <2> DEFINE m == Message(type, "", n, c)
  <2>1. /\ client[c] = "inside"
        /\ client' = [client EXCEPT ![c] = "waiting"]
        /\ at' = at /\ lock' = lock
        /\ atmQ' = [atmQ EXCEPT ![at[c]] = Append(@, m)]
        /\ doing' = doing /\ account' = account /\ card' = card
    BY <1>2 DEF Ask
  <2>2. m \in Messages /\ m.type # "enter"
    BY MessagesMade DEF Message
  <2> HIDE DEF m
  <2>3. at[c] \in Atms /\ Customer(c, at[c]) /\ Inside(c, at[c])
    <3>1. at[c] \in Atms
      BY <1>0
    <3>2. Customer(c, at[c]) /\ Phase(c, at[c])
      BY <2>1, <3>1, TheCustomer
    <3> QED BY <2>1, <3>1, <3>2
            DEF Phase, Sent, Verifying, Served, LeftOut
  <2>4. \A d \in Clients : Uses(d, b)' <=> Uses(d, b)
    BY <1>0, <2>1 DEF Uses
  <2>5. CASE b # at[c]
    <3>1. \A d \in Clients : Uses(d, b) => client'[d] = client[d]
      BY <1>0, <2>1, <2>5 DEF Uses
    <3>2. lock'[b] = lock[b] /\ atmQ'[b] = atmQ[b]
      BY <1>0, <2>1, <2>5
    <3> QED BY <2>1, <2>4, <3>1, <3>2, PhaseKept
  <2>6. CASE b = at[c]
    <3>1. atmQ'[b] = <<m>>
      <4>1. atmQ'[b] = Append(atmQ[b], m)
        BY <1>0, <2>1, <2>6
      <4> QED BY <2>2, <2>3, <2>6, <4>1, One DEF Inside
    <3>2. client'[c] = "waiting" /\ doing'[b] = "receive" /\ Own(c, b)'
      BY <1>0, <2>1, <2>3, <2>6 DEF Inside, Own
    <3>3. Customer(c, b)'
      BY <2>1, <2>3, <2>4, <2>6 DEF Customer
    <3>4. Sent(c, b)'
      BY <2>2, <3>1, <3>2 DEF Sent
    <3> QED BY <3>3, <3>4 DEF InPhase, Phase
  <2> QED BY <2>5, <2>6
<1>3. ASSUME Answered(c), NEW b \in Atms PROVE InPhase(b)'
  <2>1. /\ client[c] = "waiting"
        /\ HasReply(atmQ[at[c]])
        /\ client' = [client EXCEPT ![c] = "inside"]
        /\ at' = at /\ lock' = lock
        /\ atmQ' = [atmQ EXCEPT ![at[c]] = WithoutReply(@)]
        /\ doing' = doing /\ account' = account /\ card' = card
    BY <1>3 DEF Answered
  <2>2. at[c] \in Atms /\ Customer(c, at[c]) /\ Sent(c, at[c])
    <3>1. at[c] \in Atms
      BY <1>0
    <3>2. Customer(c, at[c]) /\ Phase(c, at[c])
      BY <2>1, <3>1, TheCustomer
    <3>3. ~ HasReply(<<>>)
      BY DEF HasReply
    <3> QED BY <2>1, <3>1, <3>2, <3>3
            DEF Phase, Inside, Verifying, Served, LeftOut
  <2>3. \A d \in Clients : Uses(d, b)' <=> Uses(d, b)
    BY <1>0, <2>1 DEF Uses
  <2>4. CASE b # at[c]
    <3>1. \A d \in Clients : Uses(d, b) => client'[d] = client[d]
      BY <1>0, <2>1, <2>4 DEF Uses
    <3>2. lock'[b] = lock[b] /\ atmQ'[b] = atmQ[b]
      BY <1>0, <2>1, <2>4
    <3> QED BY <2>1, <2>3, <3>1, <3>2, PhaseKept
  <2>5. CASE b = at[c]
    <3>1. PICK m \in Messages : /\ atmQ[b] = <<m>>
                                /\ IF m.type = "enter" THEN m.of = c
                                   ELSE Own(c, b)
      BY <2>2, <2>5 DEF Sent
    <3>2. m.type = "reply"
      BY <2>1, <2>5, <3>1, One
    <3>3. atmQ'[b] = <<>>
      <4>1. atmQ'[b] = WithoutReply(atmQ[b])
        BY <1>0, <2>1, <2>5
      <4> QED BY <2>1, <2>5, <3>1, <4>1, OneReplyTaken
    <3>4. client'[c] = "inside" /\ doing'[b] = "receive" /\ Own(c, b)'
      BY <1>0, <2>1, <2>2, <2>5, <3>1, <3>2 DEF Sent, Own
    <3>5. Customer(c, b)'
      BY <2>1, <2>2, <2>3, <2>5 DEF Customer
    <3> QED BY <3>3, <3>4, <3>5 DEF InPhase, Phase, Inside
  <2> QED BY <2>4, <2>5
<1>4. ASSUME Leave(c), NEW b \in Atms PROVE InPhase(b)'
  <2>1. /\ client[c] = "inside"
        /\ client' = [client EXCEPT ![c] = "away"]
        /\ at' = [at EXCEPT ![c] = 1]
        /\ lock' = [lock EXCEPT ![at[c]] = @ + 1]
        /\ atmQ' = atmQ
        /\ doing' = doing /\ account' = account /\ card' = card
    BY <1>4 DEF Leave
  <2>2. at[c] \in Atms /\ Customer(c, at[c]) /\ Inside(c, at[c])
    <3>1. at[c] \in Atms
      BY <1>0
    <3>2. Customer(c, at[c]) /\ Phase(c, at[c])
      BY <2>1, <3>1, TheCustomer
    <3> QED BY <2>1, <3>1, <3>2
            DEF Phase, Sent, Verifying, Served, LeftOut
  <2>3. \A d \in Clients : Uses(d, b)' <=> Uses(d, b) /\ d # c
    BY <1>0, <2>1 DEF Uses
  <2>4. CASE b # at[c]
    <3>1. \A d \in Clients : Uses(d, b) => d # c /\ client'[d] = client[d]
      BY <1>0, <2>1, <2>4 DEF Uses
    <3>2. lock'[b] = lock[b]
      BY <1>0, <2>1, <2>4
    <3> QED BY <2>1, <2>3, <3>1, <3>2, PhaseKept
  <2>5. CASE b = at[c]
    <3>1. lock'[b] = 1
      <4>1. lock[b] = 0 /\ lock'[b] = lock[b] + 1
        BY <1>0, <2>1, <2>2, <2>5 DEF Customer
      <4> QED BY <4>1
    <3>2. \A d \in Clients : ~ Uses(d, b)'
      BY <2>2, <2>3, <2>5 DEF Customer
    <3> QED BY <2>1, <2>2, <2>5, <3>1, <3>2 DEF InPhase, Empty, Inside
  <2> QED BY <2>4, <2>5
<1> QED BY <1>1, <1>2, <1>3, <1>4, BankAssumption DEF Client, BankAssumption

LEMMA MasterPhase ==
  ASSUME \A b \in Atms : InPhase(b), Master
  PROVE  \A b \in Atms : InPhase(b)'
<1>1. UNCHANGED <<clientVars, atmQ, atmVars>>
  BY DEF Master, MasterTakesOwn, Verify, StartCheck, Apply, FreeCell, EndCheck
<1> QED BY <1>1, PhaseKept DEF Uses, clientVars, atmVars

\* An ATM that has taken a message had been sent it by its customer.
LEMMA TakenFrom ==
  ASSUME NEW a \in Atms, InPhase(a), atmQ[a] # <<>>
  PROVE  \E c \in Clients, m \in Messages :
           /\ Customer(c, a) /\ client[c] = "waiting"
           /\ atmQ[a] = <<m>>
           /\ Head(atmQ[a]) = m
           /\ Tail(atmQ[a]) = <<>>
           /\ doing[a] = "receive"
           /\ IF m.type = "enter" THEN m.of = c ELSE Own(c, a)
<1>1. PICK c \in Clients : Customer(c, a) /\ Sent(c, a)
  BY DEF InPhase, Empty, Phase, Inside, Verifying, Served, LeftOut
<1>2. PICK m \in Messages : /\ atmQ[a] = <<m>>
                            /\ IF m.type = "enter" THEN m.of = c
                               ELSE Own(c, a)
  BY <1>1 DEF Sent
<1>3. Head(atmQ[a]) = m /\ Tail(atmQ[a]) = <<>>
  BY <1>2, One
<1> QED BY <1>1, <1>2, <1>3 DEF Sent

\* An ATM at work has a customer that waits, and nothing in its queue.
LEMMA WorksFor ==
  ASSUME NEW a \in Atms, InPhase(a), doing[a] # "receive"
  PROVE  \E c \in Clients :
           /\ Customer(c, a) /\ client[c] = "waiting"
           /\ atmQ[a] = <<>>
           /\ account[a] = c
           /\ doing[a] # "verify" => Own(c, a)
<1>1. PICK c \in Clients : Customer(c, a) /\ Phase(c, a)
  BY DEF InPhase, Empty
<1> QED BY <1>1 DEF Phase, Inside, Sent, Verifying, Served, LeftOut, Own

\* The answer of the ATM to its customer.
LEMMA AnswerSent ==
  ASSUME NEW a \in Atms, NEW c \in Clients, NEW m \in Messages,
         Customer(c, a)', client'[c] = "waiting", doing'[a] = "receive",
         m.type = "reply", Own(c, a)', atmQ'[a] = Append(<<>>, m)
  PROVE  InPhase(a)'
<1>1. atmQ'[a] = <<m>>
  BY One
<1>2. Sent(c, a)'
  BY <1>1 DEF Sent
<1> QED BY <1>2 DEF InPhase, Phase

LEMMA RepliesMade ==
  ASSUME NEW c \in Clients
  PROVE  \A text \in {"OK", "NEW", "INSUFFICIENT FUNDS"} :
           Reply(text, 0, c) \in Messages /\ Reply(text, 0, c).type = "reply"
<1>1. \A text : Reply(text, 0, c).type = "reply"
  BY DEF Reply, Message
<1> QED BY <1>1, PlainMessages

LEMMA AtmPhase ==
  ASSUME TypeOK, \A b \in Atms : InPhase(b), NEW a \in Atms, Atm(a)
  PROVE  \A b \in Atms : InPhase(b)'
<1>0. /\ atmQ \in [Atms -> Seq(Messages)]
      /\ doing \in [Atms -> {"receive", "verify", "check", "view"}]
      /\ account \in [Atms -> Clients \cup {NoAccount}]
      /\ card \in [Atms -> [acc : Clients \cup {NoAccount}, balance : Int]]
      /\ masterQ \in Seq(Messages)
      /\ InPhase(a)
  BY DEF TypeOK
<1>1. /\ client' = client /\ at' = at /\ lock' = lock
      /\ \A c \in Clients, b \in Atms : Uses(c, b)' <=> Uses(c, b)
      /\ \A c \in Clients : Customer(c, a) => Customer(c, a)'
  <2>1. client' = client /\ at' = at /\ lock' = lock
    BY DEF Atm, TakeOwnReply, TakeEnter, EndEnter, TakeDeposit, TakeWithdraw,
           CheckSlot, EndWithdraw, TakeView, EndView, clientVars
  <2> QED BY <2>1 DEF Uses, Customer
<1>2. ASSUME NEW b \in Atms, b # a PROVE InPhase(b)'
  <2>1. atmQ'[b] = atmQ[b]
    BY <1>0, <1>2 DEF Atm, TakeOwnReply, TakeEnter, EndEnter, TakeDeposit,
           TakeWithdraw, CheckSlot, EndWithdraw, TakeView, EndView
  <2>2. doing'[b] = doing[b] /\ account'[b] = account[b]
    BY <1>0, <1>2 DEF Atm, TakeOwnReply, TakeEnter, EndEnter, TakeDeposit,
           TakeWithdraw, CheckSlot, EndWithdraw, TakeView, EndView, atmVars
  <2>3. card'[b] = card[b]
    BY <1>0, <1>2 DEF Atm, TakeOwnReply, TakeEnter, EndEnter, TakeDeposit,
           TakeWithdraw, CheckSlot, EndWithdraw, TakeView, EndView, atmVars
  <2> QED BY <1>1, <2>1, <2>2, <2>3, PhaseKept
<1>3. InPhase(a)'
  <2>1. CASE TakeOwnReply(a)
    <3>1. atmQ[a] # <<>> /\ Head(atmQ[a]).type = "reply"
      BY <2>1 DEF TakeOwnReply, Receives
    <3>2. PICK c \in Clients : /\ Customer(c, a) /\ client[c] = "waiting"
                               /\ Tail(atmQ[a]) = <<>>
                               /\ doing[a] = "receive"
      BY <1>0, <3>1, TakenFrom
    <3>3. atmQ'[a] = <<>> /\ doing'[a] = "receive"
      BY <1>0, <2>1, <3>2 DEF TakeOwnReply, atmVars
    <3> QED BY <1>1, <3>2, <3>3 DEF InPhase, Phase, LeftOut
  <2>2. CASE TakeEnter(a)
    <3>1. atmQ[a] # <<>> /\ Head(atmQ[a]).type = "enter"
      BY <2>2 DEF TakeEnter, Receives
    <3>2. PICK c \in Clients : /\ Customer(c, a) /\ client[c] = "waiting"
                               /\ Tail(atmQ[a]) = <<>>
                               /\ Head(atmQ[a]).of = c
      BY <1>0, <3>1, TakenFrom
    <3>3. atmQ'[a] = <<>> /\ doing'[a] = "verify" /\ account'[a] = c
      BY <1>0, <2>2, <3>2 DEF TakeEnter
    <3> QED BY <1>1, <3>2, <3>3 DEF InPhase, Phase, Verifying
  <2>3. CASE EndEnter(a)
    <3>1. doing[a] = "verify"
      BY <2>3 DEF EndEnter
    <3>2. PICK c \in Clients : /\ Customer(c, a) /\ client[c] = "waiting"
                               /\ atmQ[a] = <<>>
                               /\ account[a] = c
      BY <1>0, <3>1, WorksFor
    <3>3. atmQ'[a] = Append(<<>>, Reply("OK", 0, c)) /\ doing'[a] = "receive"
      BY <1>0, <2>3, <3>2 DEF EndEnter
    <3>4. Own(c, a)'
      <4>1. account' = account
        BY <2>3 DEF EndEnter
      <4>2. \/ card' = [card EXCEPT ![a] =
                          [acc |-> account[a], balance |-> 0]]
            \/ card' = card /\ card[a].acc = account[a]
        BY <2>3 DEF EndEnter
      <4> QED BY <1>0, <3>2, <4>1, <4>2 DEF Own
    <3> QED BY <1>1, <3>2, <3>3, <3>4, AnswerSent, RepliesMade
  <2>4. CASE TakeDeposit(a)
    <3>1. atmQ[a] # <<>> /\ Head(atmQ[a]).type = "deposit"
      BY <2>4 DEF TakeDeposit, Receives
    <3>2. PICK c \in Clients : /\ Customer(c, a) /\ client[c] = "waiting"
                               /\ Tail(atmQ[a]) = <<>>
                               /\ doing[a] = "receive"
                               /\ Own(c, a)
      BY <1>0, <3>1, TakenFrom
    <3>3. atmQ'[a] = Append(<<>>, Reply("OK", 0, c))
      BY <1>0, <2>4, <3>2 DEF TakeDeposit, Own
    <3>4. doing'[a] = "receive" /\ Own(c, a)'
      BY <2>4, <3>2 DEF TakeDeposit, atmVars, Own
    <3> QED BY <1>1, <3>2, <3>3, <3>4, AnswerSent, RepliesMade
  <2>5. CASE TakeWithdraw(a) \/ TakeView(a)
    <3>1. atmQ[a] # <<>> /\ Head(atmQ[a]).type \in {"withdraw", "view"}
      BY <2>5 DEF TakeWithdraw, TakeView, Receives
    <3>2. PICK c \in Clients : /\ Customer(c, a) /\ client[c] = "waiting"
                               /\ Tail(atmQ[a]) = <<>>
                               /\ Own(c, a)
      BY <1>0, <3>1, TakenFrom
    <3>3. /\ atmQ'[a] = <<>> /\ doing'[a] \in {"check", "view"}
          /\ Own(c, a)'
      BY <1>0, <2>5, <3>2 DEF TakeWithdraw, TakeView, Own
    <3> QED BY <1>1, <3>2, <3>3 DEF InPhase, Phase, Served
  <2>6. CASE CheckSlot(a)
    <3>1. UNCHANGED <<atmQ, doing, account, card>>
      BY <2>6 DEF CheckSlot
    <3> QED BY <1>0, <1>1, <3>1, PhaseKept
  <2>7. CASE EndWithdraw(a)
    <3>1. doing[a] = "check"
      BY <2>7 DEF EndWithdraw
    <3>2. PICK c \in Clients : /\ Customer(c, a) /\ client[c] = "waiting"
                               /\ atmQ[a] = <<>>
                               /\ Own(c, a)
      BY <1>0, <3>1, WorksFor
    <3>3. PICK text \in {"OK", "INSUFFICIENT FUNDS"} :
            atmQ'[a] = Append(<<>>, Reply(text, 0, c))
      BY <1>0, <2>7, <3>2 DEF EndWithdraw, Own
    <3>4. doing'[a] = "receive" /\ Own(c, a)'
      BY <1>0, <2>7, <3>2 DEF EndWithdraw, Own
    <3> QED BY <1>1, <3>2, <3>3, <3>4, AnswerSent, RepliesMade
  <2>8. CASE EndView(a)
    <3>1. doing[a] = "view"
      BY <2>8 DEF EndView
    <3>2. PICK c \in Clients : /\ Customer(c, a) /\ client[c] = "waiting"
                               /\ atmQ[a] = <<>>
                               /\ Own(c, a)
      BY <1>0, <3>1, WorksFor
    <3> DEFINE r == FirstReply(masterQ)
               m == Reply("BALANCE", r.number, r.of)
    <3>3. r \in Messages
      BY <1>0, <2>8, ReplyTaken DEF EndView
    <3> HIDE DEF r
    <3>4. r.number \in Int /\ r.of \in Clients
      BY <3>3, MessageFields
    <3>5. m \in Messages /\ m.type = "reply"
      BY <3>4 DEF Reply, Message, Messages
    <3> HIDE DEF m
    <3>6. atmQ'[a] = Append(<<>>, m) /\ doing'[a] = "receive"
      BY <1>0, <2>8, <3>2 DEF EndView, Own, m, r
    <3>7. Own(c, a)'
      <4>1. account' = account
        BY <2>8 DEF EndView
      <4>2. \/ card' = [card EXCEPT ![a] = [@ EXCEPT !.balance = r.number]]
            \/ card' = card
        BY <2>8 DEF EndView, r
      <4> QED BY <1>0, <3>2, <4>1, <4>2 DEF Own
    <3> QED BY <1>1, <3>2, <3>5, <3>6, <3>7, AnswerSent
  <2> QED BY <2>1, <2>2, <2>3, <2>4, <2>5, <2>6, <2>7, <2>8 DEF Atm
<1> QED BY <1>2, <1>3

-----------------------------------------------------------------------------
(* The steps keep what the master knows.                                   *)

\* A message more: an account that is announced is asked about after it.
LEMMA KnownAppended ==
  ASSUME NEW q \in Seq(Messages), NEW m \in Messages, NEW K,
         KnownWhenAsked(q, K),
         m.type = "globalcc" =>
           m.of \in K \/ AskedBefore(q, Len(q) + 1, m.of)
  PROVE  /\ KnownWhenAsked(Append(q, m), K)
         /\ \A c : AskedBefore(q, Len(q) + 1, c) =>
              AskedBefore(Append(q, m), Len(q) + 2, c)
         /\ m.type = "verify" => AskedBefore(Append(q, m), Len(q) + 2, m.of)
<1> DEFINE new == Append(q, m)
<1>1. /\ Len(new) = Len(q) + 1
      /\ \A i \in 1 .. Len(q) : new[i] = q[i]
      /\ new[Len(q) + 1] = m
      /\ DOMAIN q = 1 .. Len(q)
      /\ DOMAIN new = 1 .. Len(q) + 1
  OBVIOUS
<1> HIDE DEF new
<1>2. \A c : \A n \in 1 .. Len(q) + 1 : AskedBefore(q, n, c) =>
        AskedBefore(new, n, c) /\ AskedBefore(new, n + 1, c)
  BY <1>1 DEF AskedBefore
<1>3. KnownWhenAsked(new, K)
  <2> SUFFICES ASSUME NEW i \in 1 .. Len(q) + 1, new[i].type = "globalcc"
               PROVE  new[i].of \in K \/ AskedBefore(new, i, new[i].of)
    BY <1>1 DEF KnownWhenAsked
  <2>1. CASE i \in 1 .. Len(q)
    BY <1>1, <1>2, <2>1 DEF KnownWhenAsked
  <2>2. CASE i = Len(q) + 1
    BY <1>1, <1>2, <2>2
  <2> QED BY <2>1, <2>2
<1>4. \A c : AskedBefore(q, Len(q) + 1, c) => AskedBefore(new, Len(q) + 2, c)
  BY <1>2
<1>5. m.type = "verify" => AskedBefore(new, Len(q) + 2, m.of)
  BY <1>1 DEF AskedBefore
<1> QED BY <1>3, <1>4, <1>5 DEF new

\* A message less, other than a question the master has not looked at.
LEMMA KnownRemoved ==
  ASSUME NEW q \in Seq(Messages), NEW n \in DOMAIN q, NEW rest,
         IsWithout(rest, q, n), NEW K, NEW L, K \subseteq L,
         q[n].type = "verify" => q[n].of \in L,
         KnownWhenAsked(q, K)
  PROVE  /\ KnownWhenAsked(rest, L)
         /\ \A c : AskedBefore(q, Len(q) + 1, c) =>
              c \in L \/ AskedBefore(rest, Len(rest) + 1, c)
<1> DEFINE Old(p) == IF p < n THEN p ELSE p + 1
           New(p) == IF p < n THEN p ELSE p - 1
<1>1. /\ Len(rest) = Len(q) - 1 /\ Len(q) \in Nat /\ Len(rest) \in Nat
      /\ DOMAIN q = 1 .. Len(q) /\ DOMAIN rest = 1 .. Len(rest)
      /\ n \in 1 .. Len(q)
      /\ \A p \in 1 .. Len(rest) : rest[p] = q[Old(p)]
  BY DEF IsWithout
<1>2. ASSUME NEW i \in 1 .. Len(rest) + 1, NEW c,
             AskedBefore(q, IF i < n THEN i ELSE i + 1, c)
      PROVE  c \in L \/ AskedBefore(rest, i, c)
  <2>1. PICK j \in 1 .. Old(i) - 1 : q[j].type = "verify" /\ q[j].of = c
    BY <1>2 DEF AskedBefore
  <2>2. CASE j = n
    BY <2>1, <2>2
  <2>3. CASE j # n
    <3>1. /\ New(j) \in 1 .. i - 1 /\ New(j) \in 1 .. Len(rest)
          /\ Old(New(j)) = j
      BY <1>1, <2>1, <2>3
    <3>2. rest[New(j)] = q[j]
      BY <1>1, <3>1
    <3> QED BY <2>1, <3>1, <3>2 DEF AskedBefore
  <2> QED BY <2>2, <2>3
<1>3. KnownWhenAsked(rest, L)
  <2> SUFFICES ASSUME NEW i \in 1 .. Len(rest), rest[i].type = "globalcc"
               PROVE  rest[i].of \in L \/ AskedBefore(rest, i, rest[i].of)
    BY <1>1 DEF KnownWhenAsked
  <2>1. Old(i) \in DOMAIN q /\ rest[i] = q[Old(i)]
    BY <1>1
  <2>2. rest[i].of \in K \/ AskedBefore(q, Old(i), rest[i].of)
    BY <2>1 DEF KnownWhenAsked
  <2> QED BY <1>1, <1>2, <2>2
<1>4. ASSUME NEW c, AskedBefore(q, Len(q) + 1, c)
      PROVE  c \in L \/ AskedBefore(rest, Len(rest) + 1, c)
  <2>1. Old(Len(rest) + 1) = Len(q) + 1
    BY <1>1
  <2> QED BY <1>1, <1>2, <1>4, <2>1
<1> QED BY <1>3, <1>4

LEMMA ClientKnows ==
  ASSUME MasterKnows, NEW c \in Clients, Client(c)
  PROVE  MasterKnows'
<1>1. UNCHANGED <<masterQ, subject, known, account>>
  BY DEF Client, Enter, Ask, Answered, Leave, masterVars, atmVars
<1> QED BY <1>1 DEF MasterKnows, KnownWhenAsked, Announced, AskedBefore

LEMMA AtmKnows ==
  ASSUME TypeOK, MasterKnows, NEW a \in Atms, InPhase(a), Atm(a)
  PROVE  MasterKnows'
<1>0. /\ atmQ \in [Atms -> Seq(Messages)]
      /\ masterQ \in Seq(Messages)
      /\ account \in [Atms -> Clients \cup {NoAccount}]
  BY DEF TypeOK
<1>1. subject' = subject /\ known' = known
  BY DEF Atm, TakeOwnReply, TakeEnter, EndEnter, TakeDeposit, TakeWithdraw,
         CheckSlot, EndWithdraw, TakeView, EndView, masterVars
<1>2. CASE \/ TakeOwnReply(a) \/ TakeDeposit(a) \/ TakeWithdraw(a)
           \/ CheckSlot(a) \/ EndWithdraw(a)
  <2>1. masterQ' = masterQ /\ account' = account
    BY <1>2 DEF TakeOwnReply, TakeDeposit, TakeWithdraw, CheckSlot,
                EndWithdraw, atmVars
  <2> QED BY <1>1, <2>1 DEF MasterKnows, KnownWhenAsked, Announced, AskedBefore
<1>3. CASE TakeEnter(a)
  <2> DEFINE c == Head(atmQ[a]).of
             m == Message("verify", "", 0, c)
  <2>1. c \in Clients
    <3>1. atmQ[a] # <<>> /\ atmQ[a] \in Seq(Messages)
      BY <1>0, <1>3 DEF TakeEnter, Receives
    <3> QED BY <3>1, HeadTaken, MessageFields
  <2>2. masterQ' = Append(masterQ, m) /\ account' = [account EXCEPT ![a] = c]
    BY <1>3 DEF TakeEnter
  <2> HIDE DEF c
  <2>3. m \in Messages
    BY <2>1, PlainMessages
  <2>4. m.type = "verify" /\ m.of = c
    BY DEF Message
  <2> HIDE DEF m
  <2>5. /\ KnownWhenAsked(Append(masterQ, m), known)
        /\ \A d : AskedBefore(masterQ, Len(masterQ) + 1, d) =>
             AskedBefore(Append(masterQ, m), Len(masterQ) + 2, d)
        /\ AskedBefore(Append(masterQ, m), Len(masterQ) + 2, c)
    BY <1>0, <2>3, <2>4, KnownAppended DEF MasterKnows
  <2>6. Len(masterQ') + 1 = Len(masterQ) + 2
    BY <1>0, <2>2, <2>3
  <2>7. Announced(masterQ, known)'
    <3> SUFFICES ASSUME NEW b \in Atms, account'[b] # NoAccount
                 PROVE  account'[b] \in known' \/
                        AskedBefore(masterQ', Len(masterQ') + 1, account'[b])
      BY DEF Announced
    <3>1. CASE b = a
      BY <1>0, <2>2, <2>5, <2>6, <3>1
    <3>2. CASE b # a
      <4>1. account'[b] = account[b]
        BY <1>0, <2>2, <3>2
      <4> QED BY <1>1, <2>2, <2>5, <2>6, <4>1 DEF MasterKnows, Announced
    <3> QED BY <3>1, <3>2
  <2> QED BY <1>1, <2>2, <2>5, <2>7 DEF MasterKnows
<1>4. CASE TakeView(a)
  <2> DEFINE c == account[a]
             m == Message("globalcc", "", 0, c)
  <2>1. c \in Clients /\ c # NoAccount
    BY <1>4, HasAccount, BankAssumption
       DEF TakeView, Receives, BankAssumption
  <2>2. masterQ' = Append(masterQ, m) /\ account' = account
    BY <1>4 DEF TakeView
  <2>3. c \in known \/ AskedBefore(masterQ, Len(masterQ) + 1, c)
    BY <2>1 DEF MasterKnows, Announced
  <2> HIDE DEF c
  <2>4. m \in Messages
    BY <2>1, PlainMessages
  <2>5. m.type = "globalcc" /\ m.of = c
    BY DEF Message
  <2> HIDE DEF m
  <2>6. /\ KnownWhenAsked(Append(masterQ, m), known)
        /\ \A d : AskedBefore(masterQ, Len(masterQ) + 1, d) =>
             AskedBefore(Append(masterQ, m), Len(masterQ) + 2, d)
    BY <1>0, <2>3, <2>4, <2>5, KnownAppended DEF MasterKnows
  <2>7. Len(masterQ') + 1 = Len(masterQ) + 2
    BY <1>0, <2>2, <2>4
  <2> QED BY <1>1, <2>2, <2>6, <2>7 DEF MasterKnows, Announced
<1>5. CASE EndEnter(a) \/ EndView(a)
  <2>1. /\ HasReply(masterQ) /\ masterQ' = WithoutReply(masterQ)
        /\ account' = account
    BY <1>5 DEF EndEnter, EndView
  <2>2. PICK n \in DOMAIN masterQ : /\ masterQ[n].type = "reply"
                                    /\ IsWithout(masterQ', masterQ, n)
    BY <1>0, <2>1, ReplyTaken
  <2>3. /\ KnownWhenAsked(masterQ', known)
        /\ \A d : AskedBefore(masterQ, Len(masterQ) + 1, d) =>
             d \in known \/ AskedBefore(masterQ', Len(masterQ') + 1, d)
    BY <1>0, <2>2, KnownRemoved DEF MasterKnows
  <2> QED BY <1>1, <2>1, <2>3 DEF MasterKnows, Announced
<1> QED BY <1>2, <1>3, <1>4, <1>5 DEF Atm

LEMMA MasterKnowsMore ==
  ASSUME TypeOK, MasterPlaced, MasterKnows, Master
  PROVE  MasterKnows'
<1>0. masterQ \in Seq(Messages) /\ account' = account
  BY DEF TypeOK, Master, MasterTakesOwn, Verify, StartCheck, Apply, FreeCell,
         EndCheck, atmVars
<1>1. ASSUME masterQ # <<>>, NEW L, known \subseteq L,
             Head(masterQ).type = "verify" => Head(masterQ).of \in L
      PROVE  /\ Tail(masterQ) \in Seq(Messages)
             /\ KnownWhenAsked(Tail(masterQ), L)
             /\ \A d : AskedBefore(masterQ, Len(masterQ) + 1, d) =>
                  \/ d \in L
                  \/ AskedBefore(Tail(masterQ), Len(Tail(masterQ)) + 1, d)
  <2>1. /\ 1 \in DOMAIN masterQ /\ Head(masterQ) = masterQ[1]
        /\ IsWithout(Tail(masterQ), masterQ, 1)
    BY <1>0, <1>1, HeadTaken
  <2>2. Tail(masterQ) \in Seq(Messages)
    BY <2>1 DEF IsWithout
  <2> QED BY <1>0, <1>1, <2>1, <2>2, KnownRemoved DEF MasterKnows
<1>2. CASE MasterTakesOwn
  <2>1. /\ masterQ # <<>> /\ Head(masterQ).type = "reply"
        /\ masterQ' = Tail(masterQ) /\ subject' = subject /\ known' = known
    BY <1>2 DEF MasterTakesOwn, MasterReceives, masterVars
  <2> QED BY <1>0, <1>1, <2>1 DEF MasterKnows, Announced
<1>3. CASE Verify
  <2> DEFINE c == Head(masterQ).of
             m == Reply(IF c \in known THEN "OK" ELSE "NEW", 0, c)
             rest == Tail(masterQ)
             L == known \cup {c}
  <2>1. /\ masterQ # <<>> /\ known' = L /\ subject' = subject
        /\ masterQ' = Append(rest, m)
    BY <1>3 DEF Verify, MasterReceives
  <2>2. c \in Clients
    BY <1>0, <2>1, HeadTaken, MessageFields
  <2>3. /\ rest \in Seq(Messages)
        /\ KnownWhenAsked(rest, L)
        /\ \A d : AskedBefore(masterQ, Len(masterQ) + 1, d) =>
             d \in L \/ AskedBefore(rest, Len(rest) + 1, d)
    BY <1>1, <2>1
  <2> HIDE DEF c, rest, L
  <2>4. m \in Messages /\ m.type = "reply"
    BY <2>2, RepliesMade
  <2> HIDE DEF m
  <2>5. /\ KnownWhenAsked(Append(rest, m), L)
        /\ \A d : AskedBefore(rest, Len(rest) + 1, d) =>
             AskedBefore(Append(rest, m), Len(rest) + 2, d)
    BY <2>3, <2>4, KnownAppended
  <2>6. Len(masterQ') + 1 = Len(rest) + 2
    BY <2>1, <2>3, <2>4
  <2>7. Announced(masterQ, known)'
    <3> SUFFICES ASSUME NEW b \in Atms, account'[b] # NoAccount
                 PROVE  account'[b] \in known' \/
                        AskedBefore(masterQ', Len(masterQ') + 1, account'[b])
      BY DEF Announced
    <3>1. \/ account[b] \in known
          \/ AskedBefore(masterQ, Len(masterQ) + 1, account[b])
      BY <1>0 DEF MasterKnows, Announced
    <3> QED BY <1>0, <2>1, <2>3, <2>5, <2>6, <3>1 DEF L
  <2>8. subject' \in known' \cup {NoAccount}
    BY <2>1 DEF MasterKnows, L
  <2> QED BY <2>1, <2>5, <2>7, <2>8 DEF MasterKnows
<1>4. CASE StartCheck
  <2>1. /\ masterQ # <<>> /\ Head(masterQ).type = "globalcc"
        /\ masterQ' = Tail(masterQ) /\ known' = known
        /\ subject' = Head(masterQ).of
    BY <1>4 DEF StartCheck, MasterReceives
  <2>2. 1 \in DOMAIN masterQ /\ Head(masterQ) = masterQ[1]
    BY <1>0, <2>1, HeadTaken
  <2>3. ~ AskedBefore(masterQ, 1, subject')
    BY DEF AskedBefore
  <2>4. subject' \in known
    BY <2>1, <2>2, <2>3 DEF MasterKnows, KnownWhenAsked
  <2> QED BY <1>0, <1>1, <2>1, <2>4 DEF MasterKnows, Announced
<1>5. CASE Apply \/ FreeCell
  <2>1. UNCHANGED <<masterQ, subject, known>>
    BY <1>5 DEF Apply, FreeCell
  <2> QED BY <1>0, <2>1 DEF MasterKnows, KnownWhenAsked, Announced, AskedBefore
<1>6. CASE EndCheck
  <2> DEFINE n == IF subject \in known THEN ledger[subject] ELSE 0
             m == Reply("BALANCE", n, subject)
  <2>1. /\ masterQ' = Append(masterQ, m) /\ known' = known
        /\ subject' = NoAccount
    BY <1>6 DEF EndCheck
  <2>2. subject \in Clients
    BY <1>6 DEF EndCheck, MasterPlaced
  <2>3. n \in Int
    BY <2>2 DEF TypeOK
  <2> HIDE DEF n
  <2>4. m \in Messages
    BY <2>2, <2>3, MessagesMade
  <2>5. m.type = "reply"
    BY DEF Reply, Message
  <2> HIDE DEF m
  <2>6. /\ KnownWhenAsked(Append(masterQ, m), known)
        /\ \A d : AskedBefore(masterQ, Len(masterQ) + 1, d) =>
             AskedBefore(Append(masterQ, m), Len(masterQ) + 2, d)
    BY <1>0, <2>4, <2>5, KnownAppended DEF MasterKnows
  <2>7. Len(masterQ') + 1 = Len(masterQ) + 2
    BY <1>0, <2>1, <2>4
  <2> QED BY <1>0, <2>1, <2>6, <2>7 DEF MasterKnows, Announced
<1> QED BY <1>2, <1>3, <1>4, <1>5, <1>6 DEF Master

-----------------------------------------------------------------------------
(* The theorems.                                                           *)

LEMMA StepPlaced ==
  ASSUME TypeOK, MasterPlaced, Next
  PROVE  MasterPlaced'
<1>1. CASE \E c \in Clients : Client(c)
  BY <1>1 DEF Client, Enter, Ask, Answered, Leave, masterVars, MasterPlaced
<1>2. CASE \E a \in Atms : Atm(a)
  BY <1>2 DEF Atm, TakeOwnReply, TakeEnter, EndEnter, TakeDeposit,
              TakeWithdraw, CheckSlot, EndWithdraw, TakeView, EndView,
              masterVars, MasterPlaced
<1>3. CASE MasterTakesOwn \/ Verify \/ EndCheck \/ FreeCell
  BY <1>3 DEF MasterTakesOwn, Verify, EndCheck, FreeCell, MasterReceives,
              masterVars, MasterPlaced
<1>4. CASE StartCheck
  <2>1. masterQ # <<>> /\ masterQ \in Seq(Messages)
    BY <1>4 DEF StartCheck, MasterReceives, TypeOK
  <2>2. Head(masterQ).of \in Clients
    BY <2>1, HeadTaken, MessageFields
  <2> QED BY <1>4, <2>2 DEF StartCheck, MasterPlaced
<1>5. CASE Apply
  <2>1. place.slot > LogSize \/ place.slot \in Slots
    BY BankAssumption DEF TypeOK, Slots, BankAssumption
  <2> QED BY <1>5, <2>1 DEF Apply, MasterPlaced
<1> QED BY <1>1, <1>2, <1>3, <1>4, <1>5 DEF Next, Master

LEMMA Step == IInv /\ [Next]_vars => IInv'
<1> SUFFICES ASSUME IInv, [Next]_vars PROVE IInv'
  OBVIOUS
<1>0. TypeOK /\ MasterPlaced /\ (\A b \in Atms : InPhase(b)) /\ MasterKnows
  BY DEF IInv
<1>1. CASE UNCHANGED vars
  BY <1>0, <1>1 DEF IInv, vars, clientVars, atmVars, masterVars, TypeOK,
     MasterPlaced, InPhase, Empty, Customer, Phase, Inside, Sent, Verifying,
     Served, LeftOut, Own, Uses, MasterKnows, KnownWhenAsked, Announced,
     AskedBefore
<1>2. ASSUME NEW c \in Clients, Client(c) PROVE IInv'
  <2>1. at[c] \in Atms
    BY <1>0 DEF TypeOK
  <2>2. TypeOK'
    BY <1>0, <1>2, <2>1, ClientType
  <2>3. MasterPlaced'
    BY <1>0, <1>2, StepPlaced DEF Next
  <2> QED BY <1>0, <1>2, <2>2, <2>3, ClientPhase, ClientKnows DEF IInv
<1>3. ASSUME NEW a \in Atms, Atm(a) PROVE IInv'
  <2>1. MasterPlaced'
    BY <1>0, <1>3, StepPlaced DEF Next
  <2> QED BY <1>0, <1>3, <2>1, AtmType, AtmPhase, AtmKnows DEF IInv
<1>4. CASE Master
  <2>1. MasterPlaced'
    BY <1>0, <1>4, StepPlaced DEF Next
  <2> QED BY <1>0, <1>4, <2>1, MasterType, MasterPhase, MasterKnowsMore
          DEF IInv
<1> QED BY <1>1, <1>2, <1>3, <1>4 DEF Next

\* From the first state on the phases and what the master knows hold together.
THEOREM Inductive == Spec => []IInv
  BY InitIInv, Step, PTL DEF Spec

\* Every variable keeps the values its declaration in the code allows: accounts
\* are those of clients, and the loops of the two checks stay within the logs.
THEOREM TypeCorrect == Spec => []TypeOK
<1>1. IInv => TypeOK
  BY DEF IInv
<1> QED BY <1>1, Inductive, PTL

\* An ATM has one customer and its queue one message, whoever receives what
\* (client.cpp, atm.cpp: both directions use one queue, entry() holds lock).
THEOREM OneCustomerEach == Spec => []OneCustomer
<1>1. IInv => OneCustomer
  BY OneCustomerFromPhases DEF IInv
<1> QED BY <1>1, Inductive, PTL

\* Whoever is inside is the one the ATM books for and whose cell it has
\* (enter() of atm.cpp), even after answers that were meant for another ATM.
THEOREM CardIsTheirs == Spec => []CardIsOwn
<1>1. IInv => CardIsOwn
  BY CardIsOwnFromPhases DEF IInv
<1> QED BY <1>1, Inductive, PTL

\* The master checks only accounts that it has (globalConsistencyCheck), which
\* is why no transaction is freed that was not applied.
THEOREM MasterKnowsThem == Spec => []ServedAreKnown
<1>1. IInv => ServedAreKnown
  BY ServedAreKnownFromQueue DEF IInv
<1> QED BY <1>1, Inductive, PTL

-----------------------------------------------------------------------------
(* Sums.  The set form of well-founded induction (a set that has no least  *)
(* element is empty) does without a predicate as a parameter.              *)

\* f, summed over the subsets of S by taking away one element after another.
Pick(s) == CHOOSE x \in s : TRUE
Summed(f, S, g) ==
  g = [s \in SUBSET S |-> IF s = {} THEN 0 ELSE f[Pick(s)] + g[s \ {Pick(s)}]]

LEMMA SumIs ==
  ASSUME NEW f, NEW S
  PROVE  SumFunctionOnSet(f, S) = (CHOOSE g : Summed(f, S, g))[S]
BY DEF SumFunctionOnSet, FoldFunctionOnSet, MapThenFoldSet, Summed, Pick

LEMMA PickIn ==
  ASSUME NEW s, s # {}
  PROVE  Pick(s) \in s
BY DEF Pick

\* A set of finite sets has all that hold if all smaller ones do.
LEMMA SetInduction ==
  ASSUME NEW S, IsFiniteSet(S), NEW T,
         \A s \in SUBSET S : (\A t \in SUBSET s : t # s => t \in T) => s \in T
  PROVE  S \in T
<1> SUFFICES ASSUME S \notin T PROVE FALSE
  OBVIOUS
<1> DEFINE R == StrictSubsetOrdering(S)
           U == (SUBSET S) \ T
<1>1. IsWellFoundedOn(R, FiniteSubsetsOf(S))
  BY FS_StrictSubsetOrderingWellFounded
<1>2. U \subseteq FiniteSubsetsOf(S) /\ U # {}
  BY FS_FiniteSubsetsOfFinite
<1> HIDE DEF R, U
<1>3. PICK s \in U : \A t \in U : <<t, s>> \notin R
  BY <1>1, <1>2, WFMin
<1>4. \A t \in SUBSET s : t # s => t \in T
  BY <1>3 DEF R, U, StrictSubsetOrdering
<1> QED BY <1>3, <1>4 DEF U

SumEqn(f, s) == SumFunctionOnSet(f, s) = IF s = {} THEN 0 ELSE f[Pick(s)] + SumFunctionOnSet(f, s \ {Pick(s)})

LEMMA SumStep ==
  ASSUME NEW f, NEW S, IsFiniteSet(S)
  PROVE  SumEqn(f, S)
<1> DEFINE T == {s \in SUBSET S : SumEqn(f, s)}
<1>1. ASSUME NEW s \in SUBSET S, \A t \in SUBSET s : t # s => t \in T
      PROVE  SumEqn(f, s)
  <2> DEFINE h == [t \in SUBSET s |->
                     IF t = {} THEN 0 ELSE f[Pick(t)] + SumFunctionOnSet(f, t \ {Pick(t)})]
             g == CHOOSE x : Summed(f, s, x)
  <2>1. \A u \in SUBSET s : u # s => SumFunctionOnSet(f, u) = h[u]
    BY <1>1 DEF SumEqn
  <2>2. \A t \in SUBSET s : t # {} =>
          t \ {Pick(t)} \in SUBSET s /\ t \ {Pick(t)} # s
    BY PickIn
  <2>3. Summed(f, s, h)
    <3>1. \A t \in SUBSET s : t # {} => SumFunctionOnSet(f, t \ {Pick(t)}) = h[t \ {Pick(t)}]
      BY <2>1, <2>2
    <3>2. h = [t \in SUBSET s |-> IF t = {} THEN 0 ELSE f[Pick(t)] + h[t \ {Pick(t)}]]
      BY <3>1
    <3> HIDE DEF h
    <3> QED BY <3>2 DEF Summed
  <2> HIDE DEF h
  <2>4. Summed(f, s, g)
    BY <2>3
  <2> HIDE DEF g
  <2>5. \A t \in SUBSET s : g[t] = IF t = {} THEN 0 ELSE f[Pick(t)] + g[t \ {Pick(t)}]
    BY <2>4, Zenon DEF Summed
  <2>6. \A t \in SUBSET s : h[t] = IF t = {} THEN 0 ELSE f[Pick(t)] + h[t \ {Pick(t)}]
    BY <2>3, Zenon DEF Summed
  <2>7. g[s] = h[s]
    <3> DEFINE V == {t \in SUBSET s : g[t] = h[t]}
    <3>1. ASSUME NEW t \in SUBSET s, \A u \in SUBSET t : u # t => u \in V
          PROVE  t \in V
      <4>1. CASE t = {}
        BY <4>1, <2>5, <2>6
      <4>2. CASE t # {}
        <5>1. t \ {Pick(t)} \in V
          BY <4>2, <3>1, PickIn
        <5> QED BY <4>2, <5>1, <2>5, <2>6
      <4> QED BY <4>1, <4>2
    <3>2. IsFiniteSet(s)
      BY FS_Subset
    <3> HIDE DEF V
    <3>3. s \in V
      BY <3>1, <3>2, SetInduction
    <3> QED BY <3>3 DEF V
  <2>8. SumFunctionOnSet(f, s) = g[s]
    BY SumIs DEF g
  <2>9. h[s] = IF s = {} THEN 0 ELSE f[Pick(s)] + SumFunctionOnSet(f, s \ {Pick(s)})
    BY DEF h
  <2> QED BY <2>7, <2>8, <2>9 DEF SumEqn
<1> HIDE DEF T
<1>2. S \in T
  <2>1. \A s \in SUBSET S : (\A t \in SUBSET s : t # s => t \in T) => s \in T
    BY <1>1 DEF T
  <2> QED BY <2>1, SetInduction
<1> QED BY <1>2 DEF T
LEMMA SumType ==
  ASSUME NEW f, NEW S, IsFiniteSet(S), \A x \in S : f[x] \in Int
  PROVE  SumFunctionOnSet(f, S) \in Int
<1> DEFINE T == {s \in SUBSET S : SumFunctionOnSet(f, s) \in Int}
<1>1. ASSUME NEW s \in SUBSET S, \A t \in SUBSET s : t # s => t \in T
      PROVE  s \in T
  <2>1. IsFiniteSet(s)
    BY FS_Subset
  <2>2. SumFunctionOnSet(f, s) = IF s = {} THEN 0 ELSE f[Pick(s)] + SumFunctionOnSet(f, s \ {Pick(s)})
    BY <2>1, SumStep DEF SumEqn
  <2>3. CASE s # {}
    <3>1. s \ {Pick(s)} \in T /\ f[Pick(s)] \in Int
      BY <1>1, <2>3, PickIn
    <3> QED BY <2>2, <2>3, <3>1
  <2> QED BY <2>2, <2>3
<1> HIDE DEF T
<1>2. S \in T
  BY <1>1, SetInduction
<1> QED BY <1>2 DEF T

\* The sum is the same in whatever order the elements are taken.
LEMMA SumWithout ==
  ASSUME NEW f, NEW S, IsFiniteSet(S), \A x \in S : f[x] \in Int, NEW x \in S
  PROVE  SumFunctionOnSet(f, S) = f[x] + SumFunctionOnSet(f, S \ {x})
<1> DEFINE T == {s \in SUBSET S : \A y \in s : SumFunctionOnSet(f, s) = f[y] + SumFunctionOnSet(f, s \ {y})}
<1>1. ASSUME NEW s \in SUBSET S, \A t \in SUBSET s : t # s => t \in T
      PROVE  s \in T
  <2> SUFFICES ASSUME NEW y \in s PROVE SumFunctionOnSet(f, s) = f[y] + SumFunctionOnSet(f, s \ {y})
    OBVIOUS
  <2> DEFINE p == Pick(s)
  <2>1. IsFiniteSet(s)
    BY FS_Subset
  <2>2. p \in s /\ SumFunctionOnSet(f, s) = f[p] + SumFunctionOnSet(f, s \ {p})
    BY <2>1, SumStep, PickIn DEF SumEqn
  <2> HIDE DEF p
  <2>3. CASE p # y
    <3> DEFINE rest == s \ {p, y}
    <3>1. (s \ {p}) \ {y} = rest /\ (s \ {y}) \ {p} = rest
      OBVIOUS
    <3>2. SumFunctionOnSet(f, s \ {p}) = f[y] + SumFunctionOnSet(f, rest)
      BY <1>1, <2>2, <2>3, <3>1
    <3>3. SumFunctionOnSet(f, s \ {y}) = f[p] + SumFunctionOnSet(f, rest)
      BY <1>1, <2>2, <2>3, <3>1
    <3>4. IsFiniteSet(rest)
      BY <2>1, FS_Subset
    <3>5. SumFunctionOnSet(f, rest) \in Int
      BY <3>4, SumType
    <3>6. f[y] \in Int /\ f[p] \in Int
      BY <2>2
    <3> HIDE DEF rest
    <3> QED BY <2>2, <3>2, <3>3, <3>5, <3>6
  <2> QED BY <2>2, <2>3
<1> HIDE DEF T
<1>2. S \in T
  BY <1>1, SetInduction
<1> QED BY <1>2 DEF T

LEMMA SumSame ==
  ASSUME NEW f, NEW g, NEW S, IsFiniteSet(S), \A x \in S : f[x] = g[x]
  PROVE  SumFunctionOnSet(f, S) = SumFunctionOnSet(g, S)
<1> DEFINE T == {s \in SUBSET S : SumFunctionOnSet(f, s) = SumFunctionOnSet(g, s)}
<1>1. ASSUME NEW s \in SUBSET S, \A t \in SUBSET s : t # s => t \in T
      PROVE  s \in T
  <2>1. IsFiniteSet(s)
    BY FS_Subset
  <2>2. /\ SumFunctionOnSet(f, s) = IF s = {} THEN 0 ELSE f[Pick(s)] + SumFunctionOnSet(f, s \ {Pick(s)})
        /\ SumFunctionOnSet(g, s) = IF s = {} THEN 0 ELSE g[Pick(s)] + SumFunctionOnSet(g, s \ {Pick(s)})
    BY <2>1, SumStep DEF SumEqn
  <2>3. CASE s # {}
    <3>1. s \ {Pick(s)} \in T /\ f[Pick(s)] = g[Pick(s)]
      BY <1>1, <2>3, PickIn
    <3> QED BY <2>2, <2>3, <3>1
  <2> QED BY <2>2, <2>3
<1> HIDE DEF T
<1>2. S \in T
  BY <1>1, SetInduction
<1> QED BY <1>2 DEF T

LEMMA SumZero ==
  ASSUME NEW f, NEW S, IsFiniteSet(S), \A x \in S : f[x] = 0
  PROVE  SumFunctionOnSet(f, S) = 0
<1> DEFINE T == {s \in SUBSET S : SumFunctionOnSet(f, s) = 0}
<1>1. ASSUME NEW s \in SUBSET S, \A t \in SUBSET s : t # s => t \in T
      PROVE  s \in T
  <2>1. IsFiniteSet(s)
    BY FS_Subset
  <2>2. SumFunctionOnSet(f, s) =
          IF s = {} THEN 0 ELSE f[Pick(s)] + SumFunctionOnSet(f, s \ {Pick(s)})
    BY <2>1, SumStep DEF SumEqn
  <2>3. CASE s # {}
    <3>1. s \ {Pick(s)} \in T /\ f[Pick(s)] = 0
      BY <1>1, <2>3, PickIn
    <3> QED BY <2>2, <2>3, <3>1
  <2> QED BY <2>2, <2>3
<1> HIDE DEF T
<1>2. S \in T
  BY <1>1, SetInduction
<1> QED BY <1>2 DEF T

\* One summand changes.
LEMMA SumChange ==
  ASSUME NEW f, NEW g, NEW S, IsFiniteSet(S), NEW x \in S,
         \A y \in S : f[y] \in Int /\ g[y] \in Int,
         \A y \in S : y # x => f[y] = g[y]
  PROVE  SumFunctionOnSet(g, S) = SumFunctionOnSet(f, S) - f[x] + g[x]
<1>1. IsFiniteSet(S \ {x})
  BY FS_Subset
<1>2. SumFunctionOnSet(f, S \ {x}) = SumFunctionOnSet(g, S \ {x}) /\ SumFunctionOnSet(f, S \ {x}) \in Int
  BY <1>1, SumSame, SumType
<1>3. SumFunctionOnSet(f, S) = f[x] + SumFunctionOnSet(f, S \ {x}) /\ SumFunctionOnSet(g, S) = g[x] + SumFunctionOnSet(g, S \ {x})
  BY SumWithout
<1> QED BY <1>2, <1>3

-----------------------------------------------------------------------------
(* The books.                                                              *)

LogEntries == [acc : Clients \cup {NoAccount}, delta : Int]

LEMMA EntryType ==
  ASSUME NEW c \in Clients, NEW t \in LogEntries
  PROVE  Entry(c, t) \in Int
BY DEF Entry, LogEntries

LEMMA LoggedIs ==
  ASSUME TypeOK, NEW c \in Clients
  PROVE  /\ \A a \in Atms : SumFunction(Entries(c, a)) = SumFunctionOnSet(Entries(c, a), Slots)
         /\ \A a \in Atms : SumFunction(Entries(c, a)) \in Int
         /\ Logged(c) = SumFunctionOnSet([a \in Atms |-> SumFunction(Entries(c, a))], Atms)
         /\ Logged(c) \in Int
<1>1. IsFiniteSet(Atms) /\ IsFiniteSet(Slots)
  BY BankAssumption, FS_Interval DEF BankAssumption, Atms, Slots
<1>2. ASSUME NEW a \in Atms
      PROVE  /\ SumFunction(Entries(c, a)) = SumFunctionOnSet(Entries(c, a), Slots)
             /\ SumFunction(Entries(c, a)) \in Int
  <2>1. DOMAIN Entries(c, a) = Slots
    BY DEF Entries
  <2>2. SumFunction(Entries(c, a)) = SumFunctionOnSet(Entries(c, a), Slots)
    BY <2>1 DEF SumFunction
  <2>3. \A j \in Slots : Entries(c, a)[j] \in Int
    BY EntryType DEF TypeOK, LogEntries, Entries
  <2> QED BY <1>1, <2>2, <2>3, SumType
<1> DEFINE F == [a \in Atms |-> SumFunction(Entries(c, a))]
<1>3. DOMAIN F = Atms /\ \A a \in Atms : F[a] \in Int
  BY <1>2
<1>4. Logged(c) = SumFunction(F)
  BY DEF Logged
<1> HIDE DEF F
<1>5. Logged(c) = SumFunctionOnSet(F, Atms) /\ Logged(c) \in Int
  BY <1>1, <1>3, <1>4, SumType DEF SumFunction
<1> QED BY <1>2, <1>5 DEF F

\* Logged is a sum of sums over finite sets.
SumsAreSums ==
  \A c \in Clients :
    /\ \A a \in Atms : /\ SumFunction(Entries(c, a)) = SumFunctionOnSet(Entries(c, a), Slots)
                       /\ SumFunction(Entries(c, a)) \in Int
    /\ Logged(c) = SumFunctionOnSet([a \in Atms |-> SumFunction(Entries(c, a))], Atms)
    /\ Logged(c) \in Int

LEMMA LoggedAlways == TypeOK => SumsAreSums
BY LoggedIs DEF SumsAreSums

LEMMA LoggedNext == (TypeOK => SumsAreSums)'
BY LoggedAlways, PTL

\* One cell of one log changes.
LEMMA LoggedChange ==
  ASSUME TypeOK, TypeOK', NEW c \in Clients, NEW a \in Atms, NEW j \in Slots,
         \A b \in Atms : \A n \in Slots :
           <<b, n>> # <<a, j>> => log'[b][n] = log[b][n]
  PROVE  Logged(c)' = Logged(c) - Entry(c, log[a][j]) + Entry(c, log'[a][j])
<1>1. IsFiniteSet(Atms) /\ IsFiniteSet(Slots)
  BY BankAssumption, FS_Interval DEF BankAssumption, Atms, Slots
<1> DEFINE f == Entries(c, a)
           g == Entries(c, a)'
<1>2. /\ \A n \in Slots : f[n] \in Int /\ g[n] \in Int
      /\ \A n \in Slots : n # j => f[n] = g[n]
      /\ f[j] = Entry(c, log[a][j]) /\ g[j] = Entry(c, log'[a][j])
  <2>1. /\ f = [n \in Slots |-> Entry(c, log[a][n])]
        /\ g = [n \in Slots |-> Entry(c, log'[a][n])]
    BY DEF Entries
  <2>2. \A n \in Slots : log[a][n] \in LogEntries /\ log'[a][n] \in LogEntries
    BY DEF TypeOK, LogEntries
  <2> HIDE DEF f, g
  <2> QED BY <2>1, <2>2, EntryType
<1> HIDE DEF f, g
<1>3. SumFunctionOnSet(g, Slots) = SumFunctionOnSet(f, Slots) - f[j] + g[j]
  BY <1>1, <1>2, SumChange
<1> DEFINE F == [b \in Atms |-> SumFunction(Entries(c, b))]
           G == [b \in Atms |-> SumFunction(Entries(c, b)')]
<1>4. \A b \in Atms : F[b] \in Int /\ G[b] \in Int
  BY LoggedIs, LoggedNext DEF SumsAreSums
<1>5. \A b \in Atms : b # a => F[b] = G[b]
  BY DEF Entries
<1>6. F[a] = SumFunctionOnSet(f, Slots) /\ G[a] = SumFunctionOnSet(g, Slots)
  BY LoggedIs, LoggedNext DEF SumsAreSums, f, g
<1>7. Logged(c) = SumFunctionOnSet(F, Atms) /\ Logged(c)' = SumFunctionOnSet(G, Atms)
  BY LoggedIs, LoggedNext DEF SumsAreSums
<1> HIDE DEF F, G
<1>8. SumFunctionOnSet(G, Atms) = SumFunctionOnSet(F, Atms) - F[a] + G[a]
  BY <1>1, <1>4, <1>5, SumChange
<1>9. SumFunctionOnSet(F, Atms) \in Int /\ F[a] \in Int
  BY <1>1, <1>4, SumType
<1> QED BY <1>2, <1>3, <1>4, <1>6, <1>7, <1>8, <1>9

\* The master has put to the account what it is about to free, and nothing to an
\* account it does not have.
Applying ==
  /\ master = "free" => log[place.atm][place.slot].acc = subject
  /\ \A c \in Clients \ known : ledger[c] = 0

Books == Applying /\ BooksBalance

\* push_transaction has found a cell for what is booked.
NothingDropped == net' # net => log' # log

LEMMA BooksKept ==
  ASSUME TypeOK, TypeOK', Books,
         UNCHANGED <<log, master, subject, place, known, ledger, net>>
  PROVE  Books'
BY DEF Books, Applying, BooksBalance, Applied, Logged, Entries

\* A booking goes to a free cell, which the master is not at.
LEMMA BookKeeps ==
  ASSUME TypeOK, TypeOK', MasterPlaced, Books, NothingDropped, NEW a \in Atms,
         NEW delta \in Int, Book(a, delta), UNCHANGED masterVars
  PROVE  Books'
<1> DEFINE free == {n \in Slots : log[a][n] = Free}
           j == Min(free)
           t == [acc |-> account[a], delta |-> delta]
<1>0. CASE free = {}
  <2>1. log' = log
    BY <1>0, Zenon DEF Book, Push
  <2> QED BY <2>1, BooksKept DEF NothingDropped, masterVars
<1> SUFFICES ASSUME free # {} PROVE Books'
  BY <1>0
<1>1. free \subseteq Nat
  BY DEF Slots
<1>2. j \in Slots /\ log[a][j] = Free
  BY <1>1, LeastIsMin
<1>3. log' = [log EXCEPT ![a][j] = t] /\ net' = [net EXCEPT ![account[a]] = @ + delta]
  BY <1>1, Zenon DEF Book, Push
<1> HIDE DEF free, j
<1>4. /\ log'[a][j] = t
      /\ \A b \in Atms : \A n \in Slots :
           <<b, n>> # <<a, j>> => log'[b][n] = log[b][n]
  BY <1>2, <1>3 DEF TypeOK
<1>5. master = "free" => log'[place.atm][place.slot] = log[place.atm][place.slot]
  <2> SUFFICES ASSUME master = "free"
               PROVE  log'[place.atm][place.slot] = log[place.atm][place.slot]
    OBVIOUS
  <2>1. log[place.atm][place.slot].acc # NoAccount
    BY BankAssumption DEF MasterPlaced, Books, Applying, BankAssumption
  <2>2. <<place.atm, place.slot>> # <<a, j>>
    BY <1>2, <2>1 DEF Free
  <2> QED BY <1>4, <2>2 DEF MasterPlaced
<1>6. Applying'
  BY <1>5 DEF Books, Applying, masterVars
<1>7. ASSUME NEW c \in Clients
      PROVE  net'[c] = ledger'[c] + Logged(c)' - Applied(c)'
  <2>1. Logged(c)' = Logged(c) - Entry(c, log[a][j]) + Entry(c, log'[a][j])
    BY <1>2, <1>4, LoggedChange
  <2>2. /\ Entry(c, log[a][j]) = 0
        /\ Entry(c, log'[a][j]) = IF account[a] = c THEN delta ELSE 0
    BY <1>2, <1>4, BankAssumption DEF Entry, Free, BankAssumption
  <2>3. net'[c] = net[c] + (IF account[a] = c THEN delta ELSE 0)
    <3>1. net \in [Clients -> Int]
      BY DEF TypeOK
    <3>2. CASE account[a] = c
      BY <1>3, <3>1, <3>2
    <3>3. CASE account[a] # c
      <4>1. net'[c] = net[c]
        BY <1>3, <3>1, <3>3
      <4> QED BY <3>1, <3>3, <4>1
    <3> QED BY <3>2, <3>3
  <2>4. Applied(c)' = Applied(c) /\ ledger'[c] = ledger[c]
    BY <1>5 DEF Applied, masterVars
  <2>5. net[c] = ledger[c] + Logged(c) - Applied(c)
    BY DEF Books, BooksBalance
  <2>6. Logged(c) \in Int /\ Applied(c) \in Int /\ ledger[c] \in Int
    <3>1. Applied(c) \in Int
      <4>1. log \in [Atms -> [Slots -> LogEntries]]
        BY DEF TypeOK, LogEntries
      <4> QED BY <4>1 DEF Applied, MasterPlaced, LogEntries
    <3> QED BY <3>1, LoggedIs DEF TypeOK
  <2> QED BY <2>1, <2>2, <2>3, <2>4, <2>5, <2>6
<1> QED BY <1>6, <1>7 DEF Books, BooksBalance

LEMMA AtmBooks ==
  ASSUME TypeOK, TypeOK', MasterPlaced, Books, NothingDropped, NEW a \in Atms, Atm(a)
  PROVE  Books'
<1>1. CASE TakeDeposit(a)
  <2>1. Head(atmQ[a]).number \in Int
    BY <1>1, HeadTaken DEF TakeDeposit, Receives, TypeOK, Messages
  <2> QED BY <1>1, <2>1, BookKeeps DEF TakeDeposit
<1>2. CASE EndWithdraw(a)
  <2>1. - amount[a] \in Int
    BY DEF TypeOK
  <2>2. UNCHANGED masterVars
    BY <1>2 DEF EndWithdraw
  <2>3. CASE UNCHANGED <<log, net>>
    BY <2>2, <2>3, BooksKept DEF masterVars
  <2>4. CASE Book(a, - amount[a])
    BY <2>1, <2>2, <2>4, BookKeeps
  <2> QED BY <1>2, <2>3, <2>4 DEF EndWithdraw
<1>3. CASE ~ TakeDeposit(a) /\ ~ EndWithdraw(a)
  <2>1. UNCHANGED <<log, master, subject, place, known, ledger, net>>
    BY <1>3 DEF Atm, TakeOwnReply, TakeEnter, EndEnter, TakeWithdraw, CheckSlot,
                TakeView, EndView, masterVars
  <2> QED BY <2>1, BooksKept
<1> QED BY <1>1, <1>2, <1>3

\* A transaction is put to the account of the subject, which the master has.
LEMMA ApplyBooks ==
  ASSUME TypeOK, TypeOK', MasterPlaced, subject \in known \cup {NoAccount},
         Books, Apply
  PROVE  Books'
<1>1. CASE UNCHANGED <<master, ledger>>
  <2>1. /\ UNCHANGED <<log, subject, known, ledger, net, master>>
        /\ master = "apply"
    BY <1>1 DEF Apply
  <2> QED BY <2>1 DEF Books, Applying, BooksBalance, Applied, Logged, Entries
<1>2. CASE ~ UNCHANGED <<master, ledger>>
  <2> DEFINE t == log[place.atm][place.slot]
  <2>1. /\ master = "apply" /\ master' = "free"
        /\ place.atm \in Atms /\ ~ (place.slot > LogSize) /\ t.acc = subject
        /\ ledger' = IF subject \in known
                     THEN [ledger EXCEPT ![subject] = @ + t.delta] ELSE ledger
        /\ UNCHANGED <<log, subject, known, net, place>>
    BY <1>2 DEF Apply
  <2>2. subject \in Clients /\ subject \in known
    BY <2>1, BankAssumption DEF MasterPlaced, BankAssumption
  <2>3. place.slot \in Slots
    BY <2>1, BankAssumption DEF TypeOK, Slots, BankAssumption
  <2>4. t \in LogEntries
    BY <2>1, <2>3 DEF TypeOK, LogEntries
  <2>5. Applying'
    BY <2>1, <2>2 DEF Books, Applying, TypeOK
  <2>6. ASSUME NEW c \in Clients
        PROVE  net'[c] = ledger'[c] + Logged(c)' - Applied(c)'
    <3>1. Logged(c)' = Logged(c) /\ net'[c] = net[c] /\ Applied(c) = 0
      BY <2>1 DEF Logged, Entries, Applied
    <3>2. Applied(c)' = IF subject = c THEN t.delta ELSE 0
      BY <2>1 DEF Applied
    <3>3. ledger'[c] = ledger[c] + (IF subject = c THEN t.delta ELSE 0)
      <4>1. ledger \in [Clients -> Int]
        BY DEF TypeOK
      <4>2. CASE subject = c
        BY <2>1, <2>2, <4>1, <4>2
      <4>3. CASE subject # c
        <5>1. ledger'[c] = ledger[c]
          BY <2>1, <2>2, <4>1, <4>3
        <5> QED BY <4>1, <4>3, <5>1
      <4> QED BY <4>2, <4>3
    <3>4. Logged(c) \in Int /\ ledger[c] \in Int /\ t.delta \in Int
      BY <2>4, LoggedIs DEF TypeOK, LogEntries
    <3>5. net[c] = ledger[c] + Logged(c) - Applied(c)
      BY DEF Books, BooksBalance
    <3> QED BY <3>1, <3>2, <3>3, <3>4, <3>5
  <2> QED BY <2>5, <2>6 DEF Books, BooksBalance
<1> QED BY <1>1, <1>2

\* What is freed is what has been put to the account.
LEMMA FreeBooks ==
  ASSUME TypeOK, TypeOK', MasterPlaced, Books, FreeCell
  PROVE  Books'
<1> DEFINE a == place.atm
           j == place.slot
<1>1. /\ master = "free" /\ master' = "apply"
      /\ log' = [log EXCEPT ![a][j] = Free]
      /\ UNCHANGED <<subject, known, ledger, net>>
  BY DEF FreeCell
<1>2. a \in Atms /\ j \in Slots /\ log[a][j].acc = subject
  BY <1>1 DEF MasterPlaced, Books, Applying
<1>3. Applying'
  BY <1>1 DEF Books, Applying
<1>4. ASSUME NEW c \in Clients
      PROVE  net'[c] = ledger'[c] + Logged(c)' - Applied(c)'
  <2>1. /\ log'[a][j] = Free
        /\ \A b \in Atms : \A n \in Slots :
             <<b, n>> # <<a, j>> => log'[b][n] = log[b][n]
    BY <1>1, <1>2 DEF TypeOK
  <2>2. Logged(c)' = Logged(c) - Entry(c, log[a][j]) + Entry(c, log'[a][j])
    BY <1>2, <2>1, LoggedChange
  <2>3. Entry(c, log'[a][j]) = 0 /\ Entry(c, log[a][j]) = Applied(c) /\ Applied(c)' = 0
    BY <1>1, <1>2, <2>1, BankAssumption DEF Entry, Free, Applied, BankAssumption
  <2>4. Logged(c) \in Int /\ ledger[c] \in Int /\ Entry(c, log[a][j]) \in Int
    <3>1. log[a][j] \in LogEntries
      <4>1. log \in [Atms -> [Slots -> LogEntries]]
        BY DEF TypeOK, LogEntries
      <4> HIDE DEF a, j
      <4> QED BY <1>2, <4>1
    <3>2. ledger[c] \in Int
      BY DEF TypeOK
    <3> QED BY <3>1, <3>2, LoggedIs, EntryType
  <2>5. net[c] = ledger[c] + Logged(c) - Applied(c)
    BY DEF Books, BooksBalance
  <2> QED BY <1>1, <2>2, <2>3, <2>4, <2>5
<1> QED BY <1>3, <1>4 DEF Books, BooksBalance

LEMMA MasterBooks ==
  ASSUME TypeOK, TypeOK', MasterPlaced, subject \in known \cup {NoAccount},
         Books, Master
  PROVE  Books'
<1>1. CASE MasterTakesOwn
  BY <1>1, BooksKept DEF MasterTakesOwn, masterVars
<1>2. CASE Verify
  <2> DEFINE c == Head(masterQ).of
  <2>1. /\ known' = known \cup {c}
        /\ ledger' = IF c \in known THEN ledger ELSE [ledger EXCEPT ![c] = 0]
        /\ UNCHANGED <<log, master, subject, place, net>>
    BY <1>2 DEF Verify
  <2>2. ledger' = ledger
    <3>1. ledger \in [Clients -> Int] /\ (c \in Clients /\ c \notin known => ledger[c] = 0)
      BY DEF TypeOK, Books, Applying
    <3> HIDE DEF c
    <3> QED BY <2>1, <3>1
  <2> QED BY <2>1, <2>2 DEF Books, Applying, BooksBalance, Applied, Logged, Entries
<1>3. CASE StartCheck \/ EndCheck
  <2>1. /\ master # "free" /\ master' # "free"
        /\ UNCHANGED <<log, known, ledger, net>>
    BY <1>3 DEF StartCheck, EndCheck, MasterReceives
  <2> QED BY <2>1 DEF Books, Applying, BooksBalance, Applied, Logged, Entries
<1> QED BY <1>1, <1>2, <1>3, ApplyBooks, FreeBooks DEF Master

LEMMA InitBooks == Init => Books
<1> SUFFICES ASSUME Init PROVE Books
  OBVIOUS
<1>1. TypeOK
  BY InitIInv DEF IInv
<1>2. Applying
  BY DEF Init, Applying
<1>3. ASSUME NEW c \in Clients PROVE Logged(c) = 0
  <2>1. IsFiniteSet(Atms) /\ IsFiniteSet(Slots)
    BY BankAssumption, FS_Interval DEF BankAssumption, Atms, Slots
  <2>2. ASSUME NEW a \in Atms PROVE SumFunction(Entries(c, a)) = 0
    <3>1. \A j \in Slots : Entries(c, a)[j] = 0
      BY BankAssumption DEF Init, Entries, Entry, Free, BankAssumption
    <3>2. SumFunctionOnSet(Entries(c, a), Slots) = 0
      BY <2>1, <3>1, SumZero
    <3> QED BY <1>1, <3>2, LoggedIs
  <2> DEFINE F == [a \in Atms |-> SumFunction(Entries(c, a))]
  <2>3. \A a \in Atms : F[a] = 0
    BY <2>2
  <2>4. Logged(c) = SumFunctionOnSet(F, Atms)
    BY <1>1, LoggedIs
  <2> HIDE DEF F
  <2> QED BY <2>1, <2>3, <2>4, SumZero
<1>4. \A c \in Clients : net[c] = 0 /\ ledger[c] = 0 /\ Applied(c) = 0
  BY DEF Init, Applied
<1> QED BY <1>2, <1>3, <1>4 DEF Books, BooksBalance

LEMMA BooksStep ==
  IInv /\ IInv' /\ Books /\ [Next]_vars /\ [NothingDropped]_vars => Books'
<1> SUFFICES ASSUME IInv, IInv', Books, [Next]_vars, [NothingDropped]_vars
             PROVE  Books'
  OBVIOUS
<1>0. TypeOK /\ TypeOK' /\ MasterPlaced /\ subject \in known \cup {NoAccount}
  BY DEF IInv, MasterKnows
<1>1. CASE UNCHANGED vars
  BY <1>0, <1>1, BooksKept DEF vars, masterVars
<1>2. ASSUME NEW c \in Clients, Client(c) PROVE Books'
  <2>1. UNCHANGED <<log, master, subject, place, known, ledger, net>>
    BY <1>2 DEF Client, Enter, Ask, Answered, Leave, masterVars
  <2> QED BY <1>0, <2>1, BooksKept
<1>3. ASSUME NEW a \in Atms, Atm(a) PROVE Books'
  <2>1. NothingDropped
    BY DEF NothingDropped, vars
  <2> QED BY <1>0, <1>3, <2>1, AtmBooks
<1>4. CASE Master
  BY <1>0, <1>4, MasterBooks
<1> QED BY <1>1, <1>2, <1>3, <1>4 DEF Next

\* Every transaction is put to an account once, in whatever order ATMs write into
\* the logs and the master clears them (push_transaction of atm.cpp,
\* globalConsistencyCheck of master.cpp), as long as push_transaction finds a
\* cell for each: when it finds none it says nothing.
THEOREM BooksAreBalanced ==
  Spec /\ [][NothingDropped]_vars => []BooksBalance
<1>1. Books => BooksBalance
  BY DEF Books
<1> QED BY <1>1, InitBooks, BooksStep, Inductive, PTL DEF Spec
-----------------------------------------------------------------------------
(* Nobody waits in vain: as long as no process has received its own message, *)
(* each question an ATM has put to the master is in the queue, answered or   *)
(* not, or is the one the master works on.                                   *)

\* The ATMs that wait for an answer of the master.
Asking == {a \in Atms : doing[a] \in {"verify", "view"}}
Working == IF master = "receive" THEN 0 ELSE 1

AllAsked == ~ dropped => Cardinality(Asking) = Len(masterQ) + Working

\* The message of a client that waits, or the answer, is in the queue, or the ATM
\* is at work on it.
InHand ==
  ~ dropped => \A c \in Clients :
                 client[c] = "waiting" => atmQ[at[c]] # <<>> \/ doing[at[c]] # "receive"

\* If c waits, its message or its answer is in the queue of its ATM, or the ATM
\* looks at the logs, or waits for the master, which has something to do.
Going(c) ==
  client[c] = "waiting" =>
    \/ atmQ[at[c]] # <<>> /\ doing[at[c]] = "receive"
    \/ doing[at[c]] = "check"
    \/ doing[at[c]] \in {"verify", "view"} /\ (masterQ # <<>> \/ master # "receive")

LEMMA AskingFinite ==
  /\ IsFiniteSet(Asking) /\ Cardinality(Asking) \in Nat
  /\ \A S \in SUBSET Atms : IsFiniteSet(S) /\ Cardinality(S) \in Nat
<1>1. 1 \in Int /\ NumAtms \in Int
  BY BankAssumption DEF BankAssumption
<1>2. IsFiniteSet(Atms)
  BY <1>1, FS_Interval DEF Atms
<1>3. \A S \in SUBSET Atms : IsFiniteSet(S) /\ Cardinality(S) \in Nat
  BY <1>2, FS_Subset, FS_CardinalityType
<1> QED BY <1>3 DEF Asking

\* One ATM more that asks, or one less.
LEMMA AskingMore ==
  ASSUME TypeOK, NEW a \in Atms, a \notin Asking, Asking' = Asking \cup {a}
  PROVE  Cardinality(Asking') = Cardinality(Asking) + 1
  BY AskingFinite, FS_AddElement

LEMMA AskingLess ==
  ASSUME TypeOK, NEW a \in Asking, Asking' = Asking \ {a}
  PROVE  Cardinality(Asking') = Cardinality(Asking) - 1
  BY AskingFinite, FS_RemoveElement

LEMMA AtmAsks ==
  ASSUME IInv, AllAsked, NEW a \in Atms, Atm(a)
  PROVE  AllAsked'
<1>0. /\ doing \in [Atms -> {"receive", "verify", "check", "view"}]
      /\ masterQ \in Seq(Messages) /\ Len(masterQ) \in Nat
      /\ atmQ \in [Atms -> Seq(Messages)]
      /\ Cardinality(Asking) \in Nat
  <2>1. /\ doing \in [Atms -> {"receive", "verify", "check", "view"}]
        /\ masterQ \in Seq(Messages) /\ atmQ \in [Atms -> Seq(Messages)]
    BY DEF IInv, TypeOK
  <2> QED BY <2>1, AskingFinite
<1>1. CASE TakeOwnReply(a)
  BY <1>1 DEF TakeOwnReply, AllAsked
<1>2. master' = master
  BY DEF Atm, TakeOwnReply, TakeEnter, EndEnter, TakeDeposit, TakeWithdraw,
         CheckSlot, EndWithdraw, TakeView, EndView, masterVars
<1>3. CASE TakeEnter(a) \/ TakeView(a)
  <2>1. /\ doing[a] = "receive" /\ dropped' = dropped
        /\ \E to \in {"verify", "view"} : doing' = [doing EXCEPT ![a] = to]
    BY <1>3 DEF TakeEnter, TakeView, Receives
  <2>2. \E m \in Messages : masterQ' = Append(masterQ, m)
    <3>1. CASE TakeEnter(a)
      <4>1. atmQ[a] # <<>> /\ masterQ' = Append(masterQ, Message("verify", "", 0, Head(atmQ[a]).of))
        BY <3>1 DEF TakeEnter, Receives
      <4>2. Head(atmQ[a]) \in Messages
        <5>1. atmQ[a] \in Seq(Messages)
          BY <1>0
        <5> QED BY <4>1, <5>1, HeadTaken
      <4>3. Message("verify", "", 0, Head(atmQ[a]).of) \in Messages
        BY <4>2, MessageFields, PlainMessages
      <4> QED BY <4>1, <4>3
    <3>2. CASE TakeView(a)
      <4>1. /\ atmQ[a] # <<>> /\ Head(atmQ[a]).type = "view"
            /\ masterQ' = Append(masterQ, Message("globalcc", "", 0, account[a]))
        BY <3>2 DEF TakeView, Receives
      <4>2. account[a] \in Clients
        <5>1. InPhase(a)
          BY DEF IInv
        <5>2. PICK c \in Clients : Own(c, a)
          BY <4>1, <5>1, TakenFrom
        <5> QED BY <5>2 DEF Own
      <4>3. Message("globalcc", "", 0, account[a]) \in Messages
        BY <4>2, PlainMessages
      <4> QED BY <4>1, <4>3
    <3> QED BY <1>3, <3>1, <3>2
  <2>3. Len(masterQ') = Len(masterQ) + 1
    BY <1>0, <2>2
  <2>4. a \notin Asking /\ Asking' = Asking \cup {a}
    BY <1>0, <2>1 DEF Asking
  <2>5. Cardinality(Asking') = Cardinality(Asking) + 1
    BY <2>4, AskingMore DEF IInv
  <2> QED BY <1>0, <1>2, <2>1, <2>3, <2>5 DEF AllAsked, Working
<1>4. CASE EndEnter(a) \/ EndView(a)
  <2>1. /\ doing[a] \in {"verify", "view"} /\ dropped' = dropped
        /\ HasReply(masterQ) /\ masterQ' = WithoutReply(masterQ)
        /\ doing' = [doing EXCEPT ![a] = "receive"]
    BY <1>4 DEF EndEnter, EndView
  <2>2. Len(masterQ') = Len(masterQ) - 1
    BY <1>0, <2>1, ReplyTaken DEF IsWithout
  <2>3. a \in Asking /\ Asking' = Asking \ {a}
    BY <1>0, <2>1 DEF Asking
  <2>4. Cardinality(Asking') = Cardinality(Asking) - 1
    BY <2>3, AskingLess DEF IInv
  <2> QED BY <1>0, <1>2, <2>1, <2>2, <2>4 DEF AllAsked, Working
<1>5. CASE TakeDeposit(a) \/ TakeWithdraw(a) \/ CheckSlot(a) \/ EndWithdraw(a)
  <2>1. masterQ' = masterQ /\ dropped' = dropped
    BY <1>5 DEF TakeDeposit, TakeWithdraw, CheckSlot, EndWithdraw
  <2>2. \/ doing' = doing
        \/ doing[a] = "receive" /\ doing' = [doing EXCEPT ![a] = "check"]
        \/ doing[a] = "check" /\ doing' = [doing EXCEPT ![a] = "receive"]
    BY <1>5 DEF TakeDeposit, TakeWithdraw, CheckSlot, EndWithdraw, Receives, atmVars
  <2>3. Asking' = Asking
    BY <1>0, <2>2 DEF Asking
  <2> QED BY <1>2, <2>1, <2>3 DEF AllAsked, Working
<1> QED BY <1>1, <1>3, <1>4, <1>5 DEF Atm

LEMMA MasterAnswers ==
  ASSUME IInv, AllAsked, Master
  PROVE  AllAsked'
<1>0. /\ masterQ \in Seq(Messages) /\ Len(masterQ) \in Nat
      /\ Cardinality(Asking) \in Nat /\ subject \in Clients \cup {NoAccount}
      /\ ledger \in [Clients -> Int]
  <2>1. /\ masterQ \in Seq(Messages) /\ subject \in Clients \cup {NoAccount}
        /\ ledger \in [Clients -> Int]
    BY DEF IInv, TypeOK
  <2> QED BY <2>1, AskingFinite
<1>1. Asking' = Asking
  BY DEF Master, MasterTakesOwn, Verify, StartCheck, Apply, FreeCell, EndCheck,
         atmVars, Asking
<1>2. CASE MasterTakesOwn
  BY <1>2 DEF MasterTakesOwn, AllAsked
<1>3. CASE Verify
  <2>1. /\ masterQ # <<>> /\ master' = master /\ dropped' = dropped
        /\ \E text \in {"OK", "NEW"} :
             masterQ' = Append(Tail(masterQ), Reply(text, 0, Head(masterQ).of))
    BY <1>3 DEF Verify, MasterReceives
  <2>2. Head(masterQ).of \in Clients
    BY <1>0, <2>1, MessageFields
  <2>3. \E m \in Messages : masterQ' = Append(Tail(masterQ), m)
    BY <2>1, <2>2, PlainMessages
  <2>4. Len(masterQ') = Len(masterQ)
    BY <1>0, <2>1, <2>3
  <2> QED BY <1>1, <2>1, <2>4 DEF AllAsked, Working
<1>4. CASE StartCheck
  <2>1. /\ masterQ # <<>> /\ master = "receive" /\ master' = "apply"
        /\ dropped' = dropped /\ masterQ' = Tail(masterQ)
    BY <1>4 DEF StartCheck, MasterReceives
  <2>2. Len(masterQ') = Len(masterQ) - 1
    BY <1>0, <2>1
  <2> QED BY <1>0, <1>1, <2>1, <2>2 DEF AllAsked, Working
<1>5. CASE Apply \/ FreeCell
  BY <1>1, <1>5 DEF Apply, FreeCell, AllAsked, Working
<1>6. CASE EndCheck
  <2>1. /\ master = "apply" /\ master' = "receive" /\ dropped' = dropped
        /\ masterQ' = Append(masterQ,
             Reply("BALANCE", IF subject \in known THEN ledger[subject] ELSE 0, subject))
    BY <1>6 DEF EndCheck
  <2>2. subject \in Clients
    BY <2>1 DEF IInv, MasterPlaced
  <2>3. (IF subject \in known THEN ledger[subject] ELSE 0) \in Int
    BY <1>0, <2>2
  <2>4. \E m \in Messages : masterQ' = Append(masterQ, m)
    BY <2>1, <2>2, <2>3, MessagesMade
  <2>5. Len(masterQ') = Len(masterQ) + 1
    BY <1>0, <2>4
  <2> QED BY <1>0, <1>1, <2>1, <2>5 DEF AllAsked, Working
<1> QED BY <1>2, <1>3, <1>4, <1>5, <1>6 DEF Master

LEMMA StaysInHand ==
  ASSUME IInv, InHand, [Next]_vars
  PROVE  InHand'
<1>0. /\ client \in [Clients -> {"away", "waiting", "inside"}]
      /\ at \in [Clients -> Atms]
      /\ doing \in [Atms -> {"receive", "verify", "check", "view"}]
      /\ atmQ \in [Atms -> Seq(Messages)]
  BY DEF IInv, TypeOK
<1>1. CASE UNCHANGED vars \/ Master
  <2>1. UNCHANGED <<clientVars, atmQ, atmVars>> /\ (dropped => dropped')
    BY <1>1 DEF vars, Master, MasterTakesOwn, Verify, StartCheck, Apply, FreeCell, EndCheck
  <2> QED BY <2>1 DEF InHand, clientVars, atmVars
<1>2. ASSUME NEW c \in Clients, Client(c) PROVE InHand'
  <2>0. doing' = doing /\ dropped' = dropped
    BY <1>2 DEF Client, Enter, Ask, Answered, Leave, atmVars
  <2>1. ASSUME NEW d \in Clients, d # c
        PROVE  client'[d] = client[d] /\ at'[d] = at[d]
    BY <1>0, <1>2, <2>1 DEF Client, Enter, Ask, Answered, Leave
  <2>2. CASE Answered(c)
    <3>1. /\ client[c] = "waiting" /\ client'[c] = "inside"
          /\ \A b \in Atms : b # at[c] => atmQ'[b] = atmQ[b]
      BY <1>0, <2>2 DEF Answered
    <3>2. ASSUME NEW d \in Clients, d # c, client[d] = "waiting"
          PROVE  at[d] # at[c]
      <4>1. Customer(c, at[c])
        BY <1>0, <3>1, TheCustomer DEF IInv
      <4> QED BY <3>2, <4>1 DEF Customer, Uses
    <3>3. \A d \in Clients : client'[d] = "waiting" => d # c
      BY <3>1
    <3> QED BY <1>0, <2>0, <2>1, <3>1, <3>2, <3>3 DEF InHand
  <2>3. CASE Leave(c)
    <3>1. client'[c] = "away" /\ atmQ' = atmQ
      BY <1>0, <2>3 DEF Leave
    <3> QED BY <2>0, <2>1, <3>1 DEF InHand
  <2>4. CASE ~ Answered(c) /\ ~ Leave(c)
    <3>1. PICK a \in Atms, m \in Messages :
            at'[c] = a /\ atmQ' = [atmQ EXCEPT ![a] = Append(@, m)]
      <4>1. ASSUME NEW a \in Atms, Enter(c, a)
            PROVE  \E m \in Messages :
                     at'[c] = a /\ atmQ' = [atmQ EXCEPT ![a] = Append(@, m)]
        BY <1>0, <4>1, PlainMessages DEF Enter
      <4>2. ASSUME NEW type \in {"withdraw", "deposit", "view"}, NEW n \in Int,
                   Ask(c, type, n)
            PROVE  \E m \in Messages :
                     at'[c] = at[c] /\ atmQ' = [atmQ EXCEPT ![at[c]] = Append(@, m)]
        BY <1>0, <4>2, MessagesMade DEF Ask
      <4>3. \A n \in Amounts : n \in Int
        BY BankAssumption DEF BankAssumption
      <4>4. at[c] \in Atms /\ 0 \in Int
        BY <1>0
      <4> QED BY <1>2, <2>4, <4>1, <4>2, <4>3, <4>4 DEF Client
    <3>2. atmQ'[at'[c]] # <<>> /\ \A b \in Atms : atmQ[b] # <<>> => atmQ'[b] # <<>>
      <4>1. atmQ[a] \in Seq(Messages) /\ atmQ'[a] = Append(atmQ[a], m)
        BY <1>0, <3>1
      <4>2. Append(atmQ[a], m) # <<>>
        BY <4>1
      <4>3. \A b \in Atms \ {a} : atmQ'[b] = atmQ[b]
        BY <1>0, <3>1
      <4> QED BY <3>1, <4>1, <4>2, <4>3
    <3> QED BY <1>0, <2>0, <2>1, <3>2 DEF InHand
  <2> QED BY <2>2, <2>3, <2>4
<1>3. ASSUME NEW a \in Atms, Atm(a) PROVE InHand'
  <2>0. /\ client' = client /\ at' = at
        /\ dropped' # dropped => dropped' = TRUE
    BY <1>3 DEF Atm, TakeOwnReply, TakeEnter, EndEnter, TakeDeposit, TakeWithdraw,
           CheckSlot, EndWithdraw, TakeView, EndView, clientVars
  <2>q. \A b \in Atms \ {a} : atmQ'[b] = atmQ[b]
    BY <1>0, <1>3 DEF Atm, TakeOwnReply, TakeEnter, EndEnter, TakeDeposit, TakeWithdraw,
           CheckSlot, EndWithdraw, TakeView, EndView
  <2>d. \A b \in Atms \ {a} : doing'[b] = doing[b]
    BY <1>0, <1>3 DEF Atm, TakeOwnReply, TakeEnter, EndEnter, TakeDeposit, TakeWithdraw,
           CheckSlot, EndWithdraw, TakeView, EndView, atmVars
  <2>1. /\ client' = client /\ at' = at
        /\ \A b \in Atms \ {a} : atmQ'[b] = atmQ[b] /\ doing'[b] = doing[b]
        /\ ~ dropped' => ~ dropped
    BY <2>0, <2>q, <2>d DEF IInv, TypeOK
  <2>2. CASE TakeOwnReply(a)
    BY <2>2 DEF TakeOwnReply, InHand
  <2>3. CASE TakeEnter(a) \/ TakeWithdraw(a) \/ TakeView(a) \/ CheckSlot(a)
    <3>1. doing'[a] # "receive"
      BY <1>0, <2>3 DEF TakeEnter, TakeWithdraw, TakeView, CheckSlot
    <3> QED BY <1>0, <2>1, <3>1 DEF InHand
  <2>4. CASE EndEnter(a) \/ TakeDeposit(a) \/ EndWithdraw(a) \/ EndView(a)
    <3>1. PICK q \in Seq(Messages), m \in Messages : atmQ'[a] = Append(q, m)
      <4>0. atmQ[a] \in Seq(Messages) /\ InPhase(a)
        BY <1>0 DEF IInv
      <4>1. CASE EndView(a)
        <5>1. card[a].acc = account[a]
          BY <4>0, <4>1, WorksFor DEF EndView, Own
        <5>2. atmQ'[a] = Append(atmQ[a], Reply("BALANCE", FirstReply(masterQ).number,
                                               FirstReply(masterQ).of))
          BY <1>0, <4>1, <5>1 DEF EndView
        <5>3. FirstReply(masterQ) \in Messages
          BY <4>1, ReplyTaken DEF EndView, IInv, TypeOK
        <5> QED BY <4>0, <5>2, <5>3, MessageFields, MessagesMade
      <4>2. CASE TakeDeposit(a)
        <5>1. atmQ[a] # <<>> /\ Head(atmQ[a]).type = "deposit"
          BY <4>2 DEF TakeDeposit, Receives
        <5>2. account[a] \in Clients
          BY <4>0, <5>1, TakenFrom DEF Own
        <5>3. Tail(atmQ[a]) \in Seq(Messages)
          BY <4>0, <5>1
        <5>4. atmQ'[a] = Append(Tail(atmQ[a]), Reply("OK", 0, account[a]))
          BY <1>0, <4>2 DEF TakeDeposit
        <5> QED BY <5>2, <5>3, <5>4, RepliesMade
      <4>3. CASE EndEnter(a) \/ EndWithdraw(a)
        <5>1. account[a] \in Clients
          <6>1. doing[a] # "receive"
            BY <4>3 DEF EndEnter, EndWithdraw
          <6> QED BY <4>0, <6>1, WorksFor DEF Own
        <5>2. \E text \in {"OK", "INSUFFICIENT FUNDS"} :
                atmQ'[a] = Append(atmQ[a], Reply(text, 0, account[a]))
          BY <1>0, <4>3 DEF EndEnter, EndWithdraw
        <5> QED BY <4>0, <5>1, <5>2, RepliesMade
      <4> QED BY <2>4, <4>1, <4>2, <4>3
    <3>2. atmQ'[a] # <<>>
      BY <3>1
    <3> QED BY <1>0, <2>1, <3>2 DEF InHand
  <2> QED BY <1>3, <2>2, <2>3, <2>4 DEF Atm
<1> QED BY <1>1, <1>2, <1>3 DEF Next

LEMMA StaysAsked ==
  ASSUME IInv, AllAsked, [Next]_vars
  PROVE  AllAsked'
<1>1. CASE UNCHANGED vars \/ \E c \in Clients : Client(c)
  <2>1. UNCHANGED <<doing, masterQ, master, dropped>>
    BY <1>1 DEF vars, Client, Enter, Ask, Answered, Leave, atmVars, masterVars
  <2> QED BY <2>1 DEF AllAsked, Asking, Working
<1> QED BY <1>1, AtmAsks, MasterAnswers DEF Next

LEMMA NobodyAsksAtInit == Init => AllAsked /\ InHand
<1> SUFFICES ASSUME Init PROVE AllAsked /\ InHand
  OBVIOUS
<1>1. Asking = {} /\ Working = 0 /\ masterQ = <<>>
  BY DEF Init, Asking, Working
<1>2. AllAsked
  BY <1>1, FS_EmptySet DEF AllAsked
<1>3. InHand
  BY DEF Init, InHand
<1> QED BY <1>2, <1>3

\* A client that waits is being served, and clients, ATMs and the master never
\* wait for each other, though answers carry no addressee and questions and answers
\* share a queue: unless some process has received its own message.
THEOREM NoneWaitsInVain == Spec => [](~ dropped => \A c \in Clients : Going(c))
<1>1. ASSUME IInv, AllAsked, InHand, ~ dropped, NEW c \in Clients
      PROVE  Going(c)
  <2> SUFFICES ASSUME client[c] = "waiting" PROVE Going(c)
    BY DEF Going
  <2>1. /\ at[c] \in Atms /\ doing[at[c]] \in {"receive", "verify", "check", "view"}
        /\ masterQ \in Seq(Messages)
    BY <1>1 DEF IInv, TypeOK
  <2>2. CASE doing[at[c]] \in {"verify", "view"}
    <3>1. at[c] \in Asking
      BY <2>1, <2>2 DEF Asking
    <3>2. Cardinality(Asking) # 0
      BY <3>1, AskingFinite, FS_EmptySet
    <3>3. masterQ = <<>> => Len(masterQ) = 0
      OBVIOUS
    <3> QED BY <1>1, <2>2, <3>2, <3>3 DEF AllAsked, Working, Going
  <2> QED BY <1>1, <2>1, <2>2 DEF InHand, Going
<1>2. IInv /\ AllAsked /\ InHand => (~ dropped => \A c \in Clients : Going(c))
  BY <1>1
<1> QED BY <1>2, Inductive, NobodyAsksAtInit, StaysAsked, StaysInHand, PTL DEF Spec
=============================================================================
