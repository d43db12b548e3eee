-------------------------------- MODULE Bank --------------------------------
(***************************************************************************)
(* os_lab/assignment6: clients (client.cpp), ATMs (atm.cpp) and a master   *)
(* (master.cpp).  A client holds the semaphore of its ATM while inside and *)
(* talks to it over the ATM's message queue; the ATMs talk to the master   *)
(* over one more.  Both directions use the same queue.  An ATM logs        *)
(* deposits and withdrawals in memory that it shares with all the others   *)
(* and with the master, which moves them to its accounts when a client     *)
(* views its balance.  No lock guards that memory.                         *)
(*                                                                         *)
(* A transaction's amount carries its type: withdrawals are negative.      *)
(* enter has tot_ac by value and so it is 0 each time: of acc_table only   *)
(* cell 0 is ever used.  Clients choose among Amounts, ATMs are 1 .. n.    *)
(***************************************************************************)
EXTENDS Integers, FiniteSets, SequencesExt

CONSTANTS
  Clients,      \* the account numbers
  NoAccount,    \* 0, the number in an unused cell
  NumAtms,      \* n
  LogSize,      \* MAX_TRANSACTION_LOGS
  Amounts,      \* amounts a client may type
  MaxRequests   \* bound: requests of one client

ASSUME BankAssumption ==
  /\ NoAccount \notin Clients
  /\ NumAtms \in Nat \ {0}
  /\ LogSize \in Nat \ {0}
  /\ Amounts \subseteq Nat \ {0}
  /\ MaxRequests \in Nat

Atms == 1 .. NumAtms
Slots == 1 .. LogSize

VARIABLES
  client,      \* client[c]: away, waiting for an answer, or inside
  at,          \* at[c]: its ATM, atm_id
  requests,    \* requests[c]: how many it has made
  lock,        \* semaphore of each ATM
  atmQ,        \* queue of each ATM
  doing,       \* doing[a]: where ATM a is
  account,     \* account[a]: cl_ac_no
  card,        \* card[a]: acc_table[0]
  amount,      \* amount[a]: of a withdrawal being checked
  scan,        \* scan[a]: the loop of localConsistencyCheck
  log,         \* log[a][j]: transaction_log
  masterQ,     \* the master's queue
  master,      \* where the master is
  subject,     \* acc_no of the request it serves
  place,       \* the loop of globalConsistencyCheck
  known,       \* account numbers in the master's table
  ledger,      \* their balances
  net,         \* history: what a client has put in and taken out
  dropped      \* history: a process has received its own message

clientVars == <<client, at, requests, lock>>
atmVars == <<doing, account, card, amount, scan>>
masterVars == <<master, subject, place, known, ledger>>
vars == <<clientVars, atmQ, atmVars, log, masterQ, masterVars, net, dropped>>

\* A message: its type, its text, a number in it, and the account it is about
\* (which is part of the text of enter, verify and globalcc only).
Message(type, text, number, of) ==
  [type |-> type, text |-> text, number |-> number, of |-> of]
Reply(text, number, of) == Message("reply", text, number, of)

Free == [acc |-> NoAccount, delta |-> 0]

Init ==
  /\ client = [c \in Clients |-> "away"]
  /\ at = [c \in Clients |-> 1]
  /\ requests = [c \in Clients |-> 0]
  /\ lock = [a \in Atms |-> 1]
  /\ atmQ = [a \in Atms |-> <<>>]
  /\ doing = [a \in Atms |-> "receive"]
  /\ account = [a \in Atms |-> NoAccount]
  /\ card = [a \in Atms |-> [acc |-> NoAccount, balance |-> 0]]
  /\ amount = [a \in Atms |-> 0]
  /\ scan = [a \in Atms |-> [atm |-> 1, slot |-> 1, sum |-> 0]]
  /\ log = [a \in Atms |-> [j \in Slots |-> Free]]
  /\ masterQ = <<>>
  /\ master = "receive"
  /\ subject = NoAccount
  /\ place = [atm |-> 1, slot |-> 1]
  /\ known = {}
  /\ ledger = [c \in Clients |-> 0]
  /\ net = [c \in Clients |-> 0]
  /\ dropped = FALSE

\* msgrcv of type MTYPE_REPLY takes the first reply, wherever it is.
IsReply(m) == m.type = "reply"
HasReply(q) == \E i \in DOMAIN q : IsReply(q[i])
FirstReply(q) == q[SelectInSeq(q, IsReply)]
WithoutReply(q) == RemoveFirstMatch(q, IsReply)

-----------------------------------------------------------------------------
(* Clients.  The operators called Bad... are plausible errors in the       *)
(* definition after them, which break a property; nothing else uses them.  *)

BadEnter(c, a) ==
  /\ client[c] = "away"
  /\ client' = [client EXCEPT ![c] = "waiting"]
  /\ at' = [at EXCEPT ![c] = a]
  /\ atmQ' = [atmQ EXCEPT ![a] = Append(@, Message("enter", "", 0, c))]
  /\ UNCHANGED <<requests, lock, atmVars, log, masterQ, masterVars, net,
                 dropped>>

\* sem_wait(lock) and entry().
Enter(c, a) ==
  /\ client[c] = "away"
  /\ lock[a] > 0
  /\ lock' = [lock EXCEPT ![a] = @ - 1]
  /\ client' = [client EXCEPT ![c] = "waiting"]
  /\ at' = [at EXCEPT ![c] = a]
  /\ atmQ' = [atmQ EXCEPT ![a] = Append(@, Message("enter", "", 0, c))]
  /\ UNCHANGED <<requests, atmVars, log, masterQ, masterVars, net, dropped>>

\* withdraw(), deposit() and view() up to msgrcv.
Ask(c, type, n) ==
  /\ client[c] = "inside"
  /\ requests[c] < MaxRequests
  /\ requests' = [requests EXCEPT ![c] = @ + 1]
  /\ client' = [client EXCEPT ![c] = "waiting"]
  /\ atmQ' = [atmQ EXCEPT ![at[c]] = Append(@, Message(type, "", n, c))]
  /\ UNCHANGED <<at, lock, atmVars, log, masterQ, masterVars, net, dropped>>

Answered(c) ==
  LET q == atmQ[at[c]]
  IN  /\ client[c] = "waiting"
      /\ HasReply(q)
      /\ client' = [client EXCEPT ![c] = "inside"]
      /\ atmQ' = [atmQ EXCEPT ![at[c]] = WithoutReply(q)]
      /\ UNCHANGED <<at, requests, lock, atmVars, log, masterQ, masterVars,
                     net, dropped>>

Leave(c) ==
  /\ client[c] = "inside"
  /\ client' = [client EXCEPT ![c] = "away"]
  /\ at' = [at EXCEPT ![c] = 1]
  /\ lock' = [lock EXCEPT ![at[c]] = @ + 1]
  /\ UNCHANGED <<requests, atmQ, atmVars, log, masterQ, masterVars, net,
                 dropped>>

-----------------------------------------------------------------------------
(* ATMs.                                                                   *)

\* msgrcv of any type.
Receives(a, type) ==
  /\ doing[a] = "receive"
  /\ atmQ[a] # <<>>
  /\ Head(atmQ[a]).type = type

\* push_transaction: the first free cell, or none and no word about it.
Push(a, acc, delta) ==
  LET free == {j \in Slots : log[a][j] = Free}
  IN  log' = IF free = {} THEN log
             ELSE [log EXCEPT ![a][Min(free)] = [acc |-> acc, delta |-> delta]]

\* The log holds it or has dropped it: the client is told OK.
Book(a, delta) ==
  /\ Push(a, account[a], delta)
  /\ net' = [net EXCEPT ![account[a]] = @ + delta]

\* The switch's default: the ATM has received its own answer.
TakeOwnReply(a) ==
  /\ Receives(a, "reply")
  /\ atmQ' = [atmQ EXCEPT ![a] = Tail(@)]
  /\ dropped' = TRUE
  /\ UNCHANGED <<clientVars, atmVars, log, masterQ, masterVars, net>>

\* enter() up to msgrcv.
TakeEnter(a) ==
  LET c == Head(atmQ[a]).of
  IN  /\ Receives(a, "enter")
      /\ atmQ' = [atmQ EXCEPT ![a] = Tail(@)]
      /\ account' = [account EXCEPT ![a] = c]
      /\ masterQ' = Append(masterQ, Message("verify", "", 0, c))
      /\ doing' = [doing EXCEPT ![a] = "verify"]
      /\ UNCHANGED <<clientVars, card, amount, scan, log, masterVars, net,
                     dropped>>

\* NEW puts the account in cell 0, and so does checknMakeAc when the account
\* is not there.
BadEndEnter(a) ==
  /\ doing[a] = "verify"
  /\ HasReply(masterQ)
  /\ masterQ' = WithoutReply(masterQ)
  /\ card' = IF FirstReply(masterQ).text = "NEW"
             THEN [card EXCEPT ![a] = [acc |-> account[a], balance |-> 0]]
             ELSE card
  /\ atmQ' = [atmQ EXCEPT ![a] = Append(@, Reply("OK", 0, account[a]))]
  /\ doing' = [doing EXCEPT ![a] = "receive"]
  /\ UNCHANGED <<clientVars, account, amount, scan, log, masterVars, net,
                 dropped>>

EndEnter(a) ==
  /\ doing[a] = "verify"
  /\ HasReply(masterQ)
  /\ masterQ' = WithoutReply(masterQ)
  /\ card' = IF \/ FirstReply(masterQ).text = "NEW"
                \/ card[a].acc # account[a]
             THEN [card EXCEPT ![a] = [acc |-> account[a], balance |-> 0]]
             ELSE card
  /\ atmQ' = [atmQ EXCEPT ![a] = Append(@, Reply("OK", 0, account[a]))]
  /\ doing' = [doing EXCEPT ![a] = "receive"]
  /\ UNCHANGED <<clientVars, account, amount, scan, log, masterVars, net,
                 dropped>>

TakeDeposit(a) ==
  /\ Receives(a, "deposit")
  /\ Book(a, Head(atmQ[a]).number)
  /\ atmQ' = [atmQ EXCEPT ![a] = Append(Tail(@), Reply("OK", 0, account[a]))]
  /\ UNCHANGED <<clientVars, atmVars, masterQ, masterVars, dropped>>

\* localConsistencyCheck starts from the balance in cell 0.
TakeWithdraw(a) ==
  /\ Receives(a, "withdraw")
  /\ atmQ' = [atmQ EXCEPT ![a] = Tail(@)]
  /\ amount' = [amount EXCEPT ![a] = Head(atmQ[a]).number]
  /\ scan' = [scan EXCEPT ![a] =
                [atm |-> 1, slot |-> 1, sum |-> card[a].balance]]
  /\ doing' = [doing EXCEPT ![a] = "check"]
  /\ UNCHANGED <<clientVars, account, card, log, masterQ, masterVars, net,
                 dropped>>

\* One cell of one log; a free cell ends the log.
CheckSlot(a) ==
  LET s == scan[a]
      t == log[s.atm][s.slot]
      ends == s.slot > LogSize \/ t = Free
  IN  /\ doing[a] = "check"
      /\ s.atm \in Atms
      /\ scan' = [scan EXCEPT ![a] =
           IF ends THEN [s EXCEPT !.atm = @ + 1, !.slot = 1]
           ELSE [s EXCEPT !.slot = @ + 1,
                   !.sum = IF t.acc = account[a] THEN @ + t.delta ELSE @]]
      /\ UNCHANGED <<clientVars, atmQ, doing, account, card, amount, log,
                     masterQ, masterVars, net, dropped>>

EndWithdraw(a) ==
  LET refused == amount[a] > scan[a].sum
  IN  /\ doing[a] = "check"
      /\ scan[a].atm \notin Atms
      /\ IF refused THEN UNCHANGED <<log, net>> ELSE Book(a, - amount[a])
      /\ atmQ' = [atmQ EXCEPT ![a] =
           Append(@, Reply(IF refused THEN "INSUFFICIENT FUNDS" ELSE "OK",
                           0, account[a]))]
      /\ doing' = [doing EXCEPT ![a] = "receive"]
      /\ amount' = [amount EXCEPT ![a] = 0]
      /\ scan' = [scan EXCEPT ![a] = [atm |-> 1, slot |-> 1, sum |-> 0]]
      /\ UNCHANGED <<clientVars, account, card, masterQ, masterVars, dropped>>

\* view() up to msgrcv.
TakeView(a) ==
  /\ Receives(a, "view")
  /\ atmQ' = [atmQ EXCEPT ![a] = Tail(@)]
  /\ masterQ' = Append(masterQ, Message("globalcc", "", 0, account[a]))
  /\ doing' = [doing EXCEPT ![a] = "view"]
  /\ UNCHANGED <<clientVars, account, card, amount, scan, log, masterVars,
                 net, dropped>>

\* One reply for each cell with the account.
EndView(a) ==
  LET r == FirstReply(masterQ)
  IN  /\ doing[a] = "view"
      /\ HasReply(masterQ)
      /\ masterQ' = WithoutReply(masterQ)
      /\ IF card[a].acc = account[a]
         THEN /\ card' = [card EXCEPT ![a].balance = r.number]
              /\ atmQ' = [atmQ EXCEPT ![a] =
                            Append(@, Reply("BALANCE", r.number, r.of))]
         ELSE UNCHANGED <<card, atmQ>>
      /\ doing' = [doing EXCEPT ![a] = "receive"]
      /\ UNCHANGED <<clientVars, account, amount, scan, log, masterVars, net,
                     dropped>>

-----------------------------------------------------------------------------
(* The master.                                                             *)

MasterReceives(type) ==
  /\ master = "receive"
  /\ masterQ # <<>>
  /\ Head(masterQ).type = type

\* The last branch of the loop: the master has received its own answer.
MasterTakesOwn ==
  /\ MasterReceives("reply")
  /\ masterQ' = Tail(masterQ)
  /\ dropped' = TRUE
  /\ UNCHANGED <<clientVars, atmQ, atmVars, log, masterVars, net>>

\* checkAccount, and a new cell in the table if the account has none.
BadVerify ==
  LET c == Head(masterQ).of
  IN  /\ MasterReceives("verify")
      /\ masterQ' = Append(Tail(masterQ),
                           Reply(IF c \in known THEN "OK" ELSE "NEW", 0, c))
      /\ UNCHANGED <<clientVars, atmQ, atmVars, log, masterVars, net, dropped>>

BadSilent ==
  LET c == Head(masterQ).of
  IN  /\ MasterReceives("verify")
      /\ known' = known \cup {c}
      /\ masterQ' = IF c \in known THEN Tail(masterQ)
                    ELSE Append(Tail(masterQ), Reply("NEW", 0, c))
      /\ UNCHANGED <<clientVars, atmQ, atmVars, log, master, subject, place,
                     ledger, net, dropped>>

Verify ==
  LET c == Head(masterQ).of
  IN  /\ MasterReceives("verify")
      /\ known' = known \cup {c}
      /\ ledger' = IF c \in known THEN ledger
                   ELSE [ledger EXCEPT ![c] = 0]
      /\ masterQ' = Append(Tail(masterQ),
                           Reply(IF c \in known THEN "OK" ELSE "NEW", 0, c))
      /\ UNCHANGED <<clientVars, atmQ, atmVars, log, master, subject, place,
                     net, dropped>>

StartCheck ==
  /\ MasterReceives("globalcc")
  /\ masterQ' = Tail(masterQ)
  /\ subject' = Head(masterQ).of
  /\ place' = [atm |-> 1, slot |-> 1]
  /\ master' = "apply"
  /\ UNCHANGED <<clientVars, atmQ, atmVars, log, known, ledger, net, dropped>>

\* One cell of one log; a free cell or one of another account ends the log.
Apply ==
  LET t == log[place.atm][place.slot]
      ends == place.slot > LogSize \/ t = Free \/ t.acc # subject
  IN  /\ master = "apply"
      /\ place.atm \in Atms
      /\ IF ends
         THEN /\ place' = [atm |-> place.atm + 1, slot |-> 1]
              /\ UNCHANGED <<master, ledger>>
         ELSE /\ ledger' = IF subject \in known
                           THEN [ledger EXCEPT ![subject] = @ + t.delta]
                           ELSE ledger
              /\ master' = "free"
              /\ UNCHANGED place
      /\ UNCHANGED <<clientVars, atmQ, atmVars, log, masterQ, subject, known,
                     net, dropped>>

BadFreeCell ==
  /\ master = "free"
  /\ place' = [place EXCEPT !.slot = @ + 1]
  /\ master' = "apply"
  /\ UNCHANGED <<clientVars, atmQ, atmVars, log, masterQ, subject, known,
                 ledger, net, dropped>>

FreeCell ==
  /\ master = "free"
  /\ log' = [log EXCEPT ![place.atm][place.slot] = Free]
  /\ place' = [place EXCEPT !.slot = @ + 1]
  /\ master' = "apply"
  /\ UNCHANGED <<clientVars, atmQ, atmVars, masterQ, subject, known, ledger,
                 net, dropped>>

EndCheck ==
  /\ master = "apply"
  /\ place.atm \notin Atms
  /\ masterQ' = Append(masterQ,
       Reply("BALANCE", IF subject \in known THEN ledger[subject] ELSE 0,
             subject))
  /\ master' = "receive"
  /\ subject' = NoAccount
  /\ place' = [atm |-> 1, slot |-> 1]
  /\ UNCHANGED <<clientVars, atmQ, atmVars, log, known, ledger, net, dropped>>

-----------------------------------------------------------------------------
Client(c) ==
  \/ \E a \in Atms : Enter(c, a)
  \/ \E n \in Amounts : Ask(c, "withdraw", n) \/ Ask(c, "deposit", n)
  \/ Ask(c, "view", 0)
  \/ Answered(c)
  \/ Leave(c)

Atm(a) ==
  \/ TakeOwnReply(a) \/ TakeEnter(a) \/ EndEnter(a) \/ TakeDeposit(a)
  \/ TakeWithdraw(a) \/ CheckSlot(a) \/ EndWithdraw(a) \/ TakeView(a)
  \/ EndView(a)

Master ==
  \/ MasterTakesOwn \/ Verify \/ StartCheck \/ Apply \/ FreeCell \/ EndCheck

Next ==
  \/ \E c \in Clients : Client(c)
  \/ \E a \in Atms : Atm(a)
  \/ Master

Spec == Init /\ [][Next]_vars

\* Processes keep running; what a client asks is up to its user.  The kernel
\* serves those that wait for a reply in the order in which they came, so that
\* an ATM does not see others take each reply for ever.
LiveSpec ==
  /\ Spec
  /\ WF_vars(Master)
  /\ \A a \in Atms : WF_vars(Atm(a)) /\ SF_vars(EndEnter(a) \/ EndView(a))
  /\ \A c \in Clients : WF_vars(Answered(c))

-----------------------------------------------------------------------------
(* Properties.                                                             *)

Messages ==
  [type : {"enter", "withdraw", "deposit", "view", "verify", "globalcc",
           "reply"},
   text : {"", "OK", "NEW", "INSUFFICIENT FUNDS", "BALANCE"},
   number : Int, of : Clients]

\* Every variable keeps the values its declaration in the code allows.
TypeOK ==
  /\ client \in [Clients -> {"away", "waiting", "inside"}]
  /\ at \in [Clients -> Atms]
  /\ requests \in [Clients -> Nat]
  /\ lock \in [Atms -> 0 .. 1]
  /\ atmQ \in [Atms -> Seq(Messages)]
  /\ doing \in [Atms -> {"receive", "verify", "check", "view"}]
  /\ account \in [Atms -> Clients \cup {NoAccount}]
  /\ card \in [Atms -> [acc : Clients \cup {NoAccount}, balance : Int]]
  /\ amount \in [Atms -> Int]
  /\ scan \in [Atms -> [atm : 1 .. NumAtms + 1, slot : 1 .. LogSize + 1,
                        sum : Int]]
  /\ log \in [Atms -> [Slots -> [acc : Clients \cup {NoAccount},
                                 delta : Int]]]
  /\ masterQ \in Seq(Messages)
  /\ master \in {"receive", "apply", "free"}
  /\ subject \in Clients \cup {NoAccount}
  /\ place \in [atm : 1 .. NumAtms + 1, slot : 1 .. LogSize + 1]
  /\ known \subseteq Clients
  /\ ledger \in [Clients -> Int]
  /\ net \in [Clients -> Int]
  /\ dropped \in BOOLEAN

Uses(c, a) == client[c] # "away" /\ at[c] = a

\* The semaphore of an ATM keeps its queue for one client at a time: however
\* requests and answers are received, the queue never holds two messages, and
\* what the ATM works on, or answers, is the request of the client that waits.
OneCustomer ==
  \A a \in Atms :
    /\ \A c, d \in Clients : Uses(c, a) /\ Uses(d, a) => c = d
    /\ lock[a] = 1 <=> \A c \in Clients : ~ Uses(c, a)
    /\ Len(atmQ[a]) + (IF doing[a] = "receive" THEN 0 ELSE 1) <= 1
    /\ atmQ[a] # <<>> \/ doing[a] # "receive" =>
         \E c \in Clients : Uses(c, a) /\ client[c] = "waiting"

\* A client inside is the one its ATM books for, and has the ATM's cell 0:
\* withdrawals are checked against a balance of its own, view answers.
CardIsOwn ==
  \A c \in Clients :
    client[c] = "inside" => /\ account[at[c]] = c
                            /\ card[at[c]].acc = c

\* The master's table has every account that an ATM may ask it to check or
\* book for, even if the ATM went on with an answer meant for another one:
\* no transaction is freed without having been applied.
ServedAreKnown ==
  /\ subject \in known \cup {NoAccount}
  /\ \A i \in DOMAIN masterQ : masterQ[i].type = "globalcc" =>
       \/ masterQ[i].of \in known
       \/ \E j \in 1 .. i - 1 : /\ masterQ[j].type = "verify"
                                /\ masterQ[j].of = masterQ[i].of

\* Every transaction is applied once: what a client has put in and taken out
\* is its balance at the master with what the logs still hold.
Entry(c, t) == IF t.acc = c THEN t.delta ELSE 0
Entries(c, a) == [j \in Slots |-> Entry(c, log[a][j])]
Logged(c) == SumFunction([a \in Atms |-> SumFunction(Entries(c, a))])
Applied(c) ==
  IF master = "free" /\ subject = c
  THEN log[place.atm][place.slot].delta ELSE 0

BooksBalance ==
  \A c \in Clients : net[c] = ledger[c] + Logged(c) - Applied(c)

\* atm.cpp:185, "INSUFFICIENT FUNDS": nobody takes out more than was put in.
NoOverdraft == \A c \in Clients : net[c] >= 0

\* No client waits for ever, unless at some time a process has received a
\* message of its own; ATMs that take each other's answers keep the count.
AnsweredOrDropped ==
  \A c \in Clients : []<>(client[c] # "waiting" \/ dropped)
=============================================================================
