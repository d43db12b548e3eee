-------------------------------- MODULE Mail --------------------------------
(***************************************************************************)
(* networks_lab/assignment4: a mail client (client.c) that sends over SMTP *)
(* and reads over POP, and the server (server.c), a process for each port  *)
(* that forks a child for each connection.  The mails are in a table of a  *)
(* MySQL server, which does one statement at a time.                       *)
(*                                                                         *)
(* A session is one run of send_email or retrieve_email with its child;    *)
(* those of one terminal come one after the other, which is left open.     *)
(* Each command comes in one piece, except the body of a mail, and each    *)
(* reply.  The user types the right port and the number of any mail; a     *)
(* list fits the buffers.  MySQL connects and answers queries.             *)
(***************************************************************************)
EXTENDS Naturals, FiniteSets, Sequences

CONSTANTS
  Sessions,
  Users,        \* those of the table networks_4_user
  Nobody,       \* what is no user: an unset buffer, a number
  MaxFiles      \* descriptors that a server process has for connections

ASSUME MailAssumption ==
  /\ IsFiniteSet(Sessions)
  /\ Nobody \notin Users
  /\ MaxFiles \in Nat

Ports == {"smtp", "pop"}

VARIABLES
  client,     \* client[s]: which reply the client waits for
  port,       \* port[s]: of the server that it has connected to
  name,       \* name[s]: receiver or user, as typed
  right,      \* right[s]: the password typed is that of the user
  counted,    \* counted[s]: num_maildrop
  listed,     \* listed[s]: mail_list
  up,         \* up[s]: commands on their way
  down,       \* down[s]: replies on their way
  server,     \* server[s]: the recv() where the child is
  command,    \* command[s] of the child
  arg,        \* arg[s]: receiver or user of the child
  reset,      \* children that have written to a closed connection
  files,      \* files[p]: connections the process of port p has open
  mails,      \* networks_4_mail
  overrun     \* history: query has overrun what it was made from

clientVars == <<client, port, name, right, counted, listed>>
childVars == <<server, command, arg>>
vars == <<clientVars, up, down, childVars, reset, files, mails, overrun>>

\* Earlier sessions have left descriptors open.
Init ==
  /\ client = [s \in Sessions |-> "menu"]
  /\ port = [s \in Sessions |-> "smtp"]
  /\ name = [s \in Sessions |-> Nobody]
  /\ right = [s \in Sessions |-> FALSE]
  /\ counted = [s \in Sessions |-> 0]
  /\ listed = [s \in Sessions |-> {}]
  /\ up = [s \in Sessions |-> <<>>]
  /\ down = [s \in Sessions |-> <<>>]
  /\ server = [s \in Sessions |-> "none"]
  /\ command = [s \in Sessions |-> ""]
  /\ arg = [s \in Sessions |-> Nobody]
  /\ reset = {}
  /\ files \in [Ports -> 0 .. MaxFiles]
  /\ mails = {}
  /\ overrun = FALSE

\* The client has closed its socket, which it does not do when it is done with
\* reading, or is no more.
Gone(s) == client[s] \in {"error", "sent", "killed"}

Command(type, user, ok) == [type |-> type, user |-> user, ok |-> ok]
Reply(code, ids) == [code |-> code, ids |-> ids]

-----------------------------------------------------------------------------
(* The client.  The operators called Bad... are plausible errors in the    *)
(* definition after them, which break a property; nothing else uses them.  *)

Connect(s, p) ==
  /\ client[s] = "menu"
  /\ client' = [client EXCEPT ![s] = IF p = "smtp" THEN "220" ELSE "+"]
  /\ port' = [port EXCEPT ![s] = p]
  /\ UNCHANGED <<name, right, counted, listed, up, down, childVars, reset, files,
                 mails, overrun>>

\* A reply that has come; the wrong one makes the client give up.
Hear(s, from, code, to, next) ==
  /\ client[s] = from /\ down[s] # <<>>
  /\ down' = [down EXCEPT ![s] = Tail(@)]
  /\ IF Head(down[s]).code = code
     THEN /\ client' = [client EXCEPT ![s] = to]
          /\ up' = [up EXCEPT ![s] = Append(@, next)]
     ELSE /\ client' = [client EXCEPT ![s] = "error"]
          /\ UNCHANGED up
  /\ UNCHANGED <<port, childVars, reset, files, mails, overrun>>

\* send_email().
SendEmail(s) ==
  \/ /\ Hear(s, "220", "220", "250 mail", Command("MAIL", Nobody, TRUE))
     /\ UNCHANGED <<name, right, counted, listed>>
  \/ \E u \in Users :
       /\ Hear(s, "250 mail", "250", "250 rcpt", Command("RCPT", u, TRUE))
       /\ name' = [name EXCEPT ![s] = u]
       /\ UNCHANGED <<right, counted, listed>>
  \/ /\ \/ Hear(s, "250 rcpt", "250", "354", Command("DATA", Nobody, TRUE))
        \/ Hear(s, "354", "354", "250 body", Command("", Nobody, TRUE))
        \/ Hear(s, "250 body", "250", "sent", Command("QUIT", Nobody, TRUE))
     /\ UNCHANGED <<name, right, counted, listed>>

\* retrieve_email() up to STAT.
Login(s) ==
  \/ \E u \in Users :
       /\ Hear(s, "+", "+", "+ user", Command("USER", u, TRUE))
       /\ name' = [name EXCEPT ![s] = u]
       /\ UNCHANGED <<right, counted, listed>>
  \/ \E b \in BOOLEAN :
       /\ Hear(s, "+ user", "+", "+ pass", Command("PASS", Nobody, b))
       /\ right' = [right EXCEPT ![s] = b]
       /\ UNCHANGED <<name, counted, listed>>
  \/ /\ Hear(s, "+ pass", "+", "stat", Command("STAT", Nobody, TRUE))
     /\ UNCHANGED <<name, right, counted, listed>>

ReadCount(s) ==
  /\ Hear(s, "stat", "+", "+ list", Command("LIST", Nobody, TRUE))
  /\ counted' = [counted EXCEPT ![s] = Cardinality(Head(down[s]).ids)]
  /\ UNCHANGED <<name, right, listed>>

ReadList(s) ==
  /\ Hear(s, "+ list", "+", "+ retr", Command("RETR", Nobody, TRUE))
  /\ listed' = [listed EXCEPT ![s] = Head(down[s]).ids]
  /\ UNCHANGED <<name, right, counted>>

\* The list again after each mail.
BadReadMail(s) ==
  /\ \/ Hear(s, "+ retr", "+", "+ list", Command("LIST", Nobody, TRUE))
     \/ Hear(s, "+ retr", "+", "done", Command("QUIT", Nobody, TRUE))
  /\ UNCHANGED <<name, right, counted, listed>>

ReadMail(s) ==
  /\ \/ Hear(s, "+ retr", "+", "+ retr", Command("RETR", Nobody, TRUE))
     \/ Hear(s, "+ retr", "+", "done", Command("QUIT", Nobody, TRUE))
  /\ UNCHANGED <<name, right, counted, listed>>

Waits(s) == ~ Gone(s) /\ client[s] \notin {"menu", "done"}

\* The user interrupts the client.
Kill(s) ==
  /\ Waits(s)
  /\ client' = [client EXCEPT ![s] = "killed"]
  /\ down' = [down EXCEPT ![s] = <<>>]
  /\ UNCHANGED <<port, name, right, counted, listed, up, childVars, reset, files,
                 mails, overrun>>

-----------------------------------------------------------------------------
(* The child of a session.                                                 *)

\* SIGPIPE does not end it.
BadAnswer(s, code, ids, place) ==
  /\ server' = [server EXCEPT ![s] = place]
  /\ down' = IF Gone(s) THEN down ELSE [down EXCEPT ![s] = Append(@, Reply(code, ids))]
  /\ reset' = IF Gone(s) THEN reset \cup {s} ELSE reset

\* write(), and then to the next recv() or to the end.  When the client is gone,
\* the first one is answered with a reset and the next one kills the child.
Answer(s, code, ids, place) ==
  /\ server' = [server EXCEPT ![s] = IF s \in reset THEN "ended" ELSE place]
  /\ down' = IF Gone(s) THEN down ELSE [down EXCEPT ![s] = Append(@, Reply(code, ids))]
  /\ reset' = IF Gone(s) THEN reset \cup {s} ELSE reset

\* recv() and sscanf(): the next command; of a client that is gone, nothing, and
\* command, which is not cleared, stays as it is.
Gets(s, place, m) ==
  /\ server[s] = place
  /\ \/ up[s] # <<>> /\ m = Head(up[s]) /\ up' = [up EXCEPT ![s] = Tail(@)]
     \/ up[s] = <<>> /\ Gone(s) /\ m = Command(command[s], arg[s], FALSE) /\ UNCHANGED up
  /\ UNCHANGED <<clientVars, files, overrun>>

Incoming(s) ==
  {Command(command[s], arg[s], FALSE)} \cup {up[s][i] : i \in DOMAIN up[s] \cap {1}}

Welcome(s) ==
  IF port[s] = "smtp" THEN Answer(s, "220", {}, "smtp") ELSE Answer(s, "+", {}, "pop")

\* accept() and fork().  The parent does not close its descriptor, so that no
\* client sees the end of its child; without another descriptor accept() fails.
Accept(s) ==
  /\ client[s] # "menu" /\ server[s] = "none"
  /\ files[port[s]] < MaxFiles
  /\ files' = [files EXCEPT ![port[s]] = @ + 1]
  /\ Welcome(s)
  /\ UNCHANGED <<clientVars, up, command, arg, mails, overrun>>

\* The outer loop of run_SMTP; it does nothing for any other command, and for
\* none.
Smtp(s) ==
  \E m \in Incoming(s) :
    /\ Gets(s, "smtp", m)
    /\ \/ m.type = "MAIL" /\ Answer(s, "250", {}, "mail")
       \/ m.type = "QUIT" /\ Answer(s, "221", {}, "ended")
    /\ command' = [command EXCEPT ![s] = m.type]
    /\ UNCHANGED <<arg, mails>>

\* The receiver is not kept.
BadRcpt(s) ==
  \E m \in Incoming(s) :
    /\ Gets(s, "mail", m)
    /\ IF m.type = "RCPT" THEN Answer(s, "250", {}, "rcpt") ELSE Answer(s, "550", {}, "ended")
    /\ command' = [command EXCEPT ![s] = m.type]
    /\ UNCHANGED <<arg, mails>>

Rcpt(s) ==
  \E m \in Incoming(s) :
    /\ Gets(s, "mail", m)
    /\ IF m.type = "RCPT" THEN Answer(s, "250", {}, "rcpt") ELSE Answer(s, "550", {}, "ended")
    /\ command' = [command EXCEPT ![s] = m.type]
    /\ arg' = [arg EXCEPT ![s] = m.user]
    /\ UNCHANGED mails

\* No reply to DATA.
BadData(s) ==
  \E m \in Incoming(s) :
    /\ Gets(s, "rcpt", m)
    /\ server' = [server EXCEPT ![s] = IF m.type = "DATA" THEN "data" ELSE "ended"]
    /\ command' = [command EXCEPT ![s] = m.type]
    /\ UNCHANGED <<arg, down, reset, mails>>

Data(s) ==
  \E m \in Incoming(s) :
    /\ Gets(s, "rcpt", m)
    /\ IF m.type = "DATA" THEN Answer(s, "354", {}, "data") ELSE Answer(s, "550", {}, "ended")
    /\ command' = [command EXCEPT ![s] = m.type]
    /\ UNCHANGED <<arg, mails>>

NewMail(s, u) == [id |-> Cardinality(mails) + 1, to |-> u, from |-> s]

\* The body with its end: INSERT, whose text is longer than query[100] and may
\* overrun the strings it is made from, or the child.
Store(s) ==
  /\ server[s] = "data" /\ up[s] # <<>>
  /\ up' = [up EXCEPT ![s] = Tail(@)]
  /\ \/ /\ mails' = mails \cup {NewMail(s, arg[s])}
        /\ Answer(s, "250", {}, "smtp")
        /\ UNCHANGED overrun
     \/ /\ \E u \in Users \cup {Nobody} : mails' = mails \cup {NewMail(s, u)}
        /\ Answer(s, "250", {}, "smtp")
        /\ overrun' = TRUE
     \/ /\ server' = [server EXCEPT ![s] = "ended"]
        /\ overrun' = TRUE
        /\ UNCHANGED <<mails, down, reset>>
  /\ UNCHANGED <<clientVars, command, arg, files>>

\* Of the body only a part has come, or nothing.
Part(s) ==
  \E m \in Incoming(s) :
    /\ Gets(s, "data", m)
    /\ Answer(s, "550", {}, "ended")
    /\ UNCHANGED <<command, arg, mails>>

MailsTo(u) == {m.id : m \in {n \in mails : n.to = u}}

\* The loop of run_POP.  sscanf() takes the number after RETR for the user too.
Pop(s) ==
  \E m \in Incoming(s) :
    /\ Gets(s, "pop", m)
    /\ CASE m.type = "USER" -> Answer(s, "+", {}, "pass")
         [] m.type \in {"LIST", "STAT"} -> Answer(s, "+", MailsTo(arg[s]), "pop")
         [] m.type = "RETR" -> Answer(s, "+", {}, "pop")
         [] m.type = "QUIT" -> Answer(s, "+", {}, "ended")
         [] OTHER -> Answer(s, "-", {}, "pop")
    /\ command' = [command EXCEPT ![s] = m.type]
    /\ arg' = [arg EXCEPT ![s] = IF m.type \in {"USER", "RETR"} THEN m.user ELSE @]
    /\ UNCHANGED mails

\* A wrong password is not answered.
Pass(s) ==
  \E m \in Incoming(s) :
    /\ Gets(s, "pass", m)
    /\ CASE m.type = "PASS" /\ m.ok -> Answer(s, "+", {}, "pop")
         [] m.type = "PASS" /\ ~ m.ok -> /\ server' = [server EXCEPT ![s] = "pop"]
                                         /\ UNCHANGED <<down, reset>>
         [] OTHER -> Answer(s, "-", {}, "pop")
    /\ command' = [command EXCEPT ![s] = m.type]
    /\ UNCHANGED <<arg, mails>>

-----------------------------------------------------------------------------
Client(s) ==
  SendEmail(s) \/ Login(s) \/ ReadCount(s) \/ ReadList(s) \/ ReadMail(s)

Child(s) ==
  Smtp(s) \/ Rcpt(s) \/ Data(s) \/ Store(s) \/ Part(s) \/ Pop(s) \/ Pass(s)

Next ==
  \E s \in Sessions :
    \/ \E p \in Ports : Connect(s, p)
    \/ Client(s) \/ Kill(s) \/ Accept(s) \/ Child(s)

Spec == Init /\ [][Next]_vars

\* The server's processes keep running; what the clients do is up to their users.
LiveSpec ==
  Spec /\ \A s \in Sessions : WF_vars(Accept(s)) /\ WF_vars(Child(s))

-----------------------------------------------------------------------------
(* Properties.                                                             *)

ClientPlaces == {"menu", "220", "250 mail", "250 rcpt", "354", "250 body", "+",
                 "+ user", "+ pass", "stat", "+ list", "+ retr", "done", "sent",
                 "error", "killed"}
ChildPlaces == {"none", "smtp", "mail", "rcpt", "data", "pop", "pass", "ended"}
Words == {"", "MAIL", "RCPT", "DATA", "QUIT", "USER", "PASS", "STAT", "LIST", "RETR"}
Names == Users \cup {Nobody}
Ids == Nat \ {0}
Commands == [type : Words, user : Names, ok : BOOLEAN]
Replies == [code : {"220", "250", "354", "550", "221", "+", "-"}, ids : SUBSET Ids]
Mails == [id : Ids, to : Names, from : Sessions]

\* Every variable keeps the values its declaration in the code allows, and a
\* server has no more connections than it has descriptors.
TypeOK ==
  /\ client \in [Sessions -> ClientPlaces]
  /\ port \in [Sessions -> Ports]
  /\ name \in [Sessions -> Names]
  /\ right \in [Sessions -> BOOLEAN]
  /\ counted \in [Sessions -> Nat]
  /\ listed \in [Sessions -> SUBSET Ids]
  /\ up \in [Sessions -> Seq(Commands)]
  /\ down \in [Sessions -> Seq(Replies)]
  /\ server \in [Sessions -> ChildPlaces]
  /\ command \in [Sessions -> Words]
  /\ arg \in [Sessions -> Names]
  /\ reset \subseteq Sessions
  /\ files \in [Ports -> 0 .. MaxFiles]
  /\ mails \subseteq Mails
  /\ overrun \in BOOLEAN

\* A client that prints "Mail successfully sent!" has its mail in the table, for
\* the receiver it has typed; and no mail is there twice, whatever clients have
\* been killed or told to give up.
SentIsStored ==
  /\ \A m, n \in mails : m.from = n.from => m = n
  /\ ~ overrun => \A s \in Sessions :
       client[s] = "sent" => \E m \in mails : m.from = s /\ m.to = name[s]

\* Who is shown a list has given the password; it has the mails to that user only,
\* and no fewer than "You have %d new mails!" has promised, though more may have
\* come since, and though the server takes any argument for the user.
ListIsOwn ==
  \A s \in Sessions : client[s] \in {"+ retr", "done"} =>
    /\ right[s]
    /\ listed[s] \subseteq MailsTo(name[s])
    /\ counted[s] <= Cardinality(listed[s])

\* The replies that never come: to a wrong password, to a body that ended the
\* child, and the welcome when the server has no descriptor left.
Lost(s) ==
  \/ client[s] = "+ pass" /\ ~ right[s] /\ server[s] = "pop"
  \/ client[s] = "250 body" /\ server[s] = "ended"
  \/ server[s] = "none" /\ files[port[s]] = MaxFiles

\* Every client gets a reply to every command but those: client and server never
\* wait for each other otherwise.
AnsweredOrLost ==
  \A s \in Sessions :
    Waits(s) /\ down[s] = <<>> ~> ~ Waits(s) \/ down[s] # <<>> \/ Lost(s)

\* The child of a client that is gone does not outlive it, wherever the client was;
\* but run_SMTP, which looks for MAIL and QUIT in what it has not received, goes
\* round and round if the client leaves before MAIL or instead of QUIT.
ChildrenEnd ==
  \A s \in Sessions :
    Gone(s) /\ server[s] # "none" ~>
      server[s] = "ended" \/ (server[s] = "smtp" /\ command[s] \in {"", "DATA"})
=============================================================================
