---------------------------- MODULE CoupledShell ----------------------------
(***************************************************************************)
(* os_lab/assignment3: shells (client.c) that couple over one System V     *)
(* queue with a server (server.c).  A coupled shell sends the output of    *)
(* each command to the server, which sends a copy for each client it knows *)
(* to whoever takes it.  All messages, both ways, are in the one queue:    *)
(* type 1 asks for an id, 3 brings one, 2 gives one back, 5 is an output   *)
(* for the server, 6 a copy of it for a shell.  A shell is two processes:  *)
(* the child reads lines, the parent (the receiver here) shows what comes. *)
(* Texts are left out, but for one thing: a message carries no terminator, *)
(* so that the server finds behind a number what an earlier, longer one    *)
(* has left there.  Ids are of one digit here.  Lines typed and interrupts *)
(* are bounded.                                                            *)
(***************************************************************************)
EXTENDS Integers, Sequences, FiniteSets, SequencesExt

CONSTANTS
  Shells,
  MaxClients,  \* MAX_CLIENTS
  Cap,         \* messages that fit in the queue
  MaxLines,    \* bound: lines typed at all shells
  MaxInts      \* bound: interrupts of all shells

Ids == 0 .. MaxClients - 1
Nobody == -1

ASSUME ShellAssumption ==
  /\ MaxClients \in 1 .. 10
  /\ Cap \in Nat \ {0}
  /\ MaxLines \in Nat
  /\ MaxInts \in Nat

VARIABLES
  queue,     \* the messages, each with its type and, of types 2 and 3, an id
  list,      \* the clients that are CONNECTED in client_list
  server,    \* "receive", "reply", "spread", or "overrun" behind client_list
  i,         \* i of the server
  stale,     \* the second character of client_msg.mtext is the 1 of a "-1"
  at,        \* at[s]: where the child of shell s is
  id,        \* id[s]: client_id
  coupled,   \* coupled[s]: couple_flag
  within,    \* within[s]: the line is run by redirect
  handler,   \* handler[s]: the child is in uncouple_exit
  receiver,  \* receiver[s]: the parent is in its "loop" or in "exit", the handler
  lines,     \* lines typed so far
  ints,      \* interrupts so far
  lost,      \* history: the server has received a message of its own
  crossed    \* history: an interrupt has met a change of client_id, or a
             \* number has been read with a stale digit behind it

queueVars == <<queue>>
serverVars == <<list, server, i, stale>>
childVars == <<at, id, coupled, within, handler>>
vars == <<queue, serverVars, childVars, receiver, lines, ints, lost, crossed>>

Msg(type, k) == [type |-> type, id |-> k]

Init ==
  /\ queue = <<>>
  /\ list = {}
  /\ server = "receive" /\ i = 0 /\ stale = FALSE
  /\ at = [s \in Shells |-> "prompt"]
  /\ id = [s \in Shells |-> Nobody]
  /\ coupled = [s \in Shells |-> FALSE]
  /\ within = [s \in Shells |-> FALSE]
  /\ handler = [s \in Shells |-> FALSE]
  /\ receiver = [s \in Shells |-> "loop"]
  /\ lines = 0
  /\ ints = 0
  /\ lost = FALSE
  /\ crossed = FALSE

-----------------------------------------------------------------------------
(* The queue: msgsnd waits for room, msgrcv of a type for a message of it. *)

Room == Len(queue) < Cap
Send(m) == Room /\ queue' = Append(queue, m)
Types == {queue[k].type : k \in DOMAIN queue}

\* The first message of that type.
Place(type) == SelectInSeq(queue, LAMBDA m : m.type = type)
Take(type) ==
  /\ type \in Types
  /\ queue' = RemoveAt(queue, Place(type))

-----------------------------------------------------------------------------
(* The server.  The operators called Bad... are plausible errors in the    *)
(* definition that follows them.                                           *)

\* for (i = 0; client_list[i] != -1; i++)
FirstFree == CHOOSE k \in Ids \ list : \A j \in Ids \ list : k <= j

Receive(type) ==
  /\ server = "receive"
  /\ queue # <<>> /\ Head(queue).type = type
  /\ queue' = Tail(queue)
  /\ UNCHANGED <<childVars, receiver, lines, ints>>

\* The server does not mark the cell it has given away.
BadRegister ==
  /\ Receive(1)
  /\ i' = FirstFree
  /\ server' = "reply"
  /\ stale' = FALSE
  /\ UNCHANGED <<list, lost, crossed>>

Register ==
  /\ Receive(1)
  /\ i' = FirstFree
  /\ list' = list \cup {FirstFree}
  /\ server' = "reply"
  /\ stale' = FALSE
  /\ UNCHANGED <<lost, crossed>>

\* atoi(client_msg.mtext): a digit, and maybe the 1 behind it.
Number(k) == IF stale /\ k # Nobody THEN 10 * k + 1 ELSE k

\* The loop ends at the first free cell, whatever is connected behind it.
Deregister ==
  /\ Receive(2)
  /\ LET temp == Number(Head(queue).id)
     IN  /\ list' = IF temp < FirstFree THEN list \ {temp} ELSE list
         /\ crossed' = (crossed \/ temp # Head(queue).id)
  /\ stale' = (stale \/ Head(queue).id = Nobody)
  /\ UNCHANGED <<server, i, lost>>

Broadcast ==
  /\ Receive(5)
  /\ i' = 0
  /\ server' = IF 0 \in list THEN "spread" ELSE "receive"
  /\ stale' = FALSE
  /\ UNCHANGED <<list, lost, crossed>>

\* msgrcv of any type: what the server has sent itself it may receive, too.
ReceiveOwn ==
  /\ Receive(3) \/ Receive(6)
  /\ stale' = (stale /\ Head(queue).type = 3)
  /\ lost' = TRUE
  /\ UNCHANGED <<list, server, i, crossed>>

\* The id goes out with the type of a copy.
BadReply ==
  /\ server = "reply"
  /\ Send(Msg(6, i))
  /\ server' = IF list = Ids THEN "overrun" ELSE "receive"
  /\ UNCHANGED <<list, i, stale, childVars, receiver, lines, ints, lost, crossed>>

\* When all cells are taken the next search leaves client_list.
Reply ==
  /\ server = "reply"
  /\ Send(Msg(3, i))
  /\ server' = IF list = Ids THEN "overrun" ELSE "receive"
  /\ UNCHANGED <<list, i, stale, childVars, receiver, lines, ints, lost, crossed>>

Spread ==
  /\ server = "spread"
  /\ Send(Msg(6, Nobody))
  /\ i' = i + 1
  /\ server' = IF i + 1 \in list THEN "spread" ELSE "receive"
  /\ UNCHANGED <<list, stale, childVars, receiver, lines, ints, lost, crossed>>

Server ==
  Register \/ Deregister \/ Broadcast \/ ReceiveOwn \/ Reply \/ Spread

-----------------------------------------------------------------------------
(* The child of shell s: sh_loop, and what the lines typed do.             *)

Goto(s, place) == at' = [at EXCEPT ![s] = place]

Prompt(s) ==
  /\ at[s] = "prompt" /\ ~ handler[s]
  /\ lines < MaxLines /\ lines' = lines + 1
  /\ UNCHANGED <<serverVars, handler, receiver, ints, lost, crossed>>

\* "couple", which a coupled shell runs like any other command.
Couple(s) ==
  /\ Prompt(s)
  /\ within' = [within EXCEPT ![s] = coupled[s]]
  /\ Goto(s, "ask")
  /\ UNCHANGED <<queue, id, coupled>>

\* "uncouple", coupled or not: IPC_NOWAIT.
Uncouple(s) ==
  /\ Prompt(s)
  /\ queue' = IF Room THEN Append(queue, Msg(2, id[s])) ELSE queue
  /\ Goto(s, "forget")
  /\ UNCHANGED <<id, coupled, within>>

\* Another command of a coupled shell.  read() of what it has written never
\* returns if it has written nothing.
Command(s) ==
  /\ Prompt(s)
  /\ coupled[s]
  /\ within' = [within EXCEPT ![s] = TRUE]
  /\ \E place \in {"output", "hung"} : Goto(s, place)
  /\ UNCHANGED <<queue, id, coupled>>

\* The end of the input, or an empty line of a coupled shell, ends the process.
End(s) ==
  /\ Prompt(s)
  /\ Goto(s, "ended")
  /\ UNCHANGED <<queue, id, coupled, within>>

Running(s) == ~ handler[s] /\ UNCHANGED <<serverVars, handler, receiver, lines,
                                          ints, lost, crossed>>

Ask(s) ==
  /\ at[s] = "ask" /\ Running(s)
  /\ Send(Msg(1, Nobody))
  /\ Goto(s, "await")
  /\ UNCHANGED <<id, coupled, within>>

\* What follows sh_couple() once it has printed the id.
AfterCouple(s) == IF within[s] THEN "output" ELSE "prompt"

\* Whichever shell waits takes whichever id comes.
GetId(s) ==
  /\ at[s] = "await" /\ Running(s)
  /\ Take(3)
  /\ id' = [id EXCEPT ![s] = queue[Place(3)].id]
  /\ coupled' = [coupled EXCEPT ![s] = TRUE]
  /\ Goto(s, AfterCouple(s))
  /\ UNCHANGED within

Forget(s) ==
  /\ at[s] = "forget" /\ Running(s)
  /\ id' = [id EXCEPT ![s] = Nobody]
  /\ coupled' = [coupled EXCEPT ![s] = FALSE]
  /\ Goto(s, "prompt")
  /\ UNCHANGED <<queue, within>>

SendOutput(s) ==
  /\ at[s] = "output" /\ Running(s)
  /\ Send(Msg(5, Nobody))
  /\ Goto(s, "prompt")
  /\ UNCHANGED <<id, coupled, within>>

-----------------------------------------------------------------------------
(* Interrupts: uncouple_exit in the child and in the parent, which has no  *)
(* id.  A msgsnd or msgrcv that was waiting fails.                         *)

\* Where the child goes on after the handler.
Resumed(s) ==
  CASE at[s] = "ask" /\ ~ Room -> {"ask", "await"}
    [] at[s] = "output" /\ ~ Room -> {"output", "prompt"}
    [] at[s] = "await" /\ 3 \notin Types -> {"await", "failed"}
    [] OTHER -> {at[s]}

\* Control-C reaches both processes; the parent outlives the child.
Interrupt(s) ==
  /\ ints < MaxInts /\ ints' = ints + 1
  /\ ~ handler[s] /\ receiver[s] = "loop"
  /\ handler' = [handler EXCEPT ![s] = at[s] # "ended"]
  /\ coupled' = [coupled EXCEPT ![s] = FALSE]
  /\ \E place \in Resumed(s) : Goto(s, place)
  /\ receiver' = [receiver EXCEPT ![s] = "exit"]
  /\ crossed' = (crossed \/ at[s] = "forget")
  /\ UNCHANGED <<queue, serverVars, id, within, lines, lost>>

UncoupleExit(s) ==
  /\ handler[s]
  /\ Send(Msg(2, id[s]))
  /\ id' = [id EXCEPT ![s] = Nobody]
  /\ handler' = [handler EXCEPT ![s] = FALSE]
  /\ UNCHANGED <<serverVars, at, coupled, within, receiver, lines, ints, lost,
                 crossed>>

\* No id has come, and the type of response is looked at all the same: it has
\* no value, or that of an earlier call.
Failed(s) ==
  /\ at[s] = "failed" /\ ~ handler[s]
  /\ \/ /\ Goto(s, IF within[s] THEN "hung" ELSE "prompt")
        /\ UNCHANGED <<id, coupled, crossed>>
     \/ /\ \E k \in Ids : id' = [id EXCEPT ![s] = k]
        /\ coupled' = [coupled EXCEPT ![s] = TRUE]
        /\ Goto(s, AfterCouple(s))
        /\ crossed' = TRUE
  /\ UNCHANGED <<queue, serverVars, within, handler, receiver, lines, ints, lost>>

Show(s) ==
  /\ receiver[s] = "loop"
  /\ Take(6)
  /\ UNCHANGED <<serverVars, childVars, receiver, lines, ints, lost, crossed>>

\* The handler does not wait for room.
BadReceiverExit(s) ==
  /\ receiver[s] = "exit"
  /\ queue' = IF Room THEN Append(queue, Msg(2, Nobody)) ELSE queue
  /\ receiver' = [receiver EXCEPT ![s] = "loop"]
  /\ UNCHANGED <<serverVars, childVars, lines, ints, lost, crossed>>

ReceiverExit(s) ==
  /\ receiver[s] = "exit"
  /\ Send(Msg(2, Nobody))
  /\ receiver' = [receiver EXCEPT ![s] = "loop"]
  /\ UNCHANGED <<serverVars, childVars, lines, ints, lost, crossed>>

-----------------------------------------------------------------------------
User(s) ==
  \/ Couple(s) \/ Uncouple(s) \/ Command(s) \/ End(s)
  \/ Interrupt(s)
Child(s) ==
  \/ Ask(s) \/ GetId(s) \/ Forget(s) \/ SendOutput(s)
  \/ UncoupleExit(s) \/ Failed(s)
Receiver(s) == Show(s) \/ ReceiverExit(s)

Next == Server \/ \E s \in Shells : User(s) \/ Child(s) \/ Receiver(s)

Spec == Init /\ [][Next]_vars

\* The processes keep running; nobody has to type.
LiveSpec ==
  /\ Spec
  /\ WF_vars(Server)
  /\ \A s \in Shells : WF_vars(Child(s)) /\ WF_vars(Receiver(s))

-----------------------------------------------------------------------------
(* Properties.                                                             *)

\* The shell has an id that it has not given back.
Owns(s, k) == id[s] = k /\ at[s] # "forget"

\* The ids on their way: brought by a reply, or given back.
OnTheWay(k) == {n \in DOMAIN queue : queue[n].type \in {2, 3} /\ queue[n].id = k}

\* Whichever shell takes whichever reply, and whatever is given back late or not
\* at all, an id is at one place: with one shell, in one message, or about to be
\* sent; and the server takes it for connected.  Unless an interrupt comes while
\* a shell gives its id back, or makes it read an id that was not sent, or the
\* server finds a digit of an earlier message behind the id given back.
UniqueIds ==
  ~ crossed => \A k \in Ids :
    LET owners == {s \in Shells : Owns(s, k)}
        replies == IF server = "reply" /\ i = k THEN {0} ELSE {}
        places == Cardinality(owners) + Cardinality(OnTheWay(k)) + Cardinality(replies)
    IN  places <= 1 /\ (places = 1 => k \in list)

\* The server waits for room in a queue that nobody else takes from.
Jam ==
  /\ server \in {"reply", "spread"} /\ ~ Room
  /\ 6 \in Types => \A s \in Shells : receiver[s] = "exit"
  /\ 3 \in Types => \A s \in Shells : at[s] # "await" \/ handler[s]

\* A jam is for ever: not even an interrupt ends it, for the handler sends, too.
JamStays == [][Jam => Jam']_vars

\* A shell that has been given a line comes back to its prompt, except: the
\* server has received its own reply, the queue is jammed, client_list is full,
\* the command has no output or the line was empty, or somebody was interrupted.
PromptReturns ==
  \A s \in Shells : at[s] # "prompt" ~>
    \/ at[s] \in {"prompt", "hung", "ended"}
    \/ lost \/ Jam \/ server = "overrun" \/ ints > 0
=============================================================================
