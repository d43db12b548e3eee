----------------------------- MODULE MailProofs -----------------------------
(* A mail that is said to be sent is stored, once, a list is the user's    *)
(* own, and client and child never wait for each other, for any sessions,  *)
(* users and descriptors.                                                  *)
EXTENDS Mail, FiniteSetTheorems, TLAPS

-----------------------------------------------------------------------------
(* The invariant: what client and child have said to each other.           *)

Quiet(s, place) == up[s] = <<>> /\ down[s] = <<>> /\ server[s] = place
Asked(s, place, m) == up[s] = <<m>> /\ down[s] = <<>> /\ server[s] = place
Replied(s, place, r) == up[s] = <<>> /\ down[s] = <<r>> /\ server[s] = place

OkTo(word) == Command(word, Nobody, TRUE)
Bare(code) == Reply(code, {})

\* The child has the name that the user has typed.
Told(s) == arg[s] = name[s]

Stored(s) == overrun \/ \E m \in mails : m.from = s /\ m.to = name[s]

Shown(s) ==
  /\ right[s]
  /\ listed[s] \subseteq MailsTo(name[s])
  /\ counted[s] <= Cardinality(listed[s])

Sending(s) ==
  /\ client[s] = "220" =>
       port[s] = "smtp" /\ (Quiet(s, "none") \/ Replied(s, "smtp", Bare("220")))
  /\ client[s] = "250 mail" =>
       Asked(s, "smtp", OkTo("MAIL")) \/ Replied(s, "mail", Bare("250"))
  /\ client[s] = "250 rcpt" =>
       \/ Asked(s, "mail", Command("RCPT", name[s], TRUE))
       \/ Replied(s, "rcpt", Bare("250")) /\ Told(s)
  /\ client[s] = "354" =>
       /\ Told(s)
       /\ Asked(s, "rcpt", OkTo("DATA")) \/ Replied(s, "data", Bare("354"))
  /\ client[s] = "250 body" =>
       \/ Asked(s, "data", OkTo("")) /\ Told(s)
       \/ Replied(s, "smtp", Bare("250")) /\ Stored(s)
       \/ Replied(s, "ended", Bare("550"))
       \/ Quiet(s, "ended")
  /\ client[s] = "sent" => Stored(s)

Reading(s) ==
  /\ client[s] = "+" =>
       port[s] = "pop" /\ (Quiet(s, "none") \/ Replied(s, "pop", Bare("+")))
  /\ client[s] = "+ user" =>
       \/ Asked(s, "pop", Command("USER", name[s], TRUE))
       \/ Replied(s, "pass", Bare("+")) /\ Told(s)
  /\ client[s] = "+ pass" =>
       /\ Told(s)
       /\ \/ Asked(s, "pass", Command("PASS", Nobody, right[s]))
          \/ Replied(s, "pop", Bare("+")) /\ right[s]
          \/ Quiet(s, "pop") /\ ~ right[s]
  /\ client[s] = "stat" =>
       /\ Told(s) /\ right[s]
       /\ \/ Asked(s, "pop", OkTo("STAT"))
          \/ \E ids \in SUBSET MailsTo(name[s]) : Replied(s, "pop", Reply("+", ids))
  /\ client[s] = "+ list" =>
       /\ Told(s) /\ right[s]
       /\ \/ /\ Asked(s, "pop", OkTo("LIST"))
             /\ counted[s] <= Cardinality(MailsTo(name[s]))
          \/ \E ids \in SUBSET MailsTo(name[s]) :
               /\ Replied(s, "pop", Reply("+", ids))
               /\ counted[s] <= Cardinality(ids)
  /\ client[s] = "+ retr" =>
       /\ Shown(s)
       /\ Asked(s, "pop", OkTo("RETR")) \/ Replied(s, "pop", Bare("+"))
  /\ client[s] = "done" =>
       /\ Shown(s)
       /\ Asked(s, "pop", OkTo("QUIT")) \/ Replied(s, "ended", Bare("+"))

HasSent(s) == \E m \in mails : m.from = s

\* A child that has stored a mail does not come to another one.
StoresOnce(s) ==
  /\ server[s] = "data" => command[s] = "DATA"
  /\ up[s] = <<>> \/ \E m \in Commands : up[s] = <<m>>
  /\ HasSent(s) =>
       /\ client[s] \in {"250 body", "sent", "error", "killed"}
       /\ \/ server[s] = "ended"
          \/ /\ server[s] = "smtp" /\ command[s] = "DATA"
             /\ up[s] \in {<<>>, <<OkTo("QUIT")>>}

Session(s) ==
  /\ client[s] = "menu" => Quiet(s, "none")
  /\ s \in reset => Gone(s)
  /\ Sending(s)
  /\ Reading(s)
  /\ StoresOnce(s)

OneEach == \A m, n \in mails : m.from = n.from => m = n

IInv ==
  /\ TypeOK
  /\ IsFiniteSet(mails)
  /\ OneEach
  /\ \A s \in Sessions : Session(s)

-----------------------------------------------------------------------------
(* Types.                                                                  *)

LEMMA OneMessage ==
  ASSUME NEW x
  PROVE  /\ <<x>> # <<>>
         /\ Head(<<x>>) = x /\ Tail(<<x>>) = <<>> /\ Append(<<>>, x) = <<x>>
         /\ DOMAIN <<x>> = {1} /\ <<x>>[1] = x
  OBVIOUS

LEMMA HeadTaken ==
  ASSUME NEW S, NEW q \in Seq(S), q # <<>>
  PROVE  Tail(q) \in Seq(S) /\ Head(q) \in S
  OBVIOUS

LEMMA Grown ==
  ASSUME NEW S, NEW q \in Seq(S), NEW m \in S
  PROVE  Append(q, m) \in Seq(S)
  OBVIOUS

LEMMA CommandType ==
  ASSUME NEW word \in Words, NEW u \in Names, NEW ok \in BOOLEAN
  PROVE  /\ Command(word, u, ok) \in Commands
         /\ Command(word, u, ok).type = word
         /\ Command(word, u, ok).user = u
         /\ Command(word, u, ok).ok = ok
  BY DEF Command, Commands

LEMMA MailsToType ==
  ASSUME TypeOK, IsFiniteSet(mails), NEW u
  PROVE  MailsTo(u) \in SUBSET Ids /\ IsFiniteSet(MailsTo(u))
<1>1. MailsTo(u) \in SUBSET Ids
  BY DEF MailsTo, TypeOK, Mails
<1>2. MailsTo(u) = {m.id : m \in {n \in mails : n.to = u}}
  BY DEF MailsTo
<1>3. IsFiniteSet({n \in mails : n.to = u})
  BY FS_Subset
<1>4. IsFiniteSet({m.id : m \in {n \in mails : n.to = u}})
  <2> DEFINE S == {n \in mails : n.to = u}
             T == {m.id : m \in S}
             f == [m \in S |-> m.id]
  <2>1. f \in Surjection(S, T)
    BY DEF Surjection
  <2> HIDE DEF S, T, f
  <2>2. IsFiniteSet(S)
    BY <1>3 DEF S
  <2>3. IsFiniteSet(T)
    BY <2>1, <2>2, FS_Surjection
  <2> QED BY <2>3 DEF S, T
<1> QED BY <1>1, <1>2, <1>4

LEMMA HearType ==
  ASSUME TypeOK, NEW s \in Sessions, NEW from, NEW code, NEW to \in ClientPlaces,
         NEW m \in Commands, Hear(s, from, code, to, m)
  PROVE  /\ client' \in [Sessions -> ClientPlaces]
         /\ up' \in [Sessions -> Seq(Commands)]
         /\ down' \in [Sessions -> Seq(Replies)]
         /\ UNCHANGED <<port, childVars, reset, files, mails, overrun>>
         /\ Head(down[s]) \in Replies
<1>1. /\ client \in [Sessions -> ClientPlaces]
      /\ up \in [Sessions -> Seq(Commands)]
      /\ down \in [Sessions -> Seq(Replies)]
  BY DEF TypeOK
<1>2. down[s] \in Seq(Replies) /\ down[s] # <<>> /\ up[s] \in Seq(Commands)
  BY <1>1 DEF Hear
<1>3. Tail(down[s]) \in Seq(Replies) /\ Head(down[s]) \in Replies
  BY <1>2, HeadTaken
<1>4. down' \in [Sessions -> Seq(Replies)]
  BY <1>1, <1>3 DEF Hear
<1>5. Append(up[s], m) \in Seq(Commands)
  BY <1>2, Grown
<1>6. up' \in [Sessions -> Seq(Commands)]
  BY <1>1, <1>5 DEF Hear
<1>7. client' \in [Sessions -> ClientPlaces]
  BY <1>1 DEF Hear, ClientPlaces
<1> QED BY <1>3, <1>4, <1>6, <1>7 DEF Hear

LEMMA AnswerType ==
  ASSUME TypeOK, NEW s \in Sessions, NEW code \in {"220", "250", "354", "550", "221", "+", "-"},
         NEW ids \in SUBSET Ids, NEW place \in ChildPlaces,
         Answer(s, code, ids, place)
  PROVE  /\ server' \in [Sessions -> ChildPlaces]
         /\ down' \in [Sessions -> Seq(Replies)]
         /\ reset' \subseteq Sessions
<1>1. /\ server \in [Sessions -> ChildPlaces]
      /\ down \in [Sessions -> Seq(Replies)]
      /\ reset \subseteq Sessions
  BY DEF TypeOK
<1>2. Reply(code, ids) \in Replies
  BY DEF Reply, Replies
<1>3. Append(down[s], Reply(code, ids)) \in Seq(Replies)
  BY <1>1, <1>2, Grown
<1>4. down' \in [Sessions -> Seq(Replies)]
  BY <1>1, <1>3 DEF Answer
<1>5. server' \in [Sessions -> ChildPlaces]
  BY <1>1 DEF Answer, ChildPlaces
<1>6. reset' \subseteq Sessions
  BY <1>1 DEF Answer
<1> QED BY <1>4, <1>5, <1>6

LEMMA GetsType ==
  ASSUME TypeOK, NEW s \in Sessions, NEW place, NEW m \in Incoming(s),
         Gets(s, place, m)
  PROVE  /\ m \in Commands
         /\ up' \in [Sessions -> Seq(Commands)]
         /\ UNCHANGED <<clientVars, files, overrun>>
         /\ command' = [command EXCEPT ![s] = m.type] =>
              command' \in [Sessions -> Words]
<1>1. /\ up \in [Sessions -> Seq(Commands)] /\ up[s] \in Seq(Commands)
      /\ command \in [Sessions -> Words] /\ command[s] \in Words
      /\ arg[s] \in Names
  BY DEF TypeOK
<1>2. m \in Commands
  <2>1. CASE m = Command(command[s], arg[s], FALSE)
    BY <1>1, <2>1, CommandType
  <2>2. ASSUME NEW i \in DOMAIN up[s] \cap {1}, m = up[s][i] PROVE m \in Commands
    BY <1>1, <2>2
  <2> QED BY <2>1, <2>2 DEF Incoming
<1>3. up' \in [Sessions -> Seq(Commands)]
  <2>1. CASE up[s] # <<>> /\ up' = [up EXCEPT ![s] = Tail(@)]
    <3>1. Tail(up[s]) \in Seq(Commands)
      BY <1>1, <2>1, HeadTaken
    <3> QED BY <1>1, <2>1, <3>1
  <2>2. CASE up' = up
    BY <1>1, <2>2
  <2> QED BY <2>1, <2>2 DEF Gets
<1>4. m.type \in Words
  BY <1>2 DEF Commands
<1> QED BY <1>1, <1>2, <1>3, <1>4 DEF Gets

LEMMA ClientTyped ==
  ASSUME TypeOK, IsFiniteSet(mails), NEW s \in Sessions, Client(s),
         down[s] # <<>> => IsFiniteSet(Head(down[s]).ids)
  PROVE  TypeOK'
<1>0. /\ name \in [Sessions -> Names] /\ right \in [Sessions -> BOOLEAN]
      /\ counted \in [Sessions -> Nat] /\ listed \in [Sessions -> SUBSET Ids]
  BY DEF TypeOK
<1>1. /\ \A word \in Words : OkTo(word) \in Commands
      /\ \A u \in Users : /\ Command("RCPT", u, TRUE) \in Commands
                          /\ Command("USER", u, TRUE) \in Commands
      /\ \A b \in BOOLEAN : Command("PASS", Nobody, b) \in Commands
  BY CommandType DEF Words, Names, OkTo
<1>2. ASSUME NEW from, NEW code, NEW to \in ClientPlaces, NEW m \in Commands,
             Hear(s, from, code, to, m),
             name' \in [Sessions -> Names], right' \in [Sessions -> BOOLEAN],
             counted' \in [Sessions -> Nat], listed' \in [Sessions -> SUBSET Ids]
      PROVE  TypeOK'
  <2>1. /\ client' \in [Sessions -> ClientPlaces]
        /\ up' \in [Sessions -> Seq(Commands)]
        /\ down' \in [Sessions -> Seq(Replies)]
        /\ UNCHANGED <<port, childVars, reset, files, mails, overrun>>
    BY <1>2, HearType
  <2> QED BY <1>2, <2>1 DEF TypeOK, childVars
<1> USE DEF ClientPlaces, Words
<1>3. CASE SendEmail(s)
  <2>1. CASE UNCHANGED name
    <3>1. PICK from \in ClientPlaces, code \in {"220", "250", "354"}, to \in ClientPlaces,
               m \in Commands :
            Hear(s, from, code, to, m) /\ UNCHANGED <<right, counted, listed>>
      BY <1>1, <1>3 DEF SendEmail, OkTo
    <3> QED BY <1>0, <1>2, <2>1, <3>1
  <2>2. ASSUME NEW u \in Users,
               Hear(s, "250 mail", "250", "250 rcpt", Command("RCPT", u, TRUE)),
               name' = [name EXCEPT ![s] = u], UNCHANGED <<right, counted, listed>>
        PROVE  TypeOK'
    <3>1. name' \in [Sessions -> Names]
      BY <1>0, <2>2 DEF Names
    <3> QED BY <1>0, <1>1, <1>2, <2>2, <3>1
  <2> QED BY <1>3, <2>1, <2>2 DEF SendEmail
<1>4. CASE Login(s)
  <2>1. ASSUME NEW u \in Users,
               Hear(s, "+", "+", "+ user", Command("USER", u, TRUE)),
               name' = [name EXCEPT ![s] = u], UNCHANGED <<right, counted, listed>>
        PROVE  TypeOK'
    <3>1. name' \in [Sessions -> Names]
      BY <1>0, <2>1 DEF Names
    <3> QED BY <1>0, <1>1, <1>2, <2>1, <3>1
  <2>2. ASSUME NEW b \in BOOLEAN,
               Hear(s, "+ user", "+", "+ pass", Command("PASS", Nobody, b)),
               right' = [right EXCEPT ![s] = b], UNCHANGED <<name, counted, listed>>
        PROVE  TypeOK'
    <3>1. right' \in [Sessions -> BOOLEAN]
      BY <1>0, <2>2
    <3> QED BY <1>0, <1>1, <1>2, <2>2, <3>1
  <2>3. CASE /\ Hear(s, "+ pass", "+", "stat", OkTo("STAT"))
             /\ UNCHANGED <<name, right, counted, listed>>
    BY <1>0, <1>1, <1>2, <2>3
  <2> QED BY <1>4, <2>1, <2>2, <2>3 DEF Login, OkTo
<1>5. CASE ReadCount(s)
  <2>1. /\ Hear(s, "stat", "+", "+ list", OkTo("LIST"))
        /\ counted' = [counted EXCEPT ![s] = Cardinality(Head(down[s]).ids)]
        /\ UNCHANGED <<name, right, listed>>
    BY <1>5 DEF ReadCount, OkTo
  <2>2. Cardinality(Head(down[s]).ids) \in Nat
    BY <2>1, FS_CardinalityType DEF Hear
  <2>3. counted' \in [Sessions -> Nat]
    BY <1>0, <2>1, <2>2
  <2> QED BY <1>0, <1>1, <1>2, <2>1, <2>3
<1>6. CASE ReadList(s)
  <2>1. /\ Hear(s, "+ list", "+", "+ retr", OkTo("RETR"))
        /\ listed' = [listed EXCEPT ![s] = Head(down[s]).ids]
        /\ UNCHANGED <<name, right, counted>>
    BY <1>6 DEF ReadList, OkTo
  <2>2. OkTo("RETR") \in Commands /\ "+ retr" \in ClientPlaces
    BY <1>1
  <2>3. Head(down[s]) \in Replies
    BY <2>1, <2>2, HearType
  <2>4. Head(down[s]).ids \in SUBSET Ids
    BY <2>3 DEF Replies
  <2>5. listed' \in [Sessions -> SUBSET Ids]
    BY <1>0, <2>1, <2>4
  <2> QED BY <1>0, <1>2, <2>1, <2>2, <2>5
<1>7. CASE ReadMail(s)
  <2>1. CASE Hear(s, "+ retr", "+", "+ retr", OkTo("RETR"))
    BY <1>0, <1>1, <1>2, <1>7, <2>1 DEF ReadMail
  <2>2. CASE Hear(s, "+ retr", "+", "done", OkTo("QUIT"))
    BY <1>0, <1>1, <1>2, <1>7, <2>2 DEF ReadMail
  <2> QED BY <1>7, <2>1, <2>2 DEF ReadMail, OkTo
<1> QED BY <1>3, <1>4, <1>5, <1>6, <1>7 DEF Client

\* Steps of a child that change no mail.
LEMMA TalkTyped ==
  ASSUME TypeOK, IsFiniteSet(mails), NEW s \in Sessions,
         Smtp(s) \/ Rcpt(s) \/ Data(s) \/ Part(s) \/ Pop(s) \/ Pass(s)
  PROVE  TypeOK'
<1>0. /\ server \in [Sessions -> ChildPlaces] /\ command \in [Sessions -> Words]
      /\ arg \in [Sessions -> Names] /\ down \in [Sessions -> Seq(Replies)]
      /\ reset \subseteq Sessions
  BY DEF TypeOK
<1>1. PICK m \in Incoming(s), place \in ChildPlaces :
        /\ Gets(s, place, m)
        /\ \/ UNCHANGED command
           \/ command' = [command EXCEPT ![s] = m.type]
        /\ \/ UNCHANGED arg
           \/ arg' = [arg EXCEPT ![s] = m.user]
        /\ \/ \E code \in {"220", "250", "354", "550", "221", "+", "-"},
                 ids \in SUBSET Ids, next \in ChildPlaces : Answer(s, code, ids, next)
           \/ server' = [server EXCEPT ![s] = "pop"] /\ UNCHANGED <<down, reset>>
        /\ mails' = mails
  <2> USE DEF ChildPlaces
  <2>0. {} \in SUBSET Ids /\ MailsTo(arg[s]) \in SUBSET Ids
    BY MailsToType
  <2>1. CASE Smtp(s)
    BY <2>0, <2>1 DEF Smtp
  <2>2. CASE Rcpt(s)
    BY <2>0, <2>2 DEF Rcpt
  <2>3. CASE Data(s)
    BY <2>0, <2>3 DEF Data
  <2>4. CASE Part(s)
    BY <2>0, <2>4 DEF Part
  <2>5. CASE Pop(s)
    <3>1. PICK m \in Incoming(s) :
            /\ Gets(s, "pop", m)
            /\ \/ m.type = "USER" /\ Answer(s, "+", {}, "pass")
               \/ m.type \in {"LIST", "STAT"} /\ Answer(s, "+", MailsTo(arg[s]), "pop")
               \/ m.type = "RETR" /\ Answer(s, "+", {}, "pop")
               \/ m.type = "QUIT" /\ Answer(s, "+", {}, "ended")
               \/ Answer(s, "-", {}, "pop")
            /\ command' = [command EXCEPT ![s] = m.type]
            /\ arg' = [arg EXCEPT ![s] = IF m.type \in {"USER", "RETR"} THEN m.user ELSE @]
            /\ UNCHANGED mails
      BY <2>5 DEF Pop
    <3>2. arg' = arg \/ arg' = [arg EXCEPT ![s] = m.user]
      BY <1>0, <3>1
    <3>3. \E code \in {"220", "250", "354", "550", "221", "+", "-"},
             ids \in SUBSET Ids, next \in ChildPlaces : Answer(s, code, ids, next)
      BY <2>0, <3>1
    <3> QED BY <3>1, <3>2, <3>3
  <2>6. CASE Pass(s)
    <3>1. PICK m \in Incoming(s) :
            /\ Gets(s, "pass", m)
            /\ \/ Answer(s, "+", {}, "pop")
               \/ server' = [server EXCEPT ![s] = "pop"] /\ UNCHANGED <<down, reset>>
               \/ Answer(s, "-", {}, "pop")
            /\ command' = [command EXCEPT ![s] = m.type]
            /\ UNCHANGED <<arg, mails>>
      BY <2>6 DEF Pass
    <3> QED BY <2>0, <3>1
  <2> QED BY <2>1, <2>2, <2>3, <2>4, <2>5, <2>6
<1>2. /\ m \in Commands
      /\ up' \in [Sessions -> Seq(Commands)]
      /\ UNCHANGED <<clientVars, files, overrun>>
      /\ command' \in [Sessions -> Words]
  BY <1>0, <1>1, GetsType
<1>3. arg' \in [Sessions -> Names]
  <2>1. m.user \in Names
    BY <1>2 DEF Commands
  <2> QED BY <1>0, <1>1, <2>1
<1>4. /\ server' \in [Sessions -> ChildPlaces]
      /\ down' \in [Sessions -> Seq(Replies)]
      /\ reset' \subseteq Sessions
  <2>1. CASE server' = [server EXCEPT ![s] = "pop"] /\ UNCHANGED <<down, reset>>
    BY <1>0, <2>1 DEF ChildPlaces
  <2> QED BY <1>1, <2>1, AnswerType
<1> QED BY <1>1, <1>2, <1>3, <1>4 DEF TypeOK, clientVars

LEMMA StoreTyped ==
  ASSUME TypeOK, IsFiniteSet(mails), NEW s \in Sessions, Store(s)
  PROVE  TypeOK' /\ IsFiniteSet(mails')
<1>0. /\ server \in [Sessions -> ChildPlaces] /\ arg \in [Sessions -> Names]
      /\ up \in [Sessions -> Seq(Commands)] /\ mails \subseteq Mails
      /\ down \in [Sessions -> Seq(Replies)] /\ reset \subseteq Sessions
  BY DEF TypeOK
<1>1. up' \in [Sessions -> Seq(Commands)]
  <2>1. Tail(up[s]) \in Seq(Commands)
    BY <1>0, HeadTaken DEF Store
  <2> QED BY <1>0, <2>1 DEF Store
<1>2. ASSUME NEW u \in Names PROVE NewMail(s, u) \in Mails
  <2>1. Cardinality(mails) \in Nat
    BY FS_CardinalityType
  <2>2. Cardinality(mails) + 1 \in Ids
    BY <2>1 DEF Ids
  <2> QED BY <2>2 DEF NewMail, Mails
<1>3. mails' \subseteq Mails /\ IsFiniteSet(mails')
  <2>1. mails' = mails \/ \E u \in Names : mails' = mails \cup {NewMail(s, u)}
    BY <1>0 DEF Store, Names
  <2>2. CASE mails' = mails
    BY <1>0, <2>2
  <2>3. ASSUME NEW u \in Names, mails' = mails \cup {NewMail(s, u)}
        PROVE  mails' \subseteq Mails /\ IsFiniteSet(mails')
    BY <1>0, <1>2, <2>3, FS_AddElement
  <2> QED BY <2>1, <2>2, <2>3
<1>4. /\ server' \in [Sessions -> ChildPlaces]
      /\ down' \in [Sessions -> Seq(Replies)]
      /\ reset' \subseteq Sessions
  <2>1. CASE Answer(s, "250", {}, "smtp")
    BY <2>1, AnswerType DEF ChildPlaces
  <2>2. CASE server' = [server EXCEPT ![s] = "ended"] /\ UNCHANGED <<down, reset>>
    BY <1>0, <2>2 DEF ChildPlaces
  <2> QED BY <2>1, <2>2 DEF Store
<1>5. overrun' \in BOOLEAN
  <2>1. overrun' = overrun \/ overrun' = TRUE
    BY DEF Store
  <2> QED BY <2>1 DEF TypeOK
<1> QED BY <1>1, <1>3, <1>4, <1>5 DEF TypeOK, Store, clientVars

LEMMA OpenTyped ==
  ASSUME TypeOK, NEW s \in Sessions,
         \/ \E p \in Ports : Connect(s, p)
         \/ Kill(s) \/ Accept(s)
  PROVE  TypeOK'
<1>0. /\ client \in [Sessions -> ClientPlaces] /\ port \in [Sessions -> Ports]
      /\ down \in [Sessions -> Seq(Replies)] /\ files \in [Ports -> 0 .. MaxFiles]
  BY DEF TypeOK
<1>1. ASSUME NEW p \in Ports, Connect(s, p) PROVE TypeOK'
  <2>1. client' \in [Sessions -> ClientPlaces] /\ port' \in [Sessions -> Ports]
    BY <1>0, <1>1 DEF Connect, ClientPlaces
  <2> QED BY <1>1, <2>1 DEF Connect, TypeOK, childVars
<1>2. CASE Kill(s)
  <2>1. client' \in [Sessions -> ClientPlaces]
    BY <1>0, <1>2 DEF Kill, ClientPlaces
  <2>2. down' \in [Sessions -> Seq(Replies)]
    BY <1>0, <1>2 DEF Kill
  <2> QED BY <1>2, <2>1, <2>2 DEF Kill, TypeOK, childVars
<1>3. CASE Accept(s)
  <2>1. /\ server' \in [Sessions -> ChildPlaces]
        /\ down' \in [Sessions -> Seq(Replies)]
        /\ reset' \subseteq Sessions
    <3>1. Answer(s, "220", {}, "smtp") \/ Answer(s, "+", {}, "pop")
      BY <1>3 DEF Accept, Welcome
    <3> QED BY <3>1, AnswerType DEF ChildPlaces
  <2>2. files' \in [Ports -> 0 .. MaxFiles]
    <3>1. MaxFiles \in Nat /\ port[s] \in Ports /\ files[port[s]] \in 0 .. MaxFiles
      BY <1>0, MailAssumption DEF MailAssumption
    <3>2. files[port[s]] + 1 \in 0 .. MaxFiles
      BY <1>3, <3>1 DEF Accept
    <3> QED BY <1>0, <1>3, <3>2 DEF Accept
  <2> QED BY <1>3, <2>1, <2>2 DEF Accept, TypeOK, clientVars
<1> QED BY <1>1, <1>2, <1>3

-----------------------------------------------------------------------------
(* Sessions.                                                               *)

LEMMA MailsGrow ==
  ASSUME TypeOK, TypeOK', IsFiniteSet(mails), IsFiniteSet(mails'),
         mails \subseteq mails', NEW u
  PROVE  /\ MailsTo(u) \subseteq MailsTo(u)'
         /\ Cardinality(MailsTo(u)) \in Nat /\ Cardinality(MailsTo(u)') \in Nat
         /\ Cardinality(MailsTo(u)) <= Cardinality(MailsTo(u)')
<1>1. MailsTo(u) \subseteq MailsTo(u)'
  BY DEF MailsTo
<1>2. IsFiniteSet(MailsTo(u)) /\ IsFiniteSet(MailsTo(u)')
  <2>1. IsFiniteSet(MailsTo(u))
    BY MailsToType
  <2>2. IsFiniteSet(MailsTo(u)')
    <3> DEFINE S == {n \in mails' : n.to = u}
               T == {m.id : m \in S}
               f == [m \in S |-> m.id]
    <3>1. f \in Surjection(S, T)
      BY DEF Surjection
    <3>2. IsFiniteSet(S)
      BY FS_Subset
    <3>3. MailsTo(u)' = T
      BY DEF MailsTo
    <3> HIDE DEF S, T, f
    <3> QED BY <3>1, <3>2, <3>3, FS_Surjection
  <2> QED BY <2>1, <2>2
<1> QED BY <1>1, <1>2, FS_Subset, FS_CardinalityType

\* What a session has come to is not disturbed by mails of other ones.
LEMMA Untouched ==
  ASSUME TypeOK, TypeOK', IsFiniteSet(mails), IsFiniteSet(mails'),
         NEW t \in Sessions, Session(t),
         /\ client'[t] = client[t] /\ port'[t] = port[t] /\ name'[t] = name[t]
         /\ right'[t] = right[t] /\ counted'[t] = counted[t] /\ listed'[t] = listed[t]
         /\ up'[t] = up[t] /\ down'[t] = down[t]
         /\ server'[t] = server[t] /\ command'[t] = command[t] /\ arg'[t] = arg[t],
         t \in reset' => t \in reset,
         mails \subseteq mails', overrun => overrun',
         \A m \in mails' : m.from = t => m \in mails
  PROVE  Session(t)'
<1> DEFINE M == MailsTo(name[t])
           N == {m.id : m \in {n \in mails' : n.to = name[t]}}
<1>1. MailsTo(name[t])' = N
  BY DEF MailsTo
<1>2. M \subseteq N /\ Cardinality(M) \in Nat /\ Cardinality(N) \in Nat
      /\ Cardinality(M) <= Cardinality(N)
  <2>1. ASSUME NEW u
        PROVE  /\ MailsTo(u) \subseteq {m.id : m \in {n \in mails' : n.to = u}}
               /\ Cardinality(MailsTo(u)) \in Nat
               /\ Cardinality({m.id : m \in {n \in mails' : n.to = u}}) \in Nat
               /\ Cardinality(MailsTo(u))
                    <= Cardinality({m.id : m \in {n \in mails' : n.to = u}})
    BY MailsGrow DEF MailsTo
  <2> QED BY <2>1
<1>3. counted[t] \in Nat
  BY DEF TypeOK
<1> HIDE DEF M, N
<1>4. \A place : Quiet(t, place) => Quiet(t, place)'
  BY DEF Quiet
<1>5. \A place, m : Asked(t, place, m) => Asked(t, place, m)'
  BY DEF Asked
<1>6. \A place, r : Replied(t, place, r) => Replied(t, place, r)'
  BY DEF Replied
<1>7. (Told(t) => Told(t)') /\ (Stored(t) => Stored(t)') /\ (Gone(t)' <=> Gone(t))
      /\ (HasSent(t)' => HasSent(t))
  BY DEF Told, Stored, Gone, HasSent
<1>8. Shown(t) => Shown(t)'
  BY <1>1, <1>2 DEF Shown, M
<1>9. Sending(t)'
  BY <1>4, <1>5, <1>6, <1>7 DEF Session, Sending
<1>10. Reading(t)'
  <2>1. CASE client[t] = "stat"
    <3>1. /\ Told(t)' /\ right'[t]
          /\ \/ Asked(t, "pop", OkTo("STAT"))'
             \/ \E ids \in SUBSET N : Replied(t, "pop", Reply("+", ids))'
      BY <1>2, <1>5, <1>6, <1>7, <2>1 DEF Session, Reading, M
    <3> QED BY <1>1, <2>1, <3>1 DEF Reading
  <2>2. CASE client[t] = "+ list"
    <3>1. /\ Told(t)' /\ right'[t]
          /\ \/ /\ Asked(t, "pop", OkTo("LIST"))'
                /\ counted'[t] <= Cardinality(N)
             \/ \E ids \in SUBSET N :
                  /\ Replied(t, "pop", Reply("+", ids))'
                  /\ counted'[t] <= Cardinality(ids)
      <4>1. /\ Told(t) /\ right[t]
            /\ \/ /\ Asked(t, "pop", OkTo("LIST"))
                  /\ counted[t] <= Cardinality(M)
               \/ \E ids \in SUBSET M :
                    /\ Replied(t, "pop", Reply("+", ids))
                    /\ counted[t] <= Cardinality(ids)
        BY <2>2 DEF Session, Reading, M
      <4>2. CASE Asked(t, "pop", OkTo("LIST")) /\ counted[t] <= Cardinality(M)
        <5>1. counted'[t] <= Cardinality(N)
          BY <1>2, <1>3, <4>2
        <5> QED BY <1>5, <1>7, <4>1, <4>2, <5>1
      <4>3. ASSUME NEW ids \in SUBSET M, Replied(t, "pop", Reply("+", ids)),
                   counted[t] <= Cardinality(ids)
            PROVE  \E x \in SUBSET N :
                     /\ Replied(t, "pop", Reply("+", x))'
                     /\ counted'[t] <= Cardinality(x)
        BY <1>2, <1>6, <4>3
      <4> QED BY <1>7, <4>1, <4>2, <4>3
    <3> QED BY <1>1, <2>2, <3>1 DEF Reading
  <2>3. CASE client[t] \notin {"stat", "+ list"}
    BY <1>4, <1>5, <1>6, <1>7, <1>8, <2>3 DEF Session, Reading
  <2> QED BY <2>1, <2>2, <2>3
<1>11. StoresOnce(t)'
  BY <1>7 DEF Session, StoresOnce
<1>12. client'[t] = "menu" => Quiet(t, "none")'
  BY <1>4 DEF Session
<1> QED BY <1>7, <1>9, <1>10, <1>11, <1>12 DEF Session

\* A client that gives up has nothing to come to.
LEMMA GaveUp ==
  ASSUME NEW s \in Sessions, client'[s] \in {"error", "killed"}, StoresOnce(s)'
  PROVE  Session(s)'
  BY DEF Session, Sending, Reading, Gone

\* The answer to a reply, which is the last one.
LastReply(s) == up[s] = <<>> /\ down[s] = <<Head(down[s])>>

Wrote(s, to, m) ==
  /\ client[s] = to /\ up[s] = <<m>> /\ down[s] = <<>>
  /\ s \notin reset /\ StoresOnce(s)

LEMMA IsLast ==
  ASSUME NEW s, NEW place, NEW r, Replied(s, place, r)
  PROVE  LastReply(s) /\ server[s] = place /\ Head(down[s]) = r
<1>1. Head(<<r>>) = r
  BY OneMessage
<1> QED BY <1>1 DEF Replied, LastReply

LEMMA Heard ==
  ASSUME NEW s \in Sessions, NEW from, NEW code, NEW to, NEW m \in Commands,
         Hear(s, from, code, to, m),
         TypeOK, Session(s), LastReply(s), ~ Gone(s),
         from = "250 body" => to = "sent" /\ m = OkTo("QUIT")
  PROVE  IF Head(down[s]).code = code THEN Wrote(s, to, m)' ELSE Session(s)'
<1>0. /\ client \in [Sessions -> ClientPlaces]
      /\ up \in [Sessions -> Seq(Commands)]
      /\ down \in [Sessions -> Seq(Replies)]
  BY DEF TypeOK
<1> DEFINE r == Head(down[s])
<1>1. up[s] = <<>> /\ down[s] = <<r>> /\ client[s] = from
  BY DEF LastReply, Hear
<1>2. UNCHANGED <<port, childVars, reset, files, mails, overrun>>
  BY DEF Hear
<1>3. Tail(down[s]) = <<>> /\ Append(up[s], m) = <<m>>
  <2> HIDE DEF r
  <2> QED BY <1>1, OneMessage
<1>4. down'[s] = <<>>
  BY <1>0, <1>3 DEF Hear
<1>5. ASSUME r.code = code PROVE client'[s] = to /\ up'[s] = <<m>>
  BY <1>0, <1>3, <1>5 DEF Hear
<1>6. ASSUME r.code # code PROVE client'[s] = "error" /\ up'[s] = <<>>
  BY <1>0, <1>1, <1>3, <1>6 DEF Hear
<1> HIDE DEF r
<1>7. s \notin reset'
  BY <1>1, <1>2 DEF Session
<1>8. StoresOnce(s)'
  <2>1. HasSent(s)' <=> HasSent(s)
    BY <1>2 DEF HasSent
  <2>2. HasSent(s) => from = "250 body"
    BY <1>1 DEF Session, StoresOnce, Gone
  <2>3. HasSent(s) => client'[s] \in {"sent", "error"}
    BY <1>5, <1>6, <2>2
  <2>4. HasSent(s) => up'[s] \in {<<>>, <<OkTo("QUIT")>>}
    BY <1>5, <1>6, <2>2
  <2>5. up'[s] = <<>> \/ \E n \in Commands : up'[s] = <<n>>
    BY <1>5, <1>6
  <2>6. server'[s] = server[s] /\ command'[s] = command[s]
    BY <1>2 DEF childVars
  <2> QED BY <2>1, <2>3, <2>4, <2>5, <2>6 DEF Session, StoresOnce
<1>9. CASE r.code = code
  BY <1>4, <1>5, <1>7, <1>8, <1>9 DEF Wrote, r
<1>10. CASE r.code # code
  BY <1>6, <1>8, <1>10, GaveUp DEF r
<1> QED BY <1>9, <1>10 DEF r

LEMMA SendSession ==
  ASSUME TypeOK, NEW s \in Sessions, Session(s), SendEmail(s)
  PROVE  Session(s)'
<1>0. name \in [Sessions -> Names] /\ client \in [Sessions -> ClientPlaces]
  BY DEF TypeOK
<1>1. /\ OkTo("MAIL") \in Commands /\ OkTo("DATA") \in Commands
      /\ OkTo("") \in Commands /\ OkTo("QUIT") \in Commands
      /\ \A u \in Users : Command("RCPT", u, TRUE) \in Commands
      /\ Bare("220").code = "220" /\ Bare("250").code = "250"
      /\ Bare("354").code = "354" /\ Bare("550").code = "550"
  BY CommandType DEF Words, Names, OkTo, Bare, Reply
<1>2. \A place, m : ~ (down[s] # <<>> /\ (Quiet(s, place) \/ Asked(s, place, m)))
  BY DEF Quiet, Asked
<1>3. CASE Hear(s, "220", "220", "250 mail", OkTo("MAIL"))
  <2>1. client[s] = "220" /\ down[s] # <<>>
    BY <1>3 DEF Hear
  <2>2. Replied(s, "smtp", Bare("220"))
    BY <1>2, <2>1 DEF Session, Sending
  <2>3. /\ client'[s] = "250 mail" /\ up'[s] = <<OkTo("MAIL")>>
        /\ down'[s] = <<>> /\ server'[s] = "smtp"
        /\ StoresOnce(s)' /\ s \notin reset'
    <3>1. LastReply(s) /\ ~ Gone(s) /\ Head(down[s]) = Bare("220") /\ server[s] = "smtp"
      BY <2>1, <2>2, IsLast DEF Gone
    <3>2. Wrote(s, "250 mail", OkTo("MAIL"))'
      BY <1>1, <1>3, <3>1, Heard
    <3>3. UNCHANGED <<port, server, arg, mails, overrun>>
      BY <1>3 DEF Hear, childVars
    <3> QED BY <3>1, <3>2, <3>3 DEF Wrote
  <2> QED BY <2>3 DEF Session, Sending, Reading, Asked, OkTo
<1>4. ASSUME NEW u \in Users,
             Hear(s, "250 mail", "250", "250 rcpt", Command("RCPT", u, TRUE)),
             name' = [name EXCEPT ![s] = u]
      PROVE  Session(s)'
  <2>1. client[s] = "250 mail" /\ down[s] # <<>>
    BY <1>4 DEF Hear
  <2>2. Replied(s, "mail", Bare("250"))
    BY <1>2, <2>1 DEF Session, Sending
  <2>3. /\ client'[s] = "250 rcpt"
        /\ up'[s] = <<Command("RCPT", u, TRUE)>>
        /\ down'[s] = <<>> /\ server'[s] = "mail"
        /\ StoresOnce(s)' /\ s \notin reset'
    <3>1. LastReply(s) /\ ~ Gone(s) /\ Head(down[s]) = Bare("250") /\ server[s] = "mail"
      BY <2>1, <2>2, IsLast DEF Gone
    <3>2. Wrote(s, "250 rcpt", Command("RCPT", u, TRUE))'
      BY <1>1, <1>4, <3>1, Heard
    <3>3. UNCHANGED <<port, server, arg, mails, overrun>>
      BY <1>4 DEF Hear, childVars
    <3> QED BY <3>1, <3>2, <3>3 DEF Wrote
  <2>4. name'[s] = u
    BY <1>0, <1>4
  <2>5. Asked(s, "mail", Command("RCPT", name[s], TRUE))'
    BY <2>3, <2>4 DEF Asked
  <2> QED BY <2>3, <2>5 DEF Session, Sending, Reading, Asked, OkTo
<1>5. CASE Hear(s, "250 rcpt", "250", "354", OkTo("DATA")) /\ name' = name
  <2>1. client[s] = "250 rcpt" /\ down[s] # <<>>
    BY <1>5 DEF Hear
  <2>2. Replied(s, "rcpt", Bare("250")) /\ Told(s)
    BY <1>2, <2>1 DEF Session, Sending
  <2>3. /\ client'[s] = "354" /\ up'[s] = <<OkTo("DATA")>>
        /\ down'[s] = <<>> /\ server'[s] = "rcpt"
        /\ StoresOnce(s)' /\ s \notin reset' /\ arg' = arg
    <3>1. LastReply(s) /\ ~ Gone(s) /\ Head(down[s]) = Bare("250") /\ server[s] = "rcpt"
      BY <2>1, <2>2, IsLast DEF Gone
    <3>2. Wrote(s, "354", OkTo("DATA"))'
      BY <1>1, <1>5, <3>1, Heard
    <3>3. UNCHANGED <<port, server, arg, mails, overrun>>
      BY <1>5 DEF Hear, childVars
    <3> QED BY <3>1, <3>2, <3>3 DEF Wrote
  <2>4. Told(s)'
    BY <1>5, <2>2, <2>3 DEF Told
  <2> QED BY <2>3, <2>4 DEF Session, Sending, Reading, Asked, OkTo
<1>6. CASE Hear(s, "354", "354", "250 body", OkTo("")) /\ name' = name
  <2>1. client[s] = "354" /\ down[s] # <<>>
    BY <1>6 DEF Hear
  <2>2. Replied(s, "data", Bare("354")) /\ Told(s)
    BY <1>2, <2>1 DEF Session, Sending
  <2>3. /\ client'[s] = "250 body" /\ up'[s] = <<OkTo("")>>
        /\ down'[s] = <<>> /\ server'[s] = "data"
        /\ StoresOnce(s)' /\ s \notin reset' /\ arg' = arg
    <3>1. LastReply(s) /\ ~ Gone(s) /\ Head(down[s]) = Bare("354") /\ server[s] = "data"
      BY <2>1, <2>2, IsLast DEF Gone
    <3>2. Wrote(s, "250 body", OkTo(""))'
      BY <1>1, <1>6, <3>1, Heard
    <3>3. UNCHANGED <<port, server, arg, mails, overrun>>
      BY <1>6 DEF Hear, childVars
    <3> QED BY <3>1, <3>2, <3>3 DEF Wrote
  <2>4. Told(s)'
    BY <1>6, <2>2, <2>3 DEF Told
  <2> QED BY <2>3, <2>4 DEF Session, Sending, Reading, Asked, OkTo
<1>7. CASE Hear(s, "250 body", "250", "sent", OkTo("QUIT")) /\ name' = name
  <2>1. client[s] = "250 body" /\ down[s] # <<>>
    BY <1>7 DEF Hear
  <2>2. \/ Replied(s, "smtp", Bare("250")) /\ Stored(s)
        \/ Replied(s, "ended", Bare("550"))
    BY <1>2, <2>1 DEF Session, Sending
  <2>3. CASE Replied(s, "smtp", Bare("250")) /\ Stored(s)
    <3>1. /\ client'[s] = "sent" /\ StoresOnce(s)' /\ s \notin reset'
          /\ mails' = mails /\ overrun' = overrun
      <4>1. LastReply(s) /\ ~ Gone(s) /\ Head(down[s]) = Bare("250") /\ server[s] = "smtp"
        BY <2>1, <2>3, IsLast DEF Gone
      <4>2. Wrote(s, "sent", OkTo("QUIT"))'
        BY <1>1, <1>7, <4>1, Heard
      <4>3. UNCHANGED <<port, server, arg, mails, overrun>>
        BY <1>7 DEF Hear, childVars
      <4> QED BY <4>1, <4>2, <4>3 DEF Wrote
    <3>2. Stored(s)'
      BY <1>7, <2>3, <3>1 DEF Stored
    <3> QED BY <3>1, <3>2 DEF Session, Sending, Reading
  <2>4. CASE Replied(s, "ended", Bare("550"))
    <3>1. LastReply(s) /\ ~ Gone(s) /\ Head(down[s]) = Bare("550")
      BY <2>1, <2>4, IsLast DEF Gone
    <3> QED BY <1>1, <1>7, <3>1, Heard
  <2> QED BY <2>2, <2>3, <2>4
<1> QED BY <1>3, <1>4, <1>5, <1>6, <1>7 DEF SendEmail, OkTo

LEMMA ReadSession ==
  ASSUME TypeOK, IsFiniteSet(mails), NEW s \in Sessions, Session(s),
         Login(s) \/ ReadCount(s) \/ ReadList(s) \/ ReadMail(s)
  PROVE  Session(s)'
<1>0. /\ name \in [Sessions -> Names] /\ client \in [Sessions -> ClientPlaces]
      /\ right \in [Sessions -> BOOLEAN] /\ counted \in [Sessions -> Nat]
      /\ listed \in [Sessions -> SUBSET Ids]
  BY DEF TypeOK
<1>1. /\ OkTo("STAT") \in Commands /\ OkTo("LIST") \in Commands
      /\ OkTo("RETR") \in Commands /\ OkTo("QUIT") \in Commands
      /\ \A u \in Users : Command("USER", u, TRUE) \in Commands
      /\ \A b \in BOOLEAN : Command("PASS", Nobody, b) \in Commands
      /\ Bare("+").code = "+"
      /\ \A ids : Reply("+", ids).code = "+" /\ Reply("+", ids).ids = ids
  BY CommandType DEF Words, Names, OkTo, Bare, Reply
<1>2. \A place, m : ~ (down[s] # <<>> /\ (Quiet(s, place) \/ Asked(s, place, m)))
  BY DEF Quiet, Asked
<1>3. ASSUME NEW u \in Users,
             Hear(s, "+", "+", "+ user", Command("USER", u, TRUE)),
             name' = [name EXCEPT ![s] = u]
      PROVE  Session(s)'
  <2>1. client[s] = "+" /\ down[s] # <<>>
    BY <1>3 DEF Hear
  <2>2. Replied(s, "pop", Bare("+"))
    BY <1>2, <2>1 DEF Session, Reading
  <2>3. /\ client'[s] = "+ user"
        /\ up'[s] = <<Command("USER", u, TRUE)>>
        /\ down'[s] = <<>> /\ server'[s] = "pop"
        /\ StoresOnce(s)' /\ s \notin reset'
    <3>1. LastReply(s) /\ ~ Gone(s) /\ Head(down[s]) = Bare("+") /\ server[s] = "pop"
      BY <2>1, <2>2, IsLast DEF Gone
    <3>2. Wrote(s, "+ user", Command("USER", u, TRUE))'
      BY <1>1, <1>3, <3>1, Heard
    <3>3. UNCHANGED <<port, server, arg, mails, overrun>>
      BY <1>3 DEF Hear, childVars
    <3> QED BY <3>1, <3>2, <3>3 DEF Wrote
  <2>4. name'[s] = u
    BY <1>0, <1>3
  <2>5. Asked(s, "pop", Command("USER", name[s], TRUE))'
    BY <2>3, <2>4 DEF Asked
  <2> QED BY <2>3, <2>5 DEF Session, Sending, Reading, Asked, OkTo
<1>4. ASSUME NEW b \in BOOLEAN,
             Hear(s, "+ user", "+", "+ pass", Command("PASS", Nobody, b)),
             right' = [right EXCEPT ![s] = b], name' = name
      PROVE  Session(s)'
  <2>1. client[s] = "+ user" /\ down[s] # <<>>
    BY <1>4 DEF Hear
  <2>2. Replied(s, "pass", Bare("+")) /\ Told(s)
    BY <1>2, <2>1 DEF Session, Reading
  <2>3. /\ client'[s] = "+ pass"
        /\ up'[s] = <<Command("PASS", Nobody, b)>>
        /\ down'[s] = <<>> /\ server'[s] = "pass"
        /\ StoresOnce(s)' /\ s \notin reset' /\ arg' = arg
    <3>1. LastReply(s) /\ ~ Gone(s) /\ Head(down[s]) = Bare("+") /\ server[s] = "pass"
      BY <2>1, <2>2, IsLast DEF Gone
    <3>2. Wrote(s, "+ pass", Command("PASS", Nobody, b))'
      BY <1>1, <1>4, <3>1, Heard
    <3>3. UNCHANGED <<port, server, arg, mails, overrun>>
      BY <1>4 DEF Hear, childVars
    <3> QED BY <3>1, <3>2, <3>3 DEF Wrote
  <2>4. right'[s] = b
    BY <1>0, <1>4
  <2>5. Asked(s, "pass", Command("PASS", Nobody, right[s]))'
    BY <2>3, <2>4 DEF Asked
  <2>6. Told(s)'
    BY <1>4, <2>2, <2>3 DEF Told
  <2> QED BY <2>3, <2>5, <2>6 DEF Session, Sending, Reading, Asked, OkTo
<1>5. CASE /\ Hear(s, "+ pass", "+", "stat", OkTo("STAT"))
           /\ UNCHANGED <<name, right>>
  <2>1. client[s] = "+ pass" /\ down[s] # <<>>
    BY <1>5 DEF Hear
  <2>2. Replied(s, "pop", Bare("+")) /\ right[s] /\ Told(s)
    BY <1>2, <2>1 DEF Session, Reading
  <2>3. /\ client'[s] = "stat" /\ up'[s] = <<OkTo("STAT")>>
        /\ down'[s] = <<>> /\ server'[s] = "pop"
        /\ StoresOnce(s)' /\ s \notin reset' /\ arg' = arg
    <3>1. LastReply(s) /\ ~ Gone(s) /\ Head(down[s]) = Bare("+") /\ server[s] = "pop"
      BY <2>1, <2>2, IsLast DEF Gone
    <3>2. Wrote(s, "stat", OkTo("STAT"))'
      BY <1>1, <1>5, <3>1, Heard
    <3>3. UNCHANGED <<port, server, arg, mails, overrun>>
      BY <1>5 DEF Hear, childVars
    <3> QED BY <3>1, <3>2, <3>3 DEF Wrote
  <2>4. Told(s)' /\ right'[s]
    BY <1>5, <2>2, <2>3 DEF Told
  <2> QED BY <2>3, <2>4 DEF Session, Sending, Reading, Asked, OkTo
<1>6. CASE ReadCount(s)
  <2>0. /\ Hear(s, "stat", "+", "+ list", OkTo("LIST"))
        /\ counted' = [counted EXCEPT ![s] = Cardinality(Head(down[s]).ids)]
        /\ UNCHANGED <<name, right>>
    BY <1>6 DEF ReadCount, OkTo
  <2>1. client[s] = "stat" /\ down[s] # <<>>
    BY <2>0 DEF Hear
  <2>2. /\ Told(s) /\ right[s]
        /\ \E ids \in SUBSET MailsTo(name[s]) : Replied(s, "pop", Reply("+", ids))
    BY <1>2, <2>1 DEF Session, Reading
  <2>3. PICK ids \in SUBSET MailsTo(name[s]) : Replied(s, "pop", Reply("+", ids))
    BY <2>2
  <2>4. /\ client'[s] = "+ list" /\ up'[s] = <<OkTo("LIST")>>
        /\ down'[s] = <<>> /\ server'[s] = "pop"
        /\ StoresOnce(s)' /\ s \notin reset' /\ arg' = arg /\ mails' = mails
        /\ Head(down[s]) = Reply("+", ids)
    <3>1. LastReply(s) /\ ~ Gone(s) /\ Head(down[s]) = Reply("+", ids) /\ server[s] = "pop"
      BY <2>1, <2>3, IsLast DEF Gone
    <3>2. Wrote(s, "+ list", OkTo("LIST"))'
      BY <1>1, <2>0, <3>1, Heard
    <3>3. UNCHANGED <<port, server, arg, mails, overrun>>
      BY <2>0 DEF Hear, childVars
    <3> QED BY <3>1, <3>2, <3>3 DEF Wrote
  <2>5. Told(s)' /\ right'[s]
    BY <2>0, <2>2, <2>4 DEF Told
  <2>6. counted'[s] = Cardinality(ids)
    BY <1>0, <1>1, <2>0, <2>4
  <2>7. Cardinality(ids) <= Cardinality(MailsTo(name[s]))
    BY MailsToType, FS_Subset
  <2>8. MailsTo(name[s])' = MailsTo(name[s])
    BY <2>0, <2>4 DEF MailsTo
  <2>9. counted'[s] <= Cardinality(MailsTo(name[s]))'
    BY <2>6, <2>7, <2>8
  <2> QED BY <2>4, <2>5, <2>9 DEF Session, Sending, Reading, Asked, OkTo
<1>7. CASE ReadList(s)
  <2>0. /\ Hear(s, "+ list", "+", "+ retr", OkTo("RETR"))
        /\ listed' = [listed EXCEPT ![s] = Head(down[s]).ids]
        /\ UNCHANGED <<name, right, counted>>
    BY <1>7 DEF ReadList, OkTo
  <2>1. client[s] = "+ list" /\ down[s] # <<>>
    BY <2>0 DEF Hear
  <2>2. /\ right[s]
        /\ \E ids \in SUBSET MailsTo(name[s]) :
             Replied(s, "pop", Reply("+", ids)) /\ counted[s] <= Cardinality(ids)
    BY <1>2, <2>1 DEF Session, Reading
  <2>3. PICK ids \in SUBSET MailsTo(name[s]) :
             Replied(s, "pop", Reply("+", ids)) /\ counted[s] <= Cardinality(ids)
    BY <2>2
  <2>4. /\ client'[s] = "+ retr" /\ up'[s] = <<OkTo("RETR")>>
        /\ down'[s] = <<>> /\ server'[s] = "pop"
        /\ StoresOnce(s)' /\ s \notin reset' /\ mails' = mails
        /\ Head(down[s]) = Reply("+", ids)
    <3>1. LastReply(s) /\ ~ Gone(s) /\ Head(down[s]) = Reply("+", ids) /\ server[s] = "pop"
      BY <2>1, <2>3, IsLast DEF Gone
    <3>2. Wrote(s, "+ retr", OkTo("RETR"))'
      BY <1>1, <2>0, <3>1, Heard
    <3>3. UNCHANGED <<port, server, arg, mails, overrun>>
      BY <2>0 DEF Hear, childVars
    <3> QED BY <3>1, <3>2, <3>3 DEF Wrote
  <2>5. listed'[s] = ids
    BY <1>0, <1>1, <2>0, <2>4
  <2>6. MailsTo(name[s])' = MailsTo(name[s])
    BY <2>0, <2>4 DEF MailsTo
  <2>7. Shown(s)'
    BY <2>0, <2>2, <2>3, <2>5, <2>6 DEF Shown
  <2> QED BY <2>4, <2>7 DEF Session, Sending, Reading, Asked, OkTo
<1>8. CASE ReadMail(s)
  <2>0. /\ \/ Hear(s, "+ retr", "+", "+ retr", OkTo("RETR"))
           \/ Hear(s, "+ retr", "+", "done", OkTo("QUIT"))
        /\ UNCHANGED <<name, right, counted, listed>>
    BY <1>8 DEF ReadMail, OkTo
  <2>1. client[s] = "+ retr" /\ down[s] # <<>>
    BY <2>0 DEF Hear
  <2>2. Replied(s, "pop", Bare("+")) /\ Shown(s)
    BY <1>2, <2>1 DEF Session, Reading
  <2>3. /\ \/ /\ client'[s] = "+ retr" /\ up'[s] = <<OkTo("RETR")>>
              /\ down'[s] = <<>> /\ server'[s] = "pop"
           \/ /\ client'[s] = "done" /\ up'[s] = <<OkTo("QUIT")>>
              /\ down'[s] = <<>> /\ server'[s] = "pop"
        /\ StoresOnce(s)' /\ s \notin reset' /\ mails' = mails
    <3>1. LastReply(s) /\ ~ Gone(s) /\ Head(down[s]) = Bare("+") /\ server[s] = "pop"
      BY <2>1, <2>2, IsLast DEF Gone
    <3>2. Wrote(s, "+ retr", OkTo("RETR"))' \/ Wrote(s, "done", OkTo("QUIT"))'
      BY <1>1, <2>0, <3>1, Heard
    <3>3. UNCHANGED <<port, server, arg, mails, overrun>>
      BY <2>0 DEF Hear, childVars
    <3> QED BY <3>1, <3>2, <3>3 DEF Wrote
  <2>4. MailsTo(name[s])' = MailsTo(name[s])
    BY <2>0, <2>3 DEF MailsTo
  <2>5. Shown(s)'
    BY <2>0, <2>2, <2>4 DEF Shown
  <2> QED BY <2>3, <2>5 DEF Session, Sending, Reading, Asked, OkTo
<1> QED BY <1>3, <1>4, <1>5, <1>6, <1>7, <1>8 DEF Login, OkTo

-----------------------------------------------------------------------------
(* The child.                                                              *)

\* The child of a client that waits receives what the client has asked.
LEMMA GetsAsked ==
  ASSUME NEW s \in Sessions, NEW p, NEW q, NEW w, NEW m,
         ~ Gone(s), Gets(s, q, m), Asked(s, p, w)
  PROVE  q = p /\ m = w
<1>1. Head(<<w>>) = w
  BY OneMessage
<1> QED BY <1>1 DEF Gets, Asked

\* And answers it.
LEMMA Answered ==
  ASSUME TypeOK, NEW s \in Sessions, NEW p, NEW q, NEW w, NEW m, NEW code, NEW ids, NEW next,
         ~ Gone(s), s \notin reset,
         Asked(s, p, w), Gets(s, q, m), Answer(s, code, ids, next)
  PROVE  Replied(s, next, Reply(code, ids))'
<1>0. /\ up \in [Sessions -> Seq(Commands)]
      /\ down \in [Sessions -> Seq(Replies)]
      /\ server \in [Sessions -> ChildPlaces]
  BY DEF TypeOK
<1>1. up[s] = <<w>> /\ down[s] = <<>>
  BY DEF Asked
<1>2. up'[s] = <<>>
  <2>1. up[s] # <<>> /\ Tail(up[s]) = <<>>
    BY <1>1, OneMessage
  <2> QED BY <1>0, <2>1 DEF Gets
<1>3. down'[s] = <<Reply(code, ids)>>
  <2>1. Append(down[s], Reply(code, ids)) = <<Reply(code, ids)>>
    BY <1>1, OneMessage
  <2> QED BY <1>0, <2>1 DEF Answer
<1>4. server'[s] = next
  BY <1>0 DEF Answer
<1> QED BY <1>2, <1>3, <1>4 DEF Replied

\* Where client and child are when there is something to receive.
LEMMA WhoAsked ==
  ASSUME TypeOK, NEW s \in Sessions, Session(s), ~ Gone(s), up[s] # <<>>
  PROVE  \/ client[s] = "250 mail" /\ Asked(s, "smtp", OkTo("MAIL"))
         \/ client[s] = "250 rcpt" /\ Asked(s, "mail", Command("RCPT", name[s], TRUE))
         \/ client[s] = "354" /\ Told(s) /\ Asked(s, "rcpt", OkTo("DATA"))
         \/ client[s] = "250 body" /\ Told(s) /\ Asked(s, "data", OkTo(""))
         \/ client[s] = "+ user" /\ Asked(s, "pop", Command("USER", name[s], TRUE))
         \/ /\ client[s] = "+ pass" /\ Told(s)
            /\ Asked(s, "pass", Command("PASS", Nobody, right[s]))
         \/ /\ client[s] = "stat" /\ Told(s) /\ right[s]
            /\ Asked(s, "pop", OkTo("STAT"))
         \/ /\ client[s] = "+ list" /\ Told(s) /\ right[s]
            /\ Asked(s, "pop", OkTo("LIST"))
            /\ counted[s] <= Cardinality(MailsTo(name[s]))
         \/ client[s] = "+ retr" /\ Shown(s) /\ Asked(s, "pop", OkTo("RETR"))
         \/ client[s] = "done" /\ Shown(s) /\ Asked(s, "pop", OkTo("QUIT"))
<1>1. client[s] \in ClientPlaces
  BY DEF TypeOK
<1>2. \A place, r : ~ Quiet(s, place) /\ ~ Replied(s, place, r)
  BY DEF Quiet, Replied
<1> QED BY <1>1, <1>2 DEF Session, Sending, Reading, Gone, ClientPlaces

LEMMA GetsSomething ==
  ASSUME NEW s \in Sessions, NEW p, NEW m, ~ Gone(s), Gets(s, p, m)
  PROVE  up[s] # <<>> /\ server[s] = p
  BY DEF Gets

\* A child has one command to receive, and stores one mail.
LEMMA ChildStoresOnce ==
  ASSUME TypeOK, NEW s \in Sessions, Session(s), Child(s)
  PROVE  StoresOnce(s)'
<1>0. /\ up \in [Sessions -> Seq(Commands)] /\ command \in [Sessions -> Words]
      /\ server \in [Sessions -> ChildPlaces]
  BY DEF TypeOK
<1>1. client' = client
  BY DEF Child, Smtp, Rcpt, Data, Store, Part, Pop, Pass, Gets, clientVars
<1>2. up'[s] = <<>> \/ up'[s] = up[s]
  <2>1. \/ up' = up
        \/ up[s] # <<>> /\ up' = [up EXCEPT ![s] = Tail(@)]
    BY DEF Child, Smtp, Rcpt, Data, Store, Part, Pop, Pass, Gets
  <2>2. up[s] # <<>> => Tail(up[s]) = <<>>
    BY OneMessage DEF Session, StoresOnce
  <2> QED BY <1>0, <2>1, <2>2
<1>3. up'[s] = <<>> \/ \E m \in Commands : up'[s] = <<m>>
  BY <1>2 DEF Session, StoresOnce
<1>4. CASE Store(s)
  <2>1. server[s] = "data" /\ command' = command /\ up[s] # <<>>
    BY <1>4 DEF Store
  <2>2. command'[s] = "DATA" /\ ~ HasSent(s)
    BY <2>1 DEF Session, StoresOnce
  <2>3. up'[s] = <<>>
    <3>1. Tail(up[s]) = <<>>
      BY <2>1, OneMessage DEF Session, StoresOnce
    <3> QED BY <1>0, <1>4, <3>1 DEF Store
  <2>4. server'[s] \in {"smtp", "ended"}
    BY <1>0, <1>4 DEF Store, Answer
  <2>5. client[s] \in {"250 body", "sent", "error", "killed"}
    <3>1. CASE Gone(s)
      BY <3>1 DEF Gone
    <3>2. CASE ~ Gone(s)
      BY <2>1, <3>2, WhoAsked DEF Asked
    <3> QED BY <3>1, <3>2
  <2> QED BY <1>1, <2>2, <2>3, <2>4, <2>5 DEF StoresOnce
<1>5. CASE Smtp(s) \/ Rcpt(s) \/ Data(s) \/ Part(s) \/ Pop(s) \/ Pass(s)
  <2>1. mails' = mails
    BY <1>5 DEF Smtp, Rcpt, Data, Part, Pop, Pass
  <2>2. HasSent(s)' <=> HasSent(s)
    BY <2>1 DEF HasSent
  <2>3. HasSent(s) => server'[s] = "ended"
    <3>1. SUFFICES ASSUME HasSent(s) PROVE server'[s] = "ended"
      OBVIOUS
    <3>2. /\ server[s] = "smtp" /\ command[s] = "DATA"
          /\ up[s] \in {<<>>, <<OkTo("QUIT")>>}
      BY <1>5, <3>1 DEF Smtp, Rcpt, Data, Part, Pop, Pass, Gets, Session, StoresOnce
    <3>3. PICK m \in Incoming(s) :
            /\ Gets(s, "smtp", m)
            /\ \/ m.type = "MAIL"
               \/ Answer(s, "221", {}, "ended")
      BY <1>5, <3>2 DEF Smtp, Rcpt, Data, Part, Pop, Pass, Gets
    <3>4. m.type # "MAIL"
      <4>1. CASE up[s] = <<>>
        BY <3>2, <3>3, <4>1 DEF Gets, Command
      <4>2. CASE up[s] = <<OkTo("QUIT")>>
        <5>1. Head(up[s]) = OkTo("QUIT") /\ up[s] # <<>>
          BY <4>2, OneMessage
        <5>2. m = OkTo("QUIT")
          BY <3>3, <5>1 DEF Gets
        <5> QED BY <5>2 DEF OkTo, Command
      <4> QED BY <3>2, <4>1, <4>2
    <3> QED BY <1>0, <3>3, <3>4 DEF Answer
  <2>4. server'[s] = "data" => command'[s] = "DATA"
    <3>1. CASE Data(s)
      BY <1>0, <3>1 DEF Data, Answer
    <3>2. CASE Smtp(s) \/ Rcpt(s) \/ Part(s) \/ Pop(s) \/ Pass(s)
      <4>1. server'[s] # "data"
        BY <1>0, <3>2 DEF Smtp, Rcpt, Part, Pop, Pass, Answer
      <4> QED BY <4>1
    <3> QED BY <1>5, <3>1, <3>2
  <2>5. HasSent(s) => client[s] \in {"250 body", "sent", "error", "killed"}
    BY DEF Session, StoresOnce
  <2> QED BY <1>1, <1>3, <2>2, <2>3, <2>4, <2>5 DEF StoresOnce
<1> QED BY <1>4, <1>5 DEF Child

\* A client that is gone comes to nothing more.
LEMMA StaysGone ==
  ASSUME NEW s \in Sessions, Session(s), Gone(s), StoresOnce(s)',
         client' = client, name' = name, mails \subseteq mails', overrun => overrun'
  PROVE  Session(s)'
<1>1. client[s] \in {"error", "sent", "killed"} /\ Gone(s)'
  BY DEF Gone
<1>2. client'[s] = "sent" => Stored(s)'
  BY DEF Session, Sending, Stored
<1> QED BY <1>1, <1>2 DEF Session, Sending, Reading

LEMMA TalkSession ==
  ASSUME TypeOK, NEW s \in Sessions, Session(s),
         Smtp(s) \/ Rcpt(s) \/ Data(s) \/ Part(s)
  PROVE  Session(s)'
<1>0. arg \in [Sessions -> Names]
  BY DEF TypeOK
<1>1. /\ client' = client /\ name' = name /\ mails' = mails /\ overrun' = overrun
      /\ StoresOnce(s)'
  BY ChildStoresOnce DEF Child, Smtp, Rcpt, Data, Part, Gets, clientVars
<1>2. CASE Gone(s)
  BY <1>1, <1>2, StaysGone
<1>3. CASE ~ Gone(s)
  <2>1. s \notin reset /\ ~ Gone(s)'
    BY <1>1, <1>3 DEF Session, Gone
  <2>2. \A code, ids, next : Answer(s, code, ids, next) => s \notin reset'
    BY <1>3, <2>1 DEF Answer
  <2>3. CASE Smtp(s)
    <3>1. PICK m \in Incoming(s) :
            /\ Gets(s, "smtp", m)
            /\ \/ m.type = "MAIL" /\ Answer(s, "250", {}, "mail")
               \/ m.type = "QUIT" /\ Answer(s, "221", {}, "ended")
      BY <2>3 DEF Smtp
    <3>2. client[s] = "250 mail" /\ Asked(s, "smtp", OkTo("MAIL"))
      <4>1. up[s] # <<>> /\ server[s] = "smtp"
        BY <1>3, <3>1, GetsSomething
      <4> QED BY <1>3, <4>1, WhoAsked DEF Asked
    <3>3. m = OkTo("MAIL")
      BY <1>3, <3>1, <3>2, GetsAsked
    <3>4. Answer(s, "250", {}, "mail")
      BY <3>1, <3>3 DEF OkTo, Command
    <3>5. Replied(s, "mail", Bare("250"))'
      BY <1>3, <2>1, <3>1, <3>2, <3>4, Answered DEF Bare
    <3> QED BY <1>1, <2>2, <3>2, <3>4, <3>5 DEF Session, Sending, Reading
  <2>4. CASE Rcpt(s)
    <3>1. PICK m \in Incoming(s) :
            /\ Gets(s, "mail", m)
            /\ IF m.type = "RCPT" THEN Answer(s, "250", {}, "rcpt")
                                  ELSE Answer(s, "550", {}, "ended")
            /\ arg' = [arg EXCEPT ![s] = m.user]
      BY <2>4 DEF Rcpt
    <3>2. client[s] = "250 rcpt" /\ Asked(s, "mail", Command("RCPT", name[s], TRUE))
      <4>1. up[s] # <<>> /\ server[s] = "mail"
        BY <1>3, <3>1, GetsSomething
      <4> QED BY <1>3, <4>1, WhoAsked DEF Asked
    <3>3. m = Command("RCPT", name[s], TRUE)
      BY <1>3, <3>1, <3>2, GetsAsked
    <3>4. Answer(s, "250", {}, "rcpt") /\ m.user = name[s]
      BY <3>1, <3>3 DEF Command
    <3>5. Replied(s, "rcpt", Bare("250"))'
      BY <1>3, <2>1, <3>1, <3>2, <3>4, Answered DEF Bare
    <3>6. Told(s)'
      BY <1>0, <1>1, <3>1, <3>4 DEF Told
    <3> QED BY <1>1, <2>2, <3>2, <3>4, <3>5, <3>6 DEF Session, Sending, Reading
  <2>5. CASE Data(s)
    <3>1. PICK m \in Incoming(s) :
            /\ Gets(s, "rcpt", m)
            /\ IF m.type = "DATA" THEN Answer(s, "354", {}, "data")
                                  ELSE Answer(s, "550", {}, "ended")
            /\ arg' = arg
      BY <2>5 DEF Data
    <3>2. client[s] = "354" /\ Told(s) /\ Asked(s, "rcpt", OkTo("DATA"))
      <4>1. up[s] # <<>> /\ server[s] = "rcpt"
        BY <1>3, <3>1, GetsSomething
      <4> QED BY <1>3, <4>1, WhoAsked DEF Asked
    <3>3. m = OkTo("DATA")
      BY <1>3, <3>1, <3>2, GetsAsked
    <3>4. Answer(s, "354", {}, "data")
      BY <3>1, <3>3 DEF OkTo, Command
    <3>5. Replied(s, "data", Bare("354"))'
      BY <1>3, <2>1, <3>1, <3>2, <3>4, Answered DEF Bare
    <3>6. Told(s)'
      BY <1>1, <3>1, <3>2 DEF Told
    <3> QED BY <1>1, <2>2, <3>2, <3>4, <3>5, <3>6 DEF Session, Sending, Reading
  <2>6. CASE Part(s)
    <3>1. PICK m \in Incoming(s) : Gets(s, "data", m) /\ Answer(s, "550", {}, "ended")
      BY <2>6 DEF Part
    <3>2. client[s] = "250 body" /\ Asked(s, "data", OkTo(""))
      <4>1. up[s] # <<>> /\ server[s] = "data"
        BY <1>3, <3>1, GetsSomething
      <4> QED BY <1>3, <4>1, WhoAsked DEF Asked
    <3>3. Replied(s, "ended", Bare("550"))'
      BY <1>3, <2>1, <3>1, <3>2, Answered DEF Bare
    <3> QED BY <1>1, <2>2, <3>1, <3>2, <3>3 DEF Session, Sending, Reading
  <2> QED BY <2>3, <2>4, <2>5, <2>6
<1> QED BY <1>2, <1>3

LEMMA StoreSession ==
  ASSUME TypeOK, NEW s \in Sessions, Session(s), Store(s)
  PROVE  Session(s)'
<1>0. /\ up \in [Sessions -> Seq(Commands)] /\ down \in [Sessions -> Seq(Replies)]
      /\ server \in [Sessions -> ChildPlaces] /\ overrun \in BOOLEAN
  BY DEF TypeOK
<1>1. /\ client' = client /\ name' = name /\ arg' = arg
      /\ mails \subseteq mails'
      /\ overrun => overrun'
  BY <1>0 DEF Store, clientVars
<1>2. StoresOnce(s)'
  BY ChildStoresOnce DEF Child
<1>3. CASE Gone(s)
  BY <1>1, <1>2, <1>3, StaysGone
<1>4. CASE ~ Gone(s)
  <2>1. client[s] = "250 body" /\ Told(s) /\ Asked(s, "data", OkTo(""))
    <3>1. up[s] # <<>> /\ server[s] = "data"
      BY DEF Store
    <3> QED BY <1>4, <3>1, WhoAsked DEF Asked
  <2>2. up'[s] = <<>> /\ down[s] = <<>>
    <3>1. Tail(up[s]) = <<>>
      BY <2>1, OneMessage DEF Asked
    <3> QED BY <1>0, <2>1, <3>1 DEF Store, Asked
  <2>3. s \notin reset /\ s \notin reset'
    BY <1>4 DEF Session, Store, Answer
  <2>4. CASE Answer(s, "250", {}, "smtp")
    <3>1. Replied(s, "smtp", Bare("250"))'
      <4>1. Append(down[s], Bare("250")) = <<Bare("250")>>
        BY <2>2, OneMessage
      <4> QED BY <1>0, <1>4, <2>2, <2>3, <2>4, <4>1 DEF Answer, Replied, Bare
    <3>2. Stored(s)'
      <4>1. overrun' \/ mails' = mails \cup {NewMail(s, arg[s])}
        BY <1>0, <2>4 DEF Store, Answer, ChildPlaces
      <4>2. NewMail(s, arg[s]).from = s /\ NewMail(s, arg[s]).to = name'[s]
        BY <1>1, <2>1 DEF NewMail, Told
      <4> QED BY <4>1, <4>2 DEF Stored
    <3> QED BY <1>1, <1>2, <2>1, <2>3, <3>1, <3>2 DEF Session, Sending, Reading
  <2>5. CASE server' = [server EXCEPT ![s] = "ended"] /\ UNCHANGED down
    <3>1. Quiet(s, "ended")'
      BY <1>0, <2>2, <2>5 DEF Quiet
    <3> QED BY <1>1, <1>2, <2>1, <2>3, <3>1 DEF Session, Sending, Reading
  <2> QED BY <2>4, <2>5 DEF Store
<1> QED BY <1>3, <1>4

LEMMA PopSession ==
  ASSUME TypeOK, IsFiniteSet(mails), NEW s \in Sessions, Session(s), Pop(s)
  PROVE  Session(s)'
<1>0. arg \in [Sessions -> Names]
  BY DEF TypeOK
<1>1. /\ client' = client /\ name' = name /\ right' = right /\ counted' = counted
      /\ listed' = listed /\ mails' = mails /\ overrun' = overrun
      /\ StoresOnce(s)'
  BY ChildStoresOnce DEF Child, Pop, Gets, clientVars
<1>2. CASE Gone(s)
  BY <1>1, <1>2, StaysGone
<1>3. CASE ~ Gone(s)
  <2>1. PICK m \in Incoming(s) :
          /\ Gets(s, "pop", m)
          /\ CASE m.type = "USER" -> Answer(s, "+", {}, "pass")
               [] m.type \in {"LIST", "STAT"} -> Answer(s, "+", MailsTo(arg[s]), "pop")
               [] m.type = "RETR" -> Answer(s, "+", {}, "pop")
               [] m.type = "QUIT" -> Answer(s, "+", {}, "ended")
               [] OTHER -> Answer(s, "-", {}, "pop")
          /\ arg' = [arg EXCEPT ![s] = IF m.type \in {"USER", "RETR"} THEN m.user ELSE @]
    BY DEF Pop
  <2>2. s \notin reset
    BY <1>3 DEF Session
  <2>3. \A code, ids, next : Answer(s, code, ids, next) => s \notin reset'
    BY <1>3, <2>2 DEF Answer
  <2>4. /\ MailsTo(name[s])' = MailsTo(name[s])
        /\ Shown(s) => Shown(s)'
    BY <1>1 DEF MailsTo, Shown
  <2>5. \/ client[s] = "+ user" /\ Asked(s, "pop", Command("USER", name[s], TRUE))
        \/ client[s] = "stat" /\ Told(s) /\ right[s] /\ Asked(s, "pop", OkTo("STAT"))
        \/ /\ client[s] = "+ list" /\ Told(s) /\ right[s] /\ Asked(s, "pop", OkTo("LIST"))
           /\ counted[s] <= Cardinality(MailsTo(name[s]))
        \/ client[s] = "+ retr" /\ Shown(s) /\ Asked(s, "pop", OkTo("RETR"))
        \/ client[s] = "done" /\ Shown(s) /\ Asked(s, "pop", OkTo("QUIT"))
    <3>1. up[s] # <<>> /\ server[s] = "pop"
      BY <1>3, <2>1, GetsSomething
    <3> QED BY <1>3, <3>1, WhoAsked DEF Asked
  <2>6. CASE client[s] = "+ user" /\ Asked(s, "pop", Command("USER", name[s], TRUE))
    <3>1. m = Command("USER", name[s], TRUE)
      BY <1>3, <2>1, <2>6, GetsAsked
    <3>2. Answer(s, "+", {}, "pass") /\ arg'[s] = name[s]
      BY <1>0, <2>1, <3>1 DEF Command
    <3>3. Replied(s, "pass", Bare("+"))'
      BY <1>3, <2>1, <2>2, <2>6, <3>2, Answered DEF Bare
    <3>4. Told(s)'
      BY <1>1, <3>2 DEF Told
    <3> QED BY <1>1, <2>3, <2>6, <3>2, <3>3, <3>4 DEF Session, Sending, Reading
  <2>7. CASE /\ client[s] = "stat" /\ Told(s) /\ right[s]
             /\ Asked(s, "pop", OkTo("STAT"))
    <3>1. m = OkTo("STAT")
      BY <1>3, <2>1, <2>7, GetsAsked
    <3>2. Answer(s, "+", MailsTo(name[s]), "pop") /\ arg'[s] = arg[s]
      BY <1>0, <2>1, <2>7, <3>1 DEF OkTo, Command, Told
    <3>3. PICK ids : ids = MailsTo(name[s])
      OBVIOUS
    <3>4. Replied(s, "pop", Reply("+", ids))'
      BY <1>3, <2>1, <2>2, <2>7, <3>2, <3>3, Answered
    <3>5. \E x \in SUBSET MailsTo(name[s])' : Replied(s, "pop", Reply("+", x))'
      BY <2>4, <3>3, <3>4
    <3>6. Told(s)' /\ right'[s]
      BY <1>1, <2>7, <3>2 DEF Told
    <3> QED BY <1>1, <2>3, <2>7, <3>2, <3>5, <3>6 DEF Session, Sending, Reading
  <2>8. CASE /\ client[s] = "+ list" /\ Told(s) /\ right[s]
             /\ Asked(s, "pop", OkTo("LIST"))
             /\ counted[s] <= Cardinality(MailsTo(name[s]))
    <3>1. m = OkTo("LIST")
      BY <1>3, <2>1, <2>8, GetsAsked
    <3>2. Answer(s, "+", MailsTo(name[s]), "pop") /\ arg'[s] = arg[s]
      BY <1>0, <2>1, <2>8, <3>1 DEF OkTo, Command, Told
    <3>3. PICK ids : ids = MailsTo(name[s])
      OBVIOUS
    <3>4. Replied(s, "pop", Reply("+", ids))'
      BY <1>3, <2>1, <2>2, <2>8, <3>2, <3>3, Answered
    <3>5. \E x \in SUBSET MailsTo(name[s])' :
            Replied(s, "pop", Reply("+", x))' /\ counted'[s] <= Cardinality(x)
      BY <1>1, <2>4, <2>8, <3>3, <3>4
    <3>6. Told(s)' /\ right'[s]
      BY <1>1, <2>8, <3>2 DEF Told
    <3> QED BY <1>1, <2>3, <2>8, <3>2, <3>5, <3>6 DEF Session, Sending, Reading
  <2>9. CASE client[s] = "+ retr" /\ Shown(s) /\ Asked(s, "pop", OkTo("RETR"))
    <3>1. m = OkTo("RETR")
      BY <1>3, <2>1, <2>9, GetsAsked
    <3>2. Answer(s, "+", {}, "pop")
      BY <2>1, <3>1 DEF OkTo, Command
    <3>3. Replied(s, "pop", Bare("+"))'
      BY <1>3, <2>1, <2>2, <2>9, <3>2, Answered DEF Bare
    <3> QED BY <1>1, <2>3, <2>4, <2>9, <3>2, <3>3 DEF Session, Sending, Reading
  <2>10. CASE client[s] = "done" /\ Shown(s) /\ Asked(s, "pop", OkTo("QUIT"))
    <3>1. m = OkTo("QUIT")
      BY <1>3, <2>1, <2>10, GetsAsked
    <3>2. Answer(s, "+", {}, "ended")
      BY <2>1, <3>1 DEF OkTo, Command
    <3>3. Replied(s, "ended", Bare("+"))'
      BY <1>3, <2>1, <2>2, <2>10, <3>2, Answered DEF Bare
    <3> QED BY <1>1, <2>3, <2>4, <2>10, <3>2, <3>3 DEF Session, Sending, Reading
  <2> QED BY <2>5, <2>6, <2>7, <2>8, <2>9, <2>10
<1> QED BY <1>2, <1>3

LEMMA PassSession ==
  ASSUME TypeOK, NEW s \in Sessions, Session(s), Pass(s)
  PROVE  Session(s)'
<1>0. /\ up \in [Sessions -> Seq(Commands)] /\ server \in [Sessions -> ChildPlaces]
      /\ right \in [Sessions -> BOOLEAN]
  BY DEF TypeOK
<1>1. /\ client' = client /\ name' = name /\ right' = right /\ arg' = arg
      /\ mails' = mails /\ overrun' = overrun /\ StoresOnce(s)'
  BY ChildStoresOnce DEF Child, Pass, Gets, clientVars
<1>2. CASE Gone(s)
  BY <1>1, <1>2, StaysGone
<1>3. CASE ~ Gone(s)
  <2>1. PICK m \in Incoming(s) :
          /\ Gets(s, "pass", m)
          /\ CASE m.type = "PASS" /\ m.ok -> Answer(s, "+", {}, "pop")
               [] m.type = "PASS" /\ ~ m.ok -> /\ server' = [server EXCEPT ![s] = "pop"]
                                               /\ UNCHANGED <<down, reset>>
               [] OTHER -> Answer(s, "-", {}, "pop")
    BY DEF Pass
  <2>2. /\ client[s] = "+ pass" /\ Told(s)
        /\ Asked(s, "pass", Command("PASS", Nobody, right[s]))
    <3>1. up[s] # <<>> /\ server[s] = "pass"
      BY <1>3, <2>1, GetsSomething
    <3> QED BY <1>3, <3>1, WhoAsked DEF Asked
  <2>3. m = Command("PASS", Nobody, right[s])
    BY <1>3, <2>1, <2>2, GetsAsked
  <2>4. s \notin reset
    BY <1>3 DEF Session
  <2>5. Told(s)'
    BY <1>1, <2>2 DEF Told
  <2>6. CASE right[s] = TRUE
    <3>1. Answer(s, "+", {}, "pop")
      BY <2>1, <2>3, <2>6 DEF Command
    <3>2. Replied(s, "pop", Bare("+"))'
      BY <1>3, <2>1, <2>2, <2>4, <3>1, Answered DEF Bare
    <3>3. s \notin reset' /\ right'[s]
      BY <1>1, <1>3, <2>4, <2>6, <3>1 DEF Answer
    <3> QED BY <1>1, <2>2, <2>5, <3>2, <3>3 DEF Session, Sending, Reading
  <2>7. CASE right[s] = FALSE
    <3>1. server' = [server EXCEPT ![s] = "pop"] /\ UNCHANGED <<down, reset>>
      BY <2>1, <2>3, <2>7 DEF Command
    <3>2. up'[s] = <<>> /\ down[s] = <<>>
      <4>1. up[s] # <<>> /\ Tail(up[s]) = <<>>
        BY <2>2, OneMessage DEF Asked
      <4> QED BY <1>0, <2>1, <2>2, <4>1 DEF Gets, Asked
    <3>3. Quiet(s, "pop")'
      BY <1>0, <3>1, <3>2 DEF Quiet
    <3>4. ~ right'[s]
      BY <1>1, <2>7
    <3> QED BY <1>1, <2>2, <2>4, <2>5, <3>1, <3>3, <3>4 DEF Session, Sending, Reading
  <2> QED BY <1>0, <2>6, <2>7
<1> QED BY <1>2, <1>3

LEMMA OpenSession ==
  ASSUME TypeOK, NEW s \in Sessions, Session(s),
         \/ \E p \in Ports : Connect(s, p)
         \/ Kill(s) \/ Accept(s)
  PROVE  Session(s)'
<1>0. /\ client \in [Sessions -> ClientPlaces] /\ port \in [Sessions -> Ports]
      /\ up \in [Sessions -> Seq(Commands)] /\ down \in [Sessions -> Seq(Replies)]
      /\ server \in [Sessions -> ChildPlaces]
  BY DEF TypeOK
<1>1. ASSUME NEW p \in Ports, Connect(s, p) PROVE Session(s)'
  <2>1. /\ client[s] = "menu" /\ Quiet(s, "none") /\ s \notin reset /\ ~ HasSent(s)
    BY <1>1 DEF Connect, Session, Gone, StoresOnce
  <2>2. /\ \/ p = "smtp" /\ client'[s] = "220"
           \/ p = "pop" /\ client'[s] = "+"
        /\ port'[s] = p
    BY <1>0, <1>1 DEF Connect, Ports
  <2>3. Quiet(s, "none")' /\ s \notin reset' /\ ~ HasSent(s)'
    BY <1>1, <2>1 DEF Connect, Quiet, HasSent, childVars
  <2>4. StoresOnce(s)'
    BY <2>3 DEF StoresOnce, Quiet
  <2> QED BY <2>2, <2>3, <2>4 DEF Session, Sending, Reading
<1>2. CASE Kill(s)
  <2>1. client'[s] = "killed"
    BY <1>0, <1>2 DEF Kill
  <2>2. StoresOnce(s)'
    <3>1. UNCHANGED <<server, command, up, mails>>
      BY <1>2 DEF Kill, childVars
    <3> QED BY <2>1, <3>1 DEF StoresOnce, HasSent, Session
  <2> QED BY <2>1, <2>2, GaveUp
<1>3. CASE Accept(s)
  <2>1. /\ client[s] # "menu" /\ server[s] = "none"
        /\ UNCHANGED <<clientVars, up, command, arg, mails, overrun>>
        /\ IF port[s] = "smtp" THEN Answer(s, "220", {}, "smtp") ELSE Answer(s, "+", {}, "pop")
    BY <1>3 DEF Accept, Welcome
  <2>2. StoresOnce(s)'
    <3>1. ~ HasSent(s)
      BY <2>1 DEF Session, StoresOnce
    <3>2. ~ HasSent(s)' /\ up'[s] = up[s]
      BY <2>1, <3>1 DEF HasSent
    <3>3. server'[s] # "data"
      BY <1>0, <2>1 DEF Answer
    <3> QED BY <3>2, <3>3 DEF StoresOnce, Session
  <2>3. CASE Gone(s)
    BY <2>1, <2>2, <2>3, StaysGone DEF clientVars
  <2>4. CASE ~ Gone(s)
    <3>1. /\ s \notin reset /\ s \notin reset'
      BY <2>1, <2>4 DEF Session, Answer
    <3>2. /\ \/ client[s] = "220" /\ port[s] = "smtp"
             \/ client[s] = "+" /\ port[s] = "pop"
          /\ Quiet(s, "none")
      BY <1>0, <2>1, <2>4
      DEF Session, Sending, Reading, ClientPlaces, Gone, Quiet, Asked, Replied
    <3>3. \A r : Append(down[s], r) = <<r>>
      BY <3>2, OneMessage DEF Quiet
    <3>4. CASE client[s] = "220" /\ port[s] = "smtp"
      <4>1. Answer(s, "220", {}, "smtp")
        BY <2>1, <3>4
      <4>2. Replied(s, "smtp", Bare("220"))'
        BY <1>0, <2>1, <2>4, <3>1, <3>2, <3>3, <4>1 DEF Answer, Replied, Bare, Quiet
      <4> QED BY <2>1, <2>2, <3>1, <3>4, <4>2 DEF clientVars, Session, Sending, Reading
    <3>5. CASE client[s] = "+" /\ port[s] = "pop"
      <4>1. Answer(s, "+", {}, "pop")
        BY <2>1, <3>5
      <4>2. Replied(s, "pop", Bare("+"))'
        BY <1>0, <2>1, <2>4, <3>1, <3>2, <3>3, <4>1 DEF Answer, Replied, Bare, Quiet
      <4> QED BY <2>1, <2>2, <3>1, <3>5, <4>2 DEF clientVars, Session, Sending, Reading
    <3> QED BY <3>2, <3>4, <3>5
  <2> QED BY <2>3, <2>4
<1> QED BY <1>1, <1>2, <1>3

-----------------------------------------------------------------------------
(* All sessions.                                                           *)

\* A step is of one session.
LEMMA OfOne ==
  ASSUME TypeOK, NEW s \in Sessions, NEW t \in Sessions, s # t,
         \/ \E p \in Ports : Connect(s, p)
         \/ Client(s) \/ Kill(s) \/ Accept(s) \/ Child(s)
  PROVE  /\ client'[t] = client[t] /\ port'[t] = port[t] /\ name'[t] = name[t]
         /\ right'[t] = right[t] /\ counted'[t] = counted[t] /\ listed'[t] = listed[t]
         /\ up'[t] = up[t] /\ down'[t] = down[t]
         /\ server'[t] = server[t] /\ command'[t] = command[t] /\ arg'[t] = arg[t]
         /\ t \in reset' => t \in reset
         /\ mails \subseteq mails'
         /\ overrun => overrun'
         /\ \A m \in mails' : m.from = t => m \in mails
<1>0. /\ client \in [Sessions -> ClientPlaces] /\ port \in [Sessions -> Ports]
      /\ name \in [Sessions -> Names] /\ right \in [Sessions -> BOOLEAN]
      /\ counted \in [Sessions -> Nat] /\ listed \in [Sessions -> SUBSET Ids]
      /\ up \in [Sessions -> Seq(Commands)] /\ down \in [Sessions -> Seq(Replies)]
      /\ server \in [Sessions -> ChildPlaces] /\ command \in [Sessions -> Words]
      /\ arg \in [Sessions -> Names]
  BY DEF TypeOK
<1>1. ASSUME NEW p \in Ports, Connect(s, p)
      PROVE  /\ client'[t] = client[t] /\ port'[t] = port[t]
             /\ UNCHANGED <<name, right, counted, listed, up, down, childVars, reset,
                            mails, overrun>>
  BY <1>0, <1>1 DEF Connect
<1>2. CASE Kill(s)
  BY <1>0, <1>2 DEF Kill, childVars
<1>3. CASE Accept(s)
  BY <1>0, <1>3 DEF Accept, Welcome, Answer, clientVars
<1>4. CASE Client(s)
  <2>1. \E from, code, to, m : Hear(s, from, code, to, m)
    BY <1>4 DEF Client, SendEmail, Login, ReadCount, ReadList, ReadMail
  <2>2. /\ client'[t] = client[t] /\ up'[t] = up[t] /\ down'[t] = down[t]
        /\ UNCHANGED <<port, childVars, reset, mails, overrun>>
    BY <1>0, <2>1 DEF Hear
  <2>3. /\ name'[t] = name[t] /\ right'[t] = right[t]
        /\ counted'[t] = counted[t] /\ listed'[t] = listed[t]
    BY <1>0, <1>4 DEF Client, SendEmail, Login, ReadCount, ReadList, ReadMail
  <2> QED BY <2>2, <2>3 DEF childVars
<1>5. CASE Smtp(s) \/ Rcpt(s) \/ Data(s) \/ Part(s) \/ Pop(s) \/ Pass(s)
  <2>1. /\ UNCHANGED <<clientVars, overrun, mails>> /\ up'[t] = up[t]
    BY <1>0, <1>5 DEF Smtp, Rcpt, Data, Part, Pop, Pass, Gets
  <2>2. command'[t] = command[t] /\ arg'[t] = arg[t]
    BY <1>0, <1>5 DEF Smtp, Rcpt, Data, Part, Pop, Pass
  <2>3. \/ \E code, ids, next : Answer(s, code, ids, next)
        \/ server' = [server EXCEPT ![s] = "pop"] /\ UNCHANGED <<down, reset>>
    <3>1. CASE Pop(s)
      <4>1. PICK m \in Incoming(s) :
              CASE m.type = "USER" -> Answer(s, "+", {}, "pass")
                [] m.type \in {"LIST", "STAT"} -> Answer(s, "+", MailsTo(arg[s]), "pop")
                [] m.type = "RETR" -> Answer(s, "+", {}, "pop")
                [] m.type = "QUIT" -> Answer(s, "+", {}, "ended")
                [] OTHER -> Answer(s, "-", {}, "pop")
        BY <3>1 DEF Pop
      <4> QED BY <4>1
    <3>2. CASE Pass(s)
      <4>1. PICK m \in Incoming(s) :
              CASE m.type = "PASS" /\ m.ok -> Answer(s, "+", {}, "pop")
                [] m.type = "PASS" /\ ~ m.ok -> /\ server' = [server EXCEPT ![s] = "pop"]
                                                /\ UNCHANGED <<down, reset>>
                [] OTHER -> Answer(s, "-", {}, "pop")
        BY <3>2 DEF Pass
      <4> QED BY <4>1
    <3> QED BY <1>5, <3>1, <3>2 DEF Smtp, Rcpt, Data, Part
  <2>4. server'[t] = server[t] /\ down'[t] = down[t] /\ (t \in reset' => t \in reset)
    BY <1>0, <2>3 DEF Answer
  <2> QED BY <2>1, <2>2, <2>4 DEF clientVars
<1>6. CASE Store(s)
  <2>1. /\ server'[t] = server[t] /\ down'[t] = down[t] /\ up'[t] = up[t]
        /\ t \in reset' => t \in reset
    BY <1>0, <1>6 DEF Store, Answer
  <2>2. UNCHANGED <<clientVars, command, arg>> /\ (overrun => overrun')
    BY <1>6 DEF Store
  <2>3. mails \subseteq mails' /\ \A m \in mails' : m.from = t => m \in mails
    <3>1. \A u : NewMail(s, u).from = s
      BY DEF NewMail
    <3> QED BY <1>6, <3>1 DEF Store
  <2> QED BY <2>1, <2>2, <2>3 DEF clientVars
<1> QED BY <1>1, <1>2, <1>3, <1>4, <1>5, <1>6 DEF Child, childVars

\* The reply that a client hears has finitely many mails.
LEMMA FewHeard ==
  ASSUME TypeOK, IsFiniteSet(mails), NEW s \in Sessions, Session(s), Client(s)
  PROVE  IsFiniteSet(Head(down[s]).ids)
<1>1. down[s] # <<>> /\ client[s] \notin {"menu", "sent", "error", "killed", "done"}
  BY DEF Client, SendEmail, Login, ReadCount, ReadList, ReadMail, Hear
<1>2. \E place, r : Replied(s, place, r) /\ IsFiniteSet(r.ids)
  <2>1. client[s] \in ClientPlaces
    BY DEF TypeOK
  <2>2. \A place, m : ~ Quiet(s, place) /\ ~ Asked(s, place, m)
    BY <1>1 DEF Quiet, Asked
  <2>3. \A code : IsFiniteSet(Bare(code).ids)
    BY FS_EmptySet DEF Bare, Reply
  <2>4. \A ids \in SUBSET MailsTo(name[s]) : IsFiniteSet(Reply("+", ids).ids)
    BY MailsToType, FS_Subset DEF Reply
  <2>5. CASE client[s] \in {"stat", "+ list"}
    BY <2>2, <2>4, <2>5 DEF Session, Reading
  <2>6. CASE client[s] \in {"220", "250 mail", "250 rcpt", "354", "250 body"}
    BY <2>2, <2>3, <2>6 DEF Session, Sending
  <2>7. CASE client[s] \in {"+", "+ user", "+ pass", "+ retr"}
    BY <2>2, <2>3, <2>7 DEF Session, Reading
  <2> QED BY <1>1, <2>1, <2>5, <2>6, <2>7 DEF ClientPlaces
<1>3. PICK place, r : Replied(s, place, r) /\ IsFiniteSet(r.ids)
  BY <1>2
<1> QED BY <1>3, IsLast

LEMMA Step ==
  ASSUME IInv, [Next]_vars
  PROVE  IInv'
<1>1. CASE UNCHANGED vars
  <2>1. UNCHANGED <<client, port, name, right, counted, listed, up, down, server,
                    command, arg, reset, files, mails, overrun>>
    BY <1>1 DEF vars, clientVars, childVars
  <2>2. TypeOK'
    BY <2>1 DEF IInv, TypeOK
  <2>3. ASSUME NEW t \in Sessions PROVE Session(t)'
    BY <2>1, <2>2, Untouched DEF IInv
  <2> QED BY <2>1, <2>2, <2>3 DEF IInv, OneEach
<1>2. ASSUME NEW s \in Sessions,
             \/ \E p \in Ports : Connect(s, p)
             \/ Client(s) \/ Kill(s) \/ Accept(s) \/ Child(s)
      PROVE  IInv'
  <2>0. TypeOK /\ IsFiniteSet(mails) /\ OneEach /\ \A t \in Sessions : Session(t)
    BY DEF IInv
  <2>1. TypeOK' /\ IsFiniteSet(mails') /\ Session(s)'
    <3>1. CASE (\E p \in Ports : Connect(s, p)) \/ Kill(s) \/ Accept(s)
      <4>1. mails' = mails
        BY <3>1 DEF Connect, Kill, Accept
      <4> QED BY <2>0, <3>1, <4>1, OpenTyped, OpenSession
    <3>2. CASE Client(s)
      <4>1. mails' = mails
        BY <3>2 DEF Client, SendEmail, Login, ReadCount, ReadList, ReadMail, Hear
      <4>2. TypeOK'
        BY <2>0, <3>2, ClientTyped, FewHeard
      <4>3. Session(s)'
        BY <2>0, <3>2, SendSession, ReadSession DEF Client
      <4> QED BY <2>0, <4>1, <4>2, <4>3
    <3>3. CASE Store(s)
      BY <2>0, <3>3, StoreTyped, StoreSession
    <3>4. CASE Smtp(s) \/ Rcpt(s) \/ Data(s) \/ Part(s) \/ Pop(s) \/ Pass(s)
      <4>1. mails' = mails
        BY <3>4 DEF Smtp, Rcpt, Data, Part, Pop, Pass
      <4>2. TypeOK'
        BY <2>0, <3>4, TalkTyped
      <4>3. Session(s)'
        BY <2>0, <3>4, TalkSession, PopSession, PassSession
      <4> QED BY <2>0, <4>1, <4>2, <4>3
    <3> QED BY <1>2, <3>1, <3>2, <3>3, <3>4 DEF Child
  <2>2. ASSUME NEW t \in Sessions, t # s PROVE Session(t)'
    BY <1>2, <2>0, <2>1, <2>2, OfOne, Untouched
  <2>3. OneEach'
    <3>1. CASE Store(s)
      <4>1. ~ HasSent(s)
        BY <2>0, <3>1 DEF Store, Session, StoresOnce
      <4>2. mails' = mails \/ \E u : mails' = mails \cup {NewMail(s, u)}
        BY <3>1 DEF Store
      <4>3. \A u : NewMail(s, u).from = s
        BY DEF NewMail
      <4> QED BY <2>0, <4>1, <4>2, <4>3 DEF OneEach, HasSent
    <3>2. CASE mails' = mails
      BY <2>0, <3>2 DEF OneEach
    <3>3. Store(s) \/ mails' = mails
      BY <1>2 DEF Connect, Kill, Accept, Client, SendEmail, Login, ReadCount, ReadList,
                  ReadMail, Hear, Child, Smtp, Rcpt, Data, Part, Pop, Pass
    <3> QED BY <3>1, <3>2, <3>3
  <2> QED BY <2>1, <2>2, <2>3 DEF IInv
<1> QED BY <1>1, <1>2 DEF Next

LEMMA Start ==
  ASSUME Init
  PROVE  IInv
<1>1. TypeOK
  <2>1. "menu" \in ClientPlaces /\ "none" \in ChildPlaces /\ "" \in Words
        /\ "smtp" \in Ports /\ Nobody \in Names
    BY DEF ClientPlaces, ChildPlaces, Words, Ports, Names
  <2>2. \A S : <<>> \in Seq(S)
    OBVIOUS
  <2> QED BY <2>1, <2>2 DEF Init, TypeOK
<1>2. ASSUME NEW s \in Sessions PROVE Session(s)
  BY DEF Init, Session, Sending, Reading, StoresOnce, HasSent, Quiet, Gone
<1> QED BY <1>1, <1>2, FS_EmptySet DEF IInv, Init, OneEach

LEMMA Holds == Spec => []IInv
  BY Start, Step, PTL DEF Spec

-----------------------------------------------------------------------------
(* The theorems.                                                           *)

\* Every variable keeps the values its declaration allows; in particular accept()
\* never gives a process more connections than it has descriptors.
THEOREM TypeCorrect == Spec => []TypeOK
<1>1. IInv => TypeOK
  BY DEF IInv
<1> QED BY <1>1, Holds, PTL

\* A client says that its mail is sent only when it is in the table, for the receiver
\* it has typed, unless query has overrun what it was made from, and no session's mail
\* is in the table twice.
THEOREM MailIsStored == Spec => []SentIsStored
<1>1. IInv => SentIsStored
  BY DEF IInv, OneEach, Session, Sending, Stored, SentIsStored
<1> QED BY <1>1, Holds, PTL

\* A list is shown to who has given the password, and is of the mails to that user
\* only, no fewer than the number announced.
THEOREM OwnListOnly == Spec => []ListIsOwn
<1>1. IInv => ListIsOwn
  BY DEF IInv, Session, Reading, Shown, ListIsOwn
<1> QED BY <1>1, Holds, PTL

\* The only command that the child waits for has come.
Expected(s) ==
  \E m \in Commands :
    /\ up[s] = <<m>> /\ down[s] = <<>>
    /\ <<server[s], m.type>> \in
         {<<"smtp", "MAIL">>, <<"mail", "RCPT">>, <<"rcpt", "DATA">>, <<"data", "">>,
          <<"pop", "USER">>, <<"pass", "PASS">>, <<"pop", "STAT">>, <<"pop", "LIST">>,
          <<"pop", "RETR">>}

\* It is the turn of the client, that of the child, or accept()'s.
InTurn(s) ==
  \/ up[s] = <<>> /\ \E r \in Replies : down[s] = <<r>>
  \/ Expected(s)
  \/ Quiet(s, "none") /\ files[port[s]] < MaxFiles

\* A client that waits and its child never wait for each other, and never talk at
\* once: there is one reply to be heard, or one command, which is the one that the
\* child is at, or the child has not been made yet; but for the replies that never
\* come.
THEOREM OneOfThemTalks ==
  Spec => [](\A s \in Sessions : Waits(s) => InTurn(s) \/ Lost(s))
<1>1. ASSUME IInv, NEW s \in Sessions, Waits(s)
      PROVE  InTurn(s) \/ Lost(s)
  <2>1. /\ client[s] \in ClientPlaces \ {"menu", "done", "sent", "error", "killed"}
        /\ Sending(s) /\ Reading(s) /\ right[s] \in BOOLEAN
        /\ name[s] \in Names /\ Nobody \in Names
        /\ files[port[s]] \in 0 .. MaxFiles
    BY <1>1 DEF IInv, TypeOK, Session, Waits, Gone, Names
  <2>2. MaxFiles \in Nat
    BY MailAssumption DEF MailAssumption
  <2>3. Quiet(s, "none") => InTurn(s) \/ Lost(s)
    BY <2>1, <2>2 DEF Quiet, InTurn, Lost
  <2>4. ASSUME NEW p, NEW r, Replied(s, p, r) PROVE InTurn(s)
    <3>1. down[s] \in Seq(Replies) /\ up[s] = <<>> /\ down[s] = <<r>>
      BY <1>1, <2>4 DEF IInv, TypeOK, Replied
    <3>2. r \in Replies
      BY <3>1, OneMessage
    <3> QED BY <3>1, <3>2 DEF InTurn
  <2>5. ASSUME NEW p, NEW word \in Words, NEW u \in Names, NEW ok \in BOOLEAN,
               Asked(s, p, Command(word, u, ok)),
               <<p, word>> \in
                 {<<"smtp", "MAIL">>, <<"mail", "RCPT">>, <<"rcpt", "DATA">>,
                  <<"data", "">>, <<"pop", "USER">>, <<"pass", "PASS">>,
                  <<"pop", "STAT">>, <<"pop", "LIST">>, <<"pop", "RETR">>}
        PROVE  InTurn(s)
    BY <2>5, CommandType DEF InTurn, Expected, Asked
  <2>6. CASE client[s] \in {"220", "+"}
    BY <2>1, <2>3, <2>4, <2>6 DEF Sending, Reading
  <2>7. CASE client[s] \in {"250 mail", "250 rcpt", "354"}
    BY <2>1, <2>4, <2>5, <2>7 DEF Sending, OkTo, Words
  <2>8. CASE client[s] = "250 body"
    <3>1. Quiet(s, "ended") => Lost(s)
      BY <2>8 DEF Quiet, Lost
    <3> QED BY <2>1, <2>4, <2>5, <2>8, <3>1 DEF Sending, OkTo, Words
  <2>9. CASE client[s] = "+ pass"
    <3>1. Quiet(s, "pop") /\ ~ right[s] => Lost(s)
      BY <2>9 DEF Quiet, Lost
    <3> QED BY <2>1, <2>4, <2>5, <2>9, <3>1 DEF Reading, Words
  <2>10. CASE client[s] \in {"+ user", "stat", "+ list", "+ retr"}
    BY <2>1, <2>4, <2>5, <2>10 DEF Reading, OkTo, Words
  <2> QED BY <2>1, <2>6, <2>7, <2>8, <2>9, <2>10 DEF ClientPlaces
<1>2. IInv => \A s \in Sessions : Waits(s) => InTurn(s) \/ Lost(s)
  BY <1>1
<1> QED BY <1>2, Holds, PTL
=============================================================================
