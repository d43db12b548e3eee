-------------------------- MODULE SchedulerProofs --------------------------
(* The scheduler does not stop early and no process is in two places, for  *)
(* any processes, rounds and priorities.                                   *)
EXTENDS Scheduler, FiniteSetTheorems, TLAPS

-----------------------------------------------------------------------------
(* Queues.                                                                 *)

LEMMA HeadTaken ==
  ASSUME NEW S, NEW q \in Seq(S), q # <<>>
  PROVE  /\ Tail(q) \in Seq(S)
         /\ Len(Tail(q)) = Len(q) - 1
         /\ \A i \in 1 .. Len(q) - 1 : Tail(q)[i] = q[i + 1]
         /\ Head(q) = q[1]
         /\ Head(q) \in S
         /\ 1 \in DOMAIN q
  OBVIOUS

LEMMA Appended ==
  ASSUME NEW S, NEW q \in Seq(S), NEW m \in S
  PROVE  /\ Append(q, m) \in Seq(S)
         /\ DOMAIN Append(q, m) = DOMAIN q \cup {Len(q) + 1}
         /\ Len(q) + 1 \notin DOMAIN q
         /\ \A i \in DOMAIN q : Append(q, m)[i] = q[i]
         /\ Append(q, m)[Len(q) + 1] = m
  OBVIOUS

\* What is left when an entry is taken out, place by place.
LEMMA Removed ==
  ASSUME NEW S, NEW q \in Seq(S), NEW n \in DOMAIN q
  PROVE  /\ RemoveAt(q, n) \in Seq(S)
         /\ Len(RemoveAt(q, n)) = Len(q) - 1
         /\ \A p \in 1 .. Len(q) - 1 :
              RemoveAt(q, n)[p] = q[IF p < n THEN p ELSE p + 1]
<1> DEFINE L == SubSeq(q, 1, n - 1)
           R == SubSeq(q, n + 1, Len(q))
<1>1. /\ L \in Seq(S) /\ Len(L) = n - 1
      /\ \A p \in 1 .. n - 1 : L[p] = q[p]
  OBVIOUS
<1>2. /\ R \in Seq(S) /\ Len(R) = Len(q) - n
      /\ \A p \in 1 .. Len(q) - n : R[p] = q[p + n]
  OBVIOUS
<1>3. RemoveAt(q, n) = L \o R
  BY DEF RemoveAt
<1> HIDE DEF L, R
<1>4. /\ L \o R \in Seq(S) /\ Len(L \o R) = Len(q) - 1
  BY <1>1, <1>2
<1>5. ASSUME NEW p \in 1 .. Len(q) - 1
      PROVE  (L \o R)[p] = q[IF p < n THEN p ELSE p + 1]
  <2>1. CASE p < n
    BY <2>1, <1>1, <1>2
  <2>2. CASE ~ (p < n)
    <3>1. (L \o R)[p] = R[p - (n - 1)]
      BY <2>2, <1>1, <1>2
    <3>2. p - (n - 1) \in 1 .. Len(q) - n /\ (p - (n - 1)) + n = p + 1
      BY <2>2
    <3> QED BY <2>2, <3>1, <3>2, <1>2
  <2> QED BY <2>1, <2>2
<1> QED BY <1>3, <1>4, <1>5

\* The entries that are left are the others, each in its own place.
LEMMA Picked ==
  ASSUME NEW S, NEW q \in Seq(S), NEW n \in DOMAIN q
  PROVE  /\ RemoveAt(q, n) \in Seq(S)
         /\ \E Old \in [DOMAIN RemoveAt(q, n) -> DOMAIN q] :
              /\ \A i \in DOMAIN RemoveAt(q, n) :
                   RemoveAt(q, n)[i] = q[Old[i]] /\ Old[i] # n
              /\ \A i, j \in DOMAIN RemoveAt(q, n) : Old[i] = Old[j] => i = j
              /\ \A k \in DOMAIN q :
                   k # n => \E i \in DOMAIN RemoveAt(q, n) : Old[i] = k
<1> DEFINE rest == RemoveAt(q, n)
           Old == [i \in DOMAIN rest |-> IF i < n THEN i ELSE i + 1]
<1>1. /\ rest \in Seq(S)
      /\ Len(rest) = Len(q) - 1
      /\ \A p \in 1 .. Len(q) - 1 : rest[p] = q[IF p < n THEN p ELSE p + 1]
  BY Removed
<1> HIDE DEF rest
<1>2. /\ Len(q) \in Nat /\ DOMAIN q = 1 .. Len(q)
      /\ DOMAIN rest = 1 .. Len(q) - 1 /\ n \in 1 .. Len(q)
  BY <1>1
<1>3. Old \in [DOMAIN rest -> DOMAIN q]
  BY <1>2
<1>4. \A i \in DOMAIN rest : rest[i] = q[Old[i]] /\ Old[i] # n
  BY <1>1, <1>2
<1>5. \A i, j \in DOMAIN rest : Old[i] = Old[j] => i = j
  BY <1>2
<1>6. ASSUME NEW k \in DOMAIN q, k # n
      PROVE  \E i \in DOMAIN rest : Old[i] = k
  <2>1. CASE k < n
    <3>1. k \in DOMAIN rest /\ Old[k] = k
      BY <1>2, <2>1
    <3> QED BY <3>1
  <2>2. CASE k > n
    <3>1. k - 1 \in DOMAIN rest /\ Old[k - 1] = k
      BY <1>2, <2>2
    <3> QED BY <3>1
  <2> QED BY <1>2, <1>6, <2>1, <2>2
<1> HIDE DEF Old
<1> QED BY <1>1, <1>3, <1>4, <1>5, <1>6 DEF rest

-----------------------------------------------------------------------------
(* Types.                                                                  *)

Turn == {"start", "run", "judge", "push"}

\* A process that is not done with its rounds has rounds left.
RoundsLeft == \A p \in Procs : proc[p] \notin {"last", "ended"} => left[p] > 0

Typed ==
  /\ TypeOK
  /\ RoundsLeft
  /\ sched \in Turn => next \in Procs

LEMMA InitTyped == Init => Typed
<1> SUFFICES ASSUME Init PROVE Typed
  OBVIOUS
<1> USE SchedulerAssumption DEF Init, SchedulerAssumption
<1>0. ready \in Seq(Entries) /\ queue \in Seq(Messages)
  OBVIOUS
<1>1. sched \in Places /\ next \in Procs \cup {Nobody} /\ state \in States
  BY DEF Places, States
<1>4. null \in BOOLEAN /\ flag \in BOOLEAN
  OBVIOUS
<1>6. total \in Int /\ sum \in Int
  OBVIOUS
<1>5. pending \in [Signals -> SUBSET Procs]
  OBVIOUS
<1>2. /\ proc \in [Procs -> Stages]
      /\ active \in [Procs -> BOOLEAN]
      /\ signals \in [Procs -> SUBSET {"notify", "suspend"}]
      /\ late \in BOOLEAN
  BY DEF Stages
<1>3. /\ left \in [Procs -> Nat]
      /\ \A p \in Procs : left[p] > 0
  OBVIOUS
<1> QED BY <1>0, <1>1, <1>2, <1>3, <1>4, <1>5, <1>6
        DEF Typed, TypeOK, RoundsLeft, Turn, Places, Entries, Messages, Stages

LEMMA PostType ==
  ASSUME TypeOK, NEW type \in {"add", "completed"}, NEW p \in Procs,
         Post(type, p)
  PROVE  queue' \in Seq(Messages)
<1>1. [type |-> type, pid |-> p] \in Messages
  BY DEF Messages
<1> QED BY <1>1, Appended DEF Post, TypeOK

LEMMA RaiseType ==
  ASSUME TypeOK, NEW s \in Signals, NEW p \in Procs, Raise(s, p)
  PROVE  pending' \in [Signals -> SUBSET Procs] /\ late' \in BOOLEAN
<1>1. pending' \in [Signals -> SUBSET Procs]
  BY DEF Raise, TypeOK
<1>2. late' \in BOOLEAN
  BY DEF Raise
<1> QED BY <1>1, <1>2

LEMMA RoundDone ==
  ASSUME Typed, NEW p \in Procs, proc[p] \in {"go", "io"},
         Moves(p, proc[p], AfterRound(p)),
         left' = [left EXCEPT ![p] = @ - 1]
  PROVE  left' \in [Procs -> Nat] /\ proc' \in [Procs -> Stages] /\ RoundsLeft'
<1>1. /\ left \in [Procs -> Nat] /\ proc \in [Procs -> Stages]
      /\ left[p] \in Nat /\ left[p] > 0
  BY DEF Typed, RoundsLeft, TypeOK
<1>2. left[p] - 1 \in Nat /\ (left[p] # 1 => left[p] - 1 > 0)
  BY <1>1
<1>3. proc' \in [Procs -> Stages]
  BY <1>1 DEF Moves, AfterRound, Stages
<1>4. left' \in [Procs -> Nat]
  BY <1>1, <1>2
<1>5. ASSUME NEW q \in Procs, proc'[q] \notin {"last", "ended"}
      PROVE  left'[q] > 0
  <2>1. CASE q = p
    <3>1. left[p] # 1
      BY <1>1, <1>5, <2>1 DEF Moves, AfterRound
    <3>2. left'[q] = left[p] - 1
      BY <1>1, <2>1
    <3> QED BY <1>2, <3>1, <3>2
  <2>2. CASE q # p
    <3>1. left'[q] = left[q] /\ proc'[q] = proc[q]
      BY <1>1, <2>2 DEF Moves
    <3> QED BY <1>5, <3>1 DEF Typed, RoundsLeft
  <2> QED BY <2>1, <2>2
<1> QED BY <1>3, <1>4, <1>5 DEF RoundsLeft

LEMMA ProcessTyped ==
  ASSUME Typed, NEW p \in Procs,
         \/ Announce(p) \/ Process(p)
         \/ \E s \in {"notify", "suspend"} : Handle(p, s)
  PROVE  Typed'
<1>0. TypeOK /\ RoundsLeft /\ (sched \in Turn => next \in Procs)
  BY DEF Typed
<1>00. /\ proc \in [Procs -> Stages] /\ left \in [Procs -> Nat]
       /\ active \in [Procs -> BOOLEAN]
       /\ signals \in [Procs -> SUBSET {"notify", "suspend"}]
  BY <1>0 DEF TypeOK
<1>1. UNCHANGED schedVars
  BY DEF Announce, Process, CheckActive, BeginPause, NoIO, RequestIO, StartIO,
         EndIO, End, Handle
<1>2. CASE Announce(p)
  <2>1. queue' \in Seq(Messages)
    BY <1>0, <1>2, PostType DEF Announce
  <2>2. proc' \in [Procs -> Stages] /\ RoundsLeft'
    BY <1>0, <1>00, <1>2 DEF Announce, Moves, Stages, RoundsLeft
  <2> QED BY <1>0, <1>1, <1>2, <2>1, <2>2
          DEF Announce, Typed, schedVars, TypeOK
<1>3. CASE CheckActive(p) \/ BeginPause(p)
  <2>1. proc' \in [Procs -> Stages] /\ RoundsLeft'
    BY <1>0, <1>00, <1>3
       DEF CheckActive, BeginPause, Moves, Stages, RoundsLeft
  <2> QED BY <1>0, <1>1, <1>3, <2>1
          DEF CheckActive, BeginPause, Typed, schedVars, TypeOK
<1>4. CASE NoIO(p)
  <2>1. left' \in [Procs -> Nat] /\ proc' \in [Procs -> Stages] /\ RoundsLeft'
    BY <1>4, RoundDone DEF NoIO, Moves
  <2> QED BY <1>0, <1>1, <1>4, <2>1 DEF NoIO, Typed, schedVars, TypeOK
<1>5. CASE RequestIO(p)
  <2>1. proc' \in [Procs -> Stages] /\ RoundsLeft'
    BY <1>0, <1>00, <1>5 DEF RequestIO, Moves, Stages, RoundsLeft
  <2>2. pending' \in [Signals -> SUBSET Procs] /\ late' \in BOOLEAN
    BY <1>0, <1>5, RaiseType DEF RequestIO, Signals
  <2> QED BY <1>0, <1>1, <1>5, <2>1, <2>2
          DEF RequestIO, Typed, schedVars, TypeOK
<1>6. CASE StartIO(p)
  <2>1. proc' \in [Procs -> Stages] /\ RoundsLeft'
    BY <1>0, <1>00, <1>6 DEF StartIO, Moves, Stages, RoundsLeft
  <2>2. active' \in [Procs -> BOOLEAN]
    BY <1>00, <1>6 DEF StartIO
  <2> QED BY <1>0, <1>1, <1>6, <2>1, <2>2 DEF StartIO, Typed, schedVars, TypeOK
<1>7. CASE EndIO(p)
  <2>1. left' \in [Procs -> Nat] /\ proc' \in [Procs -> Stages] /\ RoundsLeft'
    BY <1>7, RoundDone DEF EndIO, Moves
  <2>2. queue' \in Seq(Messages)
    <3>1. CASE Post("completed", p)
      BY <1>0, <3>1, PostType
    <3>2. CASE UNCHANGED queue
      BY <1>0, <3>2 DEF TypeOK
    <3> QED BY <1>7, <3>1, <3>2 DEF EndIO
  <2> QED BY <1>0, <1>1, <1>7, <2>1, <2>2 DEF EndIO, Typed, schedVars, TypeOK
<1>8. CASE End(p)
  <2>1. proc' \in [Procs -> Stages] /\ RoundsLeft'
    BY <1>0, <1>00, <1>8 DEF End, Moves, Stages, RoundsLeft
  <2>2. pending' \in [Signals -> SUBSET Procs] /\ late' \in BOOLEAN
    BY <1>0, <1>8, RaiseType DEF End, Signals
  <2>3. signals' \in [Procs -> SUBSET {"notify", "suspend"}]
    BY <1>00, <1>8 DEF End
  <2> QED BY <1>0, <1>1, <1>8, <2>1, <2>2, <2>3
          DEF End, Typed, schedVars, TypeOK
<1>9. ASSUME NEW s \in {"notify", "suspend"}, Handle(p, s) PROVE Typed'
  <2>1. proc' \in [Procs -> Stages] /\ RoundsLeft'
    BY <1>0, <1>00, <1>9 DEF Handle, Stages, RoundsLeft
  <2>2. signals' \in [Procs -> SUBSET {"notify", "suspend"}]
    BY <1>00, <1>9 DEF Handle
  <2>3. active' \in [Procs -> BOOLEAN]
    BY <1>00, <1>9 DEF Handle
  <2> QED BY <1>0, <1>1, <1>9, <2>1, <2>2, <2>3
          DEF Handle, Typed, schedVars, TypeOK
<1> QED BY <1>2, <1>3, <1>4, <1>5, <1>6, <1>7, <1>8, <1>9 DEF Process

LEMMA KillType ==
  ASSUME TypeOK, NEW p, NEW s \in {"notify", "suspend"}, Kill(p, s)
  PROVE  signals' \in [Procs -> SUBSET {"notify", "suspend"}]
  BY DEF Kill, TypeOK

LEMMA SchedTyped ==
  ASSUME Typed, Sched
  PROVE  Typed'
<1>0. TypeOK /\ RoundsLeft /\ (sched \in Turn => next \in Procs)
  BY DEF Typed
<1>00. ready \in Seq(Entries) /\ queue \in Seq(Messages) /\ total \in Int
       /\ state \in States
  BY <1>0 DEF TypeOK
<1>1. UNCHANGED procVars
  BY DEF Sched, Clear, Receive, Count, Pick, PickNobody, Start, Suspend, Judge,
         PushBack, TestTotal
<1>2. RoundsLeft'
  BY <1>0, <1>1 DEF RoundsLeft, procVars
<1> USE DEF Places, Turn
<1>3. CASE Clear
  BY <1>0, <1>2, <1>3 DEF Clear, SchedMoves, Typed, procVars, TypeOK
<1>4. CASE Receive
  <2>1. queue' \in Seq(Messages) /\ Head(queue) \in Messages
    BY <1>00, <1>4, HeadTaken DEF Receive
  <2>2. [pid |-> Head(queue).pid, state |-> "ready"] \in Entries
    BY <2>1 DEF Messages, Entries, States
  <2>3. ready' \in Seq(Entries)
    BY <1>00, <1>4, <2>2, Appended DEF Receive
  <2>4. sum' \in Int
    <3>0. sum \in Int
      BY <1>0 DEF TypeOK
    <3>1. total + 1 \in Int
      BY <1>00
    <3>2. sum' = IF Head(queue).type = "add" THEN total + 1 ELSE sum
      BY <1>4 DEF Receive
    <3> QED BY <3>0, <3>1, <3>2
  <2>5. sched' \in {"count", "receive"}
    BY <1>4 DEF Receive, SchedMoves
  <2> QED BY <1>0, <1>2, <1>4, <2>1, <2>3, <2>4, <2>5
          DEF Receive, Typed, procVars, TypeOK
<1>5. CASE Count
  BY <1>0, <1>2, <1>5 DEF Count, SchedMoves, Typed, procVars, TypeOK
<1>6. CASE Pick
  <2>1. PICK i \in DOMAIN ready : /\ next' = ready[i].pid
                                  /\ state' = ready[i].state
                                  /\ ready' = RemoveAt(ready, i)
    BY <1>6 DEF Pick, Candidates
  <2>2. ready' \in Seq(Entries)
    BY <1>00, <2>1, Removed
  <2>3. ready[i] \in Entries
    BY <1>00
  <2>4. next' \in Procs /\ state' \in States
    BY <2>1, <2>3 DEF Entries
  <2> QED BY <1>0, <1>2, <1>6, <2>2, <2>4
          DEF Pick, SchedMoves, Typed, procVars, TypeOK
<1>7. CASE PickNobody
  BY <1>0, <1>2, <1>7 DEF PickNobody, SchedMoves, Typed, procVars, TypeOK
<1>8. CASE Start
  <2>1. signals' \in [Procs -> SUBSET {"notify", "suspend"}]
    BY <1>0, <1>8, KillType DEF Start, TypeOK
  <2>2. state' \in States
    BY <1>00, <1>8 DEF Start, States
  <2> QED BY <1>0, <1>2, <1>8, <2>1, <2>2 DEF Start, Typed, procVars, TypeOK
<1>9. CASE Suspend
  <2>1. signals' \in [Procs -> SUBSET {"notify", "suspend"}]
    BY <1>0, <1>9, KillType DEF Suspend
  <2> QED BY <1>0, <1>2, <1>9, <2>1
          DEF Suspend, SchedMoves, Typed, procVars, TypeOK
<1>10. CASE Judge
  <2>1. state' \in States
    BY <1>00, <1>10 DEF Judge, States
  <2>2. late' \in BOOLEAN
    BY <1>10 DEF Judge
  <2>3. sched' \in {"push", "test"} /\ sched \in Turn
    BY <1>10 DEF Judge, Judging
  <2> QED BY <1>0, <1>2, <1>10, <2>1, <2>2, <2>3
          DEF Judge, Typed, procVars, TypeOK
<1>11. CASE PushBack
  <2>1. [pid |-> next, state |-> state] \in Entries
    BY <1>0, <1>00, <1>11 DEF PushBack, SchedMoves, Entries
  <2>2. ready' \in Seq(Entries)
    BY <1>00, <1>11, <2>1, Appended DEF PushBack
  <2> QED BY <1>0, <1>2, <1>11, <2>2
          DEF PushBack, SchedMoves, Typed, procVars, TypeOK
<1>12. CASE TestTotal
  BY <1>0, <1>2, <1>12 DEF TestTotal, SchedMoves, Typed, procVars, TypeOK
<1> QED BY <1>3, <1>4, <1>5, <1>6, <1>7, <1>8, <1>9, <1>10, <1>11, <1>12
        DEF Sched

LEMMA HandlerTyped ==
  ASSUME Typed, NEW s \in Signals, Handler(s)
  PROVE  Typed'
<1>0. TypeOK /\ RoundsLeft /\ (sched \in Turn => next \in Procs)
  BY DEF Typed
<1>1. ready \in Seq(Entries) /\ state \in States /\ sched \in Places
      /\ total \in Int /\ flag \in BOOLEAN
  BY <1>0 DEF TypeOK
<1>2. RoundsLeft'
  BY <1>0 DEF Handler, procVars, RoundsLeft
<1>3. pending' \in [Signals -> SUBSET Procs]
  BY <1>0 DEF Handler, TypeOK
<1>4. state' \in States
  <2>1. state' = state \/ state' \in {"waiting", "terminated"}
    BY DEF Handler
  <2> QED BY <1>1, <2>1 DEF States
<1>5. flag' \in BOOLEAN /\ total' \in Int
  <2>1. flag' \in {flag, TRUE} /\ total' \in {total, total - 1}
    BY DEF Handler
  <2>2. total - 1 \in Int
    BY <1>1
  <2> QED BY <1>1, <2>1, <2>2
<1>6. sched' \in {sched, "crashed", "gave up"}
  BY DEF Handler
<1>7. ready' \in Seq(Entries)
  <2>1. CASE ready' = ready
    BY <1>1, <2>1
  <2>2. ASSUME NEW i \in DOMAIN ready,
               ready' = [ready EXCEPT ![i].state = state']
        PROVE  ready' \in Seq(Entries)
    <3> DEFINE e == [ready[i] EXCEPT !.state = state']
    <3>0. ready[i] \in Entries
      BY <1>1
    <3>1. e \in Entries
      BY <3>0, <1>4 DEF Entries
    <3>2. ready' = [ready EXCEPT ![i] = e]
      BY <2>2
    <3> HIDE DEF e
    <3> QED BY <1>1, <3>1, <3>2
  <2> QED BY <2>1, <2>2 DEF Handler
<1> QED BY <1>0, <1>1, <1>2, <1>3, <1>4, <1>5, <1>6, <1>7
        DEF Handler, Typed, procVars, Places, Turn, TypeOK

LEMMA StepTyped == Typed /\ [Next]_vars => Typed'
<1> SUFFICES ASSUME Typed, [Next]_vars PROVE Typed'
  OBVIOUS
<1>1. CASE UNCHANGED vars
  BY <1>1 DEF vars, schedVars, procVars, Typed, TypeOK, RoundsLeft
<1> QED BY <1>1, ProcessTyped, SchedTyped, HandlerTyped DEF Next

\* Every variable keeps the values its declaration in the code allows.
THEOREM TypeCorrect == Spec => []TypeOK
<1>1. Typed => TypeOK
  BY DEF Typed
<1> QED BY <1>1, InitTyped, StepTyped, PTL DEF Spec

-----------------------------------------------------------------------------
(* Which processes the scheduler knows.                                    *)

\* A process is announced by one message, and what comes later comes from or
\* is for one that has been added.
MessagesInOrder ==
  /\ \A p \in Procs : proc[p] = "new" => ~ Queued(p)
  /\ \A i, j \in DOMAIN queue :
       /\ queue[i].type = "add" /\ queue[j].type = "add"
       /\ queue[i].pid = queue[j].pid
       => i = j
  /\ \A p \in Procs : \A i \in DOMAIN queue :
       queue[i].type = "completed" /\ queue[i].pid = p => Added(p)

InReady(p) == \E i \in DOMAIN ready : ready[i].pid = p

Started == {"go", "asked", "io", "last", "ended"}

Known ==
  /\ MessagesInOrder
  /\ \A p \in Procs : InReady(p) => Added(p)
  /\ next \in Procs => Added(next)
  /\ \A p \in Procs : active[p] => Added(p)
  /\ \A p \in Procs : signals[p] # {} => Added(p)
  /\ \A p \in Procs : proc[p] \in Started => Added(p)

AddedSame == \A q \in Procs : Added(q)' <=> Added(q)
NewSame == \A q \in Procs : proc'[q] = "new" <=> proc[q] = "new"

LEMMA NothingPosted ==
  ASSUME Typed, MessagesInOrder, queue' = queue, NewSame
  PROVE  MessagesInOrder' /\ AddedSame
<1>1. \A i \in DOMAIN queue : queue[i] \in Messages
  BY DEF Typed, TypeOK
<1>2. AddedSame
  BY DEF Added, NewSame, AddedSame
<1>3. \A i \in DOMAIN queue : queue[i].pid \in Procs
  BY <1>1 DEF Messages
<1> QED BY <1>2, <1>3 DEF MessagesInOrder, AddedSame, NewSame, Queued

LEMMA Posted ==
  ASSUME Typed, MessagesInOrder, NEW p \in Procs,
         NEW type \in {"add", "completed"}, Post(type, p),
         proc'[p] # "new",
         \A q \in Procs \ {p} : proc'[q] = proc[q],
         type = "add" => proc[p] = "new",
         type = "completed" => Added(p)
  PROVE  MessagesInOrder' /\ AddedSame
<1> DEFINE m == [type |-> type, pid |-> p]
           n == Len(queue) + 1
<1>1. m \in Messages /\ m.type = type /\ m.pid = p
  BY DEF Messages
<1>2. queue \in Seq(Messages) /\ queue' = Append(queue, m)
  BY DEF Typed, TypeOK, Post
<1> HIDE DEF m
<1>3. /\ DOMAIN queue' = DOMAIN queue \cup {n}
      /\ n \notin DOMAIN queue
      /\ \A i \in DOMAIN queue : queue'[i] = queue[i]
      /\ queue'[n] = m
  BY <1>1, <1>2, Appended
<1> HIDE DEF n
<1>4. \A i \in DOMAIN queue : queue[i] \in Messages
  BY <1>2
<1>5. \A i \in DOMAIN queue : queue[i].pid \in Procs
  BY <1>4 DEF Messages
<1>6. ASSUME NEW q \in Procs PROVE Added(q)' <=> Added(q)
  <2>1. CASE q # p
    <3>1. m # [type |-> "add", pid |-> q]
      BY <1>1, <2>1
    <3>2. proc'[q] = proc[q]
      BY <2>1
    <3> QED BY <1>3, <3>1, <3>2 DEF Added
  <2>2. CASE q = p /\ type = "add"
    <3>1. m = [type |-> "add", pid |-> q]
      BY <2>2 DEF m
    <3> QED BY <1>3, <2>2, <3>1 DEF Added
  <2>3. CASE q = p /\ type = "completed"
    <3>1. m # [type |-> "add", pid |-> q]
      BY <1>1, <2>3
    <3> QED BY <1>3, <2>3, <3>1 DEF Added
  <2> QED BY <2>1, <2>2, <2>3
<1>7. ASSUME NEW q \in Procs, proc'[q] = "new" PROVE ~ Queued(q)'
  <2>1. q # p /\ proc[q] = "new"
    BY <1>7
  <2> QED BY <1>1, <1>3, <2>1 DEF MessagesInOrder, Queued
<1>8. ASSUME NEW i \in DOMAIN queue', NEW j \in DOMAIN queue',
             queue'[i].type = "add", queue'[j].type = "add",
             queue'[i].pid = queue'[j].pid
      PROVE  i = j
  <2>1. CASE i \in DOMAIN queue /\ j \in DOMAIN queue
    BY <1>3, <1>8, <2>1 DEF MessagesInOrder
  <2>2. ASSUME NEW k \in DOMAIN queue, queue[k].pid = p PROVE type # "add"
    BY <2>2 DEF MessagesInOrder, Queued
  <2> QED BY <1>1, <1>3, <1>8, <2>1, <2>2
<1>9. ASSUME NEW q \in Procs, NEW i \in DOMAIN queue',
             queue'[i].type = "completed", queue'[i].pid = q
      PROVE  Added(q)'
  <2>1. CASE i \in DOMAIN queue
    <3>1. Added(q)
      BY <1>3, <1>9, <2>1 DEF MessagesInOrder
    <3> QED BY <1>6, <3>1
  <2>2. CASE i = n
    <3>1. q = p /\ type = "completed"
      BY <1>1, <1>3, <1>9, <2>2
    <3> QED BY <1>6, <3>1
  <2> QED BY <1>3, <2>1, <2>2
<1> QED BY <1>6, <1>7, <1>8, <1>9 DEF MessagesInOrder, AddedSame

\* The message that is taken may add its sender.
LEMMA Received ==
  ASSUME Typed, MessagesInOrder, queue # <<>>, queue' = Tail(queue), NewSame
  PROVE  /\ MessagesInOrder'
         /\ Head(queue) \in Messages
         /\ \A q \in Procs : q = Head(queue).pid => Added(q)'
         /\ \A q \in Procs : Added(q) => Added(q)'
         /\ \A q \in Procs : Added(q)' =>
              \/ Added(q)
              \/ q = Head(queue).pid /\ Head(queue).type = "add"
<1> DEFINE m == Head(queue)
           n == Len(queue)
<1>0. queue \in Seq(Messages)
  BY DEF Typed, TypeOK
<1>1. /\ queue' \in Seq(Messages)
      /\ \A i \in 1 .. n - 1 : queue'[i] = queue[i + 1]
      /\ m = queue[1] /\ m \in Messages /\ 1 \in DOMAIN queue
  BY <1>0, HeadTaken
<1>2. n \in Nat /\ DOMAIN queue = 1 .. n /\ DOMAIN queue' = 1 .. n - 1
  BY <1>0, HeadTaken
<1> HIDE DEF m, n
<1>3. \A i \in DOMAIN queue' : i + 1 \in DOMAIN queue /\ i + 1 # 1
  BY <1>2
<1>4. \A k \in DOMAIN queue : k # 1 => k - 1 \in DOMAIN queue' /\ k = (k - 1) + 1
  BY <1>2
<1>5. \A i \in DOMAIN queue' : queue'[i] = queue[i + 1]
  BY <1>1, <1>2
<1>6. m.pid \in Procs /\ m.type \in {"add", "completed"}
  BY <1>1 DEF Messages
<1>7. \A i \in DOMAIN queue : queue[i] \in Messages
  BY <1>0
<1>8. ASSUME NEW q \in Procs, Added(q) PROVE Added(q)'
  BY <1>3, <1>5, <1>8 DEF Added, NewSame
<1>9. ASSUME NEW q \in Procs, Added(q)', ~ Added(q)
      PROVE  q = m.pid /\ m.type = "add"
  <2>1. PICK k \in DOMAIN queue : queue[k] = [type |-> "add", pid |-> q]
    BY <1>9 DEF Added, NewSame
  <2>2. k = 1
    <3>1. ASSUME k # 1 PROVE FALSE
      <4>1. k - 1 \in DOMAIN queue' /\ queue'[k - 1] = queue[k]
        BY <1>4, <1>5, <3>1
      <4> QED BY <1>9, <2>1, <4>1 DEF Added
    <3> QED BY <3>1
  <2> QED BY <1>1, <2>1, <2>2
<1>10. ASSUME NEW q \in Procs, q = m.pid PROVE Added(q)'
  <2>1. proc'[q] # "new"
    <3>1. Queued(q)
      BY <1>1, <1>10 DEF Queued
    <3> QED BY <3>1 DEF MessagesInOrder, NewSame
  <2>2. CASE m.type = "completed"
    <3>1. Added(q)
      BY <1>1, <1>10, <2>2 DEF MessagesInOrder
    <3> QED BY <1>8, <3>1
  <2>3. CASE m.type = "add"
    <3>1. ASSUME NEW i \in DOMAIN queue', queue'[i] = [type |-> "add", pid |-> q]
          PROVE  FALSE
      <4>1. /\ i + 1 \in DOMAIN queue /\ i + 1 # 1
            /\ queue[i + 1].type = "add" /\ queue[i + 1].pid = q
        BY <1>3, <1>5, <3>1
      <4> QED BY <1>1, <1>10, <2>3, <4>1 DEF MessagesInOrder
    <3> QED BY <2>1, <3>1 DEF Added
  <2> QED BY <1>6, <2>2, <2>3
<1>11. ASSUME NEW q \in Procs, proc'[q] = "new" PROVE ~ Queued(q)'
  BY <1>3, <1>5, <1>11 DEF MessagesInOrder, NewSame, Queued
<1>12. ASSUME NEW i \in DOMAIN queue', NEW j \in DOMAIN queue',
              queue'[i].type = "add", queue'[j].type = "add",
              queue'[i].pid = queue'[j].pid
       PROVE  i = j
  <2>1. i + 1 = j + 1
    BY <1>3, <1>5, <1>12 DEF MessagesInOrder
  <2> QED BY <1>2, <2>1
<1>13. ASSUME NEW q \in Procs, NEW i \in DOMAIN queue',
              queue'[i].type = "completed", queue'[i].pid = q
       PROVE  Added(q)'
  <2>1. queue'[i] = queue[i + 1] /\ i + 1 \in DOMAIN queue
    BY <1>3, <1>5
  <2>2. Added(q)
    BY <1>13, <2>1 DEF MessagesInOrder
  <2> QED BY <1>8, <2>2
<1>14. MessagesInOrder'
  BY <1>11, <1>12, <1>13 DEF MessagesInOrder
<1> QED BY <1>1, <1>8, <1>9, <1>10, <1>14 DEF m

LEMMA InitKnown == Init => Known
<1> SUFFICES ASSUME Init PROVE Known
  OBVIOUS
<1>1. DOMAIN queue = {} /\ DOMAIN ready = {} /\ next \notin Procs
  BY SchedulerAssumption DEF Init, SchedulerAssumption
<1>2. \A p \in Procs : ~ active[p] /\ signals[p] = {} /\ proc[p] \notin Started
  BY DEF Init, Started
<1> QED BY <1>1, <1>2 DEF Known, MessagesInOrder, Queued, InReady

LEMMA ProcessKnown ==
  ASSUME Typed, Known, NEW p \in Procs,
         \/ Announce(p) \/ Process(p)
         \/ \E s \in {"notify", "suspend"} : Handle(p, s)
  PROVE  Known' /\ AddedSame
<1>0. /\ MessagesInOrder
      /\ proc \in [Procs -> Stages] /\ active \in [Procs -> BOOLEAN]
      /\ signals \in [Procs -> SUBSET {"notify", "suspend"}]
  BY DEF Known, Typed, TypeOK
<1>1. ready' = ready /\ next' = next
  BY DEF Announce, Process, CheckActive, BeginPause, NoIO, RequestIO, StartIO,
         EndIO, End, Handle, schedVars
\* It is enough that what has changed is about a process that has been added.
<1>2. ASSUME MessagesInOrder', AddedSame,
             \A q \in Procs : active'[q] => Added(q),
             \A q \in Procs : signals'[q] # {} => Added(q),
             \A q \in Procs : proc'[q] \in Started => Added(q)
      PROVE  Known' /\ AddedSame
  <2>1. \A q \in Procs : InReady(q)' <=> InReady(q)
    BY <1>1 DEF InReady
  <2> QED BY <1>1, <1>2, <2>1 DEF Known, AddedSame
<1>3. CASE Announce(p)
  <2>1. proc' = [proc EXCEPT ![p] = "check"] /\ proc[p] = "new"
    BY <1>3 DEF Announce, Moves
  <2>2. MessagesInOrder' /\ AddedSame
    BY <1>0, <1>3, <2>1, Posted DEF Announce
  <2> QED BY <1>0, <1>2, <1>3, <2>1, <2>2
          DEF Announce, Known, Started, procVars
<1>4. CASE CheckActive(p) \/ BeginPause(p)
  <2>1. /\ queue' = queue /\ active' = active /\ signals' = signals
        /\ proc[p] # "new"
        /\ \/ proc' = [proc EXCEPT ![p] = "go"] /\ active[p]
           \/ proc' = [proc EXCEPT ![p] = "pausing"]
           \/ proc' = [proc EXCEPT ![p] = "paused"]
    BY <1>4 DEF CheckActive, BeginPause, Moves
  <2>2. NewSame
    BY <1>0, <2>1 DEF NewSame
  <2>3. MessagesInOrder' /\ AddedSame
    BY <1>0, <2>1, <2>2, NothingPosted
  <2> QED BY <1>0, <1>2, <2>1, <2>3 DEF Known, Started
\* Steps of one that has been added.
<1>5. ASSUME proc[p] \in Started, NEW place \in Stages \ {"new"},
             proc' = [proc EXCEPT ![p] = place],
             \/ queue' = queue
             \/ Post("completed", p),
             \A q \in Procs \ {p} : active'[q] = active[q],
             \A q \in Procs \ {p} : signals'[q] = signals[q]
      PROVE  Known' /\ AddedSame
  <2>1. Added(p)
    BY <1>5 DEF Known
  <2>2. NewSame
    BY <1>0, <1>5 DEF NewSame, Started
  <2>3. MessagesInOrder' /\ AddedSame
    <3>1. CASE queue' = queue
      BY <1>0, <2>2, <3>1, NothingPosted
    <3>2. CASE Post("completed", p)
      BY <1>0, <1>5, <2>1, <3>2, Posted
    <3> QED BY <1>5, <3>1, <3>2
  <2> QED BY <1>0, <1>2, <1>5, <2>1, <2>3 DEF Known
<1>6. CASE NoIO(p) \/ RequestIO(p) \/ StartIO(p) \/ EndIO(p) \/ End(p)
  <2>1. proc[p] \in Started
    BY <1>6 DEF NoIO, RequestIO, StartIO, EndIO, End, Moves, Started
  <2>2. \E place \in Stages \ {"new"} : proc' = [proc EXCEPT ![p] = place]
    BY <1>6 DEF NoIO, RequestIO, StartIO, EndIO, End, Moves, AfterRound, Stages
  <2>3. queue' = queue \/ Post("completed", p)
    BY <1>6 DEF NoIO, RequestIO, StartIO, EndIO, End
  <2>4. \A q \in Procs \ {p} : active'[q] = active[q]
    BY <1>0, <1>6 DEF NoIO, RequestIO, StartIO, EndIO, End
  <2>5. \A q \in Procs \ {p} : signals'[q] = signals[q]
    BY <1>0, <1>6 DEF NoIO, RequestIO, StartIO, EndIO, End
  <2> QED BY <1>5, <2>1, <2>2, <2>3, <2>4, <2>5
<1>7. ASSUME NEW s \in {"notify", "suspend"}, Handle(p, s)
      PROVE  Known' /\ AddedSame
  <2>1. Added(p)
    BY <1>7 DEF Handle, Known
  <2>2. NewSame
    BY <1>0, <1>7 DEF Handle, NewSame
  <2>3. MessagesInOrder' /\ AddedSame
    BY <1>0, <1>7, <2>2, NothingPosted DEF Handle
  <2>4. \A q \in Procs : active'[q] => Added(q)
    BY <1>0, <1>7, <2>1 DEF Handle, Known
  <2>5. \A q \in Procs : signals'[q] # {} => Added(q)
    BY <1>0, <1>7, <2>1 DEF Handle, Known
  <2>6. \A q \in Procs : proc'[q] \in Started => Added(q)
    BY <1>0, <1>7 DEF Handle, Known, Started
  <2> QED BY <1>2, <2>3, <2>4, <2>5, <2>6
<1> QED BY <1>3, <1>4, <1>6, <1>7 DEF Process

\* Steps of the scheduler that take no message.
LEMMA SchedKnown ==
  ASSUME Typed, Known, proc' = proc, active' = active, queue' = queue,
         \A q \in Procs : InReady(q)' => InReady(q) \/ q = next,
         \A q \in Procs : q = next' => InReady(q) \/ q = next,
         \A q \in Procs : signals'[q] # {} => signals[q] # {} \/ q = next
  PROVE  Known' /\ AddedSame
<1>1. MessagesInOrder' /\ AddedSame
  BY NothingPosted DEF Known, NewSame
<1>2. \A q \in Procs : InReady(q) \/ q = next => Added(q)
  BY DEF Known
<1>3. \A q \in Procs : InReady(q)' \/ q = next' => Added(q)'
  BY <1>1, <1>2 DEF AddedSame
<1>4. \A q \in Procs : signals'[q] # {} => Added(q)'
  BY <1>1, <1>2 DEF AddedSame, Known
<1> QED BY <1>1, <1>3, <1>4 DEF Known, AddedSame

LEMMA ReceiveKnown ==
  ASSUME Typed, Known, Receive
  PROVE  Known'
<1> DEFINE m == Head(queue)
           e == [pid |-> m.pid, state |-> "ready"]
<1>1. /\ queue # <<>> /\ queue' = Tail(queue) /\ ready' = Append(ready, e)
      /\ next' = next /\ proc' = proc /\ active' = active /\ signals' = signals
  BY DEF Receive, procVars
<1>2. /\ MessagesInOrder' /\ m \in Messages
      /\ \A q \in Procs : q = m.pid => Added(q)'
      /\ \A q \in Procs : Added(q) => Added(q)'
  BY <1>1, Received DEF Known, NewSame
<1>3. e \in Entries /\ e.pid = m.pid /\ ready \in Seq(Entries)
  BY <1>2 DEF Messages, Entries, States, Typed, TypeOK
<1> HIDE DEF m, e
<1>4. \A q \in Procs : InReady(q)' => InReady(q) \/ q = m.pid
  BY <1>1, <1>3, Appended DEF InReady
<1> QED BY <1>1, <1>2, <1>4 DEF Known

LEMMA StepKnown ==
  ASSUME Typed, Known, [Next]_vars
  PROVE  Known'
<1>0. ready \in Seq(Entries) /\ signals \in [Procs -> SUBSET {"notify", "suspend"}]
  BY DEF Typed, TypeOK
<1>1. CASE UNCHANGED vars
  <2>1. /\ proc' = proc /\ active' = active /\ queue' = queue
        /\ ready' = ready /\ next' = next /\ signals' = signals
    BY <1>1 DEF vars, schedVars, procVars
  <2> QED BY <2>1, SchedKnown DEF InReady
<1>2. CASE Clear \/ Count \/ PickNobody \/ Judge \/ TestTotal
  <2>1. /\ proc' = proc /\ active' = active /\ queue' = queue
        /\ ready' = ready /\ signals' = signals
        /\ next' = next \/ next' = Nobody
    BY <1>2 DEF Clear, Count, PickNobody, Judge, TestTotal, procVars
  <2> QED BY <2>1, SchedKnown, SchedulerAssumption
          DEF InReady, SchedulerAssumption
<1>3. CASE Receive
  BY <1>3, ReceiveKnown
<1>4. CASE Pick
  <2>1. PICK i \in DOMAIN ready : next' = ready[i].pid /\ ready' = RemoveAt(ready, i)
    BY <1>4 DEF Pick, Candidates
  <2>3. \A q \in Procs : InReady(q)' => InReady(q)
    <3>1. \E Old \in [DOMAIN RemoveAt(ready, i) -> DOMAIN ready] :
            \A k \in DOMAIN RemoveAt(ready, i) :
              RemoveAt(ready, i)[k] = ready[Old[k]]
      BY <1>0, Picked
    <3> QED BY <2>1, <3>1 DEF InReady
  <2> QED BY <1>4, <2>1, <2>3, SchedKnown DEF Pick, InReady, procVars
<1>5. CASE Start \/ Suspend
  <2>1. /\ proc' = proc /\ active' = active /\ queue' = queue
        /\ ready' = ready /\ next' = next
        /\ signals' = signals \/ \E s \in {"notify", "suspend"} : Kill(next, s)
    BY <1>5 DEF Start, Suspend, procVars
  <2>2. \A q \in Procs : signals'[q] # {} => signals[q] # {} \/ q = next
    BY <1>0, <2>1 DEF Kill
  <2> QED BY <2>1, <2>2, SchedKnown DEF InReady
<1>6. CASE PushBack
  <2>1. /\ proc' = proc /\ active' = active /\ queue' = queue
        /\ signals' = signals /\ next' = next
        /\ ready' = Append(ready, [pid |-> next, state |-> state])
        /\ sched = "push"
    BY <1>6 DEF PushBack, procVars, SchedMoves
  <2>2. [pid |-> next, state |-> state] \in Entries
    BY <2>1 DEF Entries, Typed, TypeOK, Turn
  <2>3. \A q \in Procs : InReady(q)' => InReady(q) \/ q = next
    BY <1>0, <2>1, <2>2, Appended DEF InReady
  <2> QED BY <2>1, <2>3, SchedKnown
<1>7. ASSUME NEW s \in Signals, Handler(s) PROVE Known' /\ AddedSame
  <2>1. /\ proc' = proc /\ active' = active /\ queue' = queue
        /\ signals' = signals /\ next' = next
    BY <1>7 DEF Handler, procVars
  <2>2. \A q \in Procs : InReady(q)' => InReady(q)
    <3>1. CASE ready' = ready
      BY <3>1 DEF InReady
    <3>2. ASSUME NEW i \in DOMAIN ready,
                 ready' = [ready EXCEPT ![i].state = state']
          PROVE  \A q \in Procs : InReady(q)' => InReady(q)
      <4>1. DOMAIN ready' = DOMAIN ready
        BY <1>0, <3>2
      <4>2. \A k \in DOMAIN ready : ready[k] \in Entries
        BY <1>0
      <4>3. \A k \in DOMAIN ready : ready'[k].pid = ready[k].pid
        <5>1. ready[i] \in Entries /\ [ready[i] EXCEPT !.state = state'].pid = ready[i].pid
          BY <4>2 DEF Entries
        <5>2. ready'[i] = [ready[i] EXCEPT !.state = state']
          BY <3>2
        <5>3. \A k \in DOMAIN ready : k # i => ready'[k] = ready[k]
          BY <3>2
        <5> QED BY <5>1, <5>2, <5>3
      <4> QED BY <4>1, <4>3 DEF InReady
    <3> QED BY <1>7, <3>1, <3>2 DEF Handler
  <2> QED BY <2>1, <2>2, SchedKnown
<1> QED BY <1>1, <1>2, <1>3, <1>4, <1>5, <1>6, <1>7, ProcessKnown
        DEF Next, Sched

-----------------------------------------------------------------------------
(* The count.                                                              *)

\* A termination that has not been handled is still in the count.
Counted ==
  /\ sched = "count" => sum > total
  /\ sched # "crashed" =>
       total >= Cardinality(Alive) + One(pending["terminate"] # {})
                  - One(sched = "count")
  /\ sched = "done" => Alive = {}

CountInv == Typed /\ Known /\ Counted

LEMMA AliveFinite == IsFiniteSet(Alive) /\ Cardinality(Alive) \in Nat
<1>1. IsFiniteSet(Procs) /\ Alive \subseteq Procs
  BY SchedulerAssumption DEF SchedulerAssumption, Alive
<1> QED BY <1>1, FS_Subset, FS_CardinalityType

LEMMA InitCounted == Init => Counted
<1> SUFFICES ASSUME Init PROVE Counted
  OBVIOUS
<1>1. Alive = {}
  BY DEF Init, Alive, Added
<1>2. Cardinality(Alive) = 0
  BY <1>1, FS_EmptySet
<1>3. pending["terminate"] = {} /\ total = 0 /\ sched = "top"
  BY DEF Init, Signals
<1> QED BY <1>2, <1>3 DEF Counted, One

\* Alive changes only with who has been added and who has ended.
LEMMA AliveSame ==
  ASSUME AddedSame, \A q \in Procs : proc'[q] = "ended" <=> proc[q] = "ended"
  PROVE  Alive' = Alive
  BY DEF AddedSame, Alive

\* Steps after which the scheduler is where it was, and the count is the same.
LEMMA ProcessCounted ==
  ASSUME CountInv, NEW p \in Procs,
         \/ Announce(p) \/ Process(p)
         \/ \E s \in {"notify", "suspend"} : Handle(p, s)
  PROVE  Counted'
<1>0. /\ Typed /\ Known /\ Counted /\ AddedSame
      /\ proc \in [Procs -> Stages] /\ pending \in [Signals -> SUBSET Procs]
  BY ProcessKnown DEF CountInv, Typed, TypeOK
<1>1. sched' = sched /\ total' = total /\ sum' = sum
  BY DEF Announce, Process, CheckActive, BeginPause, NoIO, RequestIO, StartIO,
         EndIO, End, Handle, schedVars
<1>2. CASE /\ \A q \in Procs : proc'[q] = "ended" <=> proc[q] = "ended"
           /\ pending'["terminate"] = pending["terminate"]
  <2>1. Alive' = Alive
    BY <1>0, <1>2, AliveSame
  <2> QED BY <1>0, <1>1, <1>2, <2>1 DEF Counted, One
<1>3. CASE ~ End(p)
  <2>1. pending'["terminate"] = pending["terminate"]
    BY <1>0, <1>3 DEF Announce, Process, CheckActive, BeginPause, NoIO,
       RequestIO, StartIO, EndIO, Handle, Raise, Signals
  <2>2. \A q \in Procs : proc'[q] = "ended" <=> proc[q] = "ended"
    BY <1>0, <1>3 DEF Announce, Process, CheckActive, BeginPause, NoIO,
       RequestIO, StartIO, EndIO, Handle, Moves, AfterRound
  <2> QED BY <1>2, <2>1, <2>2
<1>4. CASE End(p)
  <2>1. /\ proc[p] = "last" /\ proc' = [proc EXCEPT ![p] = "ended"]
        /\ Raise("terminate", p)
    BY <1>4 DEF End, Moves
  <2>2. p \in Alive
    BY <1>0, <2>1 DEF Alive, Known, Started
  <2>3. Alive' = Alive \ {p}
    BY <1>0, <2>1 DEF Alive, AddedSame
  <2>4. Cardinality(Alive') = Cardinality(Alive) - 1
    BY <2>2, <2>3, AliveFinite, FS_RemoveElement
  <2>5. One(pending'["terminate"] # {}) <= 1 /\ One(pending["terminate"] # {}) >= 0
    BY DEF One
  <2>6. One(pending'["terminate"] # {}) \in Int /\ One(pending["terminate"] # {}) \in Int
    BY DEF One
  <2>7. sched # "done"
    BY <1>0, <2>2 DEF Counted
  <2>8. One(sched = "count") \in Int /\ total \in Int /\ Cardinality(Alive) \in Int
    BY <1>0, AliveFinite DEF One, Typed, TypeOK
  <2> QED BY <1>0, <1>1, <2>4, <2>5, <2>6, <2>7, <2>8 DEF Counted
<1> QED BY <1>3, <1>4

LEMMA SchedCounted ==
  ASSUME CountInv, Sched
  PROVE  Counted'
<1>0. /\ Typed /\ Known /\ Counted /\ total \in Int /\ sum \in Int
      /\ Cardinality(Alive) \in Nat
      /\ pending \in [Signals -> SUBSET Procs]
  BY AliveFinite DEF CountInv, Typed, TypeOK
<1>1. pending' = pending /\ proc' = proc
  BY DEF Sched, Clear, Receive, Count, Pick, PickNobody, Start, Suspend, Judge,
         PushBack, TestTotal, procVars
<1>2. ASSUME queue' = queue PROVE Alive' = Alive
  BY <1>1, <1>2 DEF Alive, Added
<1>3. CASE Receive
  <2> DEFINE m == Head(queue)
  <2>1. /\ queue # <<>> /\ queue' = Tail(queue) /\ sched = "receive"
        /\ total' = total
        /\ sched' = IF m.type = "add" THEN "count" ELSE "receive"
        /\ sum' = IF m.type = "add" THEN total + 1 ELSE sum
    BY <1>3 DEF Receive, SchedMoves
  <2>2. /\ m \in Messages
        /\ \A q \in Procs : Added(q) => Added(q)'
        /\ \A q \in Procs : Added(q)' =>
             \/ Added(q)
             \/ q = m.pid /\ m.type = "add"
    <3>1. MessagesInOrder /\ NewSame /\ queue # <<>> /\ queue' = Tail(queue)
      BY <1>0, <1>1, <2>1 DEF Known, NewSame
    <3> QED BY <1>0, <3>1, Received
  <2> HIDE DEF m
  <2>3. CASE m.type = "add"
    <3>1. Alive' \subseteq Alive \cup {m.pid}
      BY <1>1, <2>2 DEF Alive
    <3>2. /\ IsFiniteSet(Alive \cup {m.pid})
          /\ Cardinality(Alive \cup {m.pid}) <= Cardinality(Alive) + 1
          /\ Cardinality(Alive \cup {m.pid}) \in Nat
      BY <1>0, AliveFinite, FS_AddElement
    <3>3. Cardinality(Alive') <= Cardinality(Alive) + 1 /\ Cardinality(Alive') \in Nat
      BY <1>0, <3>1, <3>2, FS_Subset, FS_CardinalityType
    <3>4. sched' = "count" /\ sum' = total + 1
      BY <2>1, <2>3
    <3>5. total >= Cardinality(Alive) + One(pending["terminate"] # {})
      BY <1>0, <2>1 DEF Counted, One
    <3> QED BY <1>0, <1>1, <2>1, <3>3, <3>4, <3>5 DEF Counted, One
  <2>4. CASE m.type # "add"
    <3>1. Alive' = Alive
      BY <1>1, <2>2, <2>4 DEF Alive
    <3>2. sched' = "receive"
      BY <2>1, <2>4
    <3> QED BY <1>0, <1>1, <2>1, <3>1, <3>2 DEF Counted, One
  <2> QED BY <2>3, <2>4
<1>4. CASE Count
  <2>1. Alive' = Alive
    BY <1>2, <1>4 DEF Count
  <2>2. sched = "count" /\ sched' = "receive" /\ total' = sum
    BY <1>4 DEF Count, SchedMoves
  <2> QED BY <1>0, <1>1, <2>1, <2>2 DEF Counted, One
<1>5. CASE TestTotal
  <2>1. Alive' = Alive
    BY <1>2, <1>5 DEF TestTotal
  <2>2. sched = "test" /\ total' = total /\ sched' = IF total > 0 THEN "top" ELSE "done"
    BY <1>5 DEF TestTotal
  <2>3. CASE total > 0
    BY <1>0, <1>1, <2>1, <2>2, <2>3 DEF Counted, One
  <2>4. CASE ~ (total > 0)
    <3>1. Cardinality(Alive) = 0
      BY <1>0, <2>2, <2>4 DEF Counted, One
    <3>2. Alive = {}
      BY <3>1, AliveFinite, FS_EmptySet
    <3> QED BY <1>0, <1>1, <2>1, <2>2, <2>4, <3>1, <3>2 DEF Counted, One
  <2> QED BY <2>3, <2>4
<1>6. CASE Clear \/ Pick \/ PickNobody \/ Start \/ Suspend \/ Judge \/ PushBack
  <2>1. queue' = queue /\ total' = total
    BY <1>6 DEF Clear, Pick, PickNobody, Start, Suspend, Judge, PushBack
  <2>2. sched \notin {"count", "done", "crashed"} /\ sched' \notin {"count", "done", "crashed"}
    BY <1>6 DEF Clear, Pick, PickNobody, Start, Suspend, Judge, PushBack,
       SchedMoves, Judging
  <2> QED BY <1>0, <1>1, <1>2, <2>1, <2>2 DEF Counted, One
<1> QED BY <1>3, <1>4, <1>5, <1>6 DEF Sched

LEMMA HandlerCounted ==
  ASSUME CountInv, NEW s \in Signals, Handler(s)
  PROVE  Counted'
<1>0. /\ Counted /\ total \in Int /\ sum \in Int /\ Cardinality(Alive) \in Nat
      /\ pending \in [Signals -> SUBSET Procs]
  BY AliveFinite DEF CountInv, Typed, TypeOK
<1>1. /\ pending[s] # {} /\ sched \notin {"done", "crashed"}
      /\ pending' = [pending EXCEPT ![s] = {}]
      /\ sum' = sum
  BY DEF Handler
<1>2. Alive' = Alive
  BY DEF Handler, Alive, Added, procVars
<1>3. CASE null
  BY <1>3 DEF Handler, Counted
<1>4. CASE ~ null
  <2>1. total' = IF s = "terminate" THEN total - 1 ELSE total
    BY <1>4 DEF Handler
  <2>2. sched' = sched \/ (sched = "receive" /\ sched' = "gave up")
    BY <1>4 DEF Handler
  <2>3. sched' \notin {"done", "crashed"} /\ (sched' = "count" <=> sched = "count")
    BY <1>1, <2>2
  <2>4. CASE s = "terminate"
    <3>1. pending'["terminate"] = {} /\ pending["terminate"] # {}
      BY <1>0, <1>1, <2>4 DEF Signals
    <3>2. total' = total - 1
      BY <2>1, <2>4
    <3> QED BY <1>0, <1>1, <1>2, <2>3, <3>1, <3>2 DEF Counted, One
  <2>5. CASE s # "terminate"
    <3>1. pending'["terminate"] = pending["terminate"]
      BY <1>0, <1>1, <2>5 DEF Signals
    <3>2. total' = total
      BY <2>1, <2>5
    <3> QED BY <1>0, <1>1, <1>2, <2>3, <3>1, <3>2 DEF Counted, One
  <2> QED BY <2>4, <2>5
<1> QED BY <1>3, <1>4

LEMMA StepCounted == CountInv /\ [Next]_vars => CountInv'
<1> SUFFICES ASSUME CountInv, [Next]_vars PROVE CountInv'
  OBVIOUS
<1>1. Typed' /\ Known'
  BY StepTyped, StepKnown DEF CountInv
<1>2. CASE UNCHANGED vars
  <2>1. Alive' = Alive /\ sched' = sched /\ total' = total /\ sum' = sum
        /\ pending' = pending
    BY <1>2 DEF vars, schedVars, procVars, Alive, Added
  <2> QED BY <1>1, <2>1 DEF CountInv, Counted
<1> QED BY <1>1, <1>2, ProcessCounted, SchedCounted, HandlerCounted
        DEF Next, CountInv

\* Whatever signals the scheduler takes for one or for another process's, it
\* ends after the processes it has added.
THEOREM SchedulerOutlives == Spec => []Outlives
<1>1. Init => CountInv
  BY InitTyped, InitKnown, InitCounted DEF CountInv
<1>2. CountInv => Outlives
  <2> SUFFICES ASSUME CountInv PROVE Outlives
    OBVIOUS
  <2>1. Counted /\ total \in Int /\ Cardinality(Alive) \in Nat
    BY AliveFinite DEF CountInv, Typed, TypeOK
  <2> QED BY <2>1 DEF Counted, Outlives, One
<1> QED BY <1>1, <1>2, StepCounted, PTL DEF Spec

-----------------------------------------------------------------------------
(* One place for each process, as long as signals are in time.             *)

\* Signals come in the turn of their sender, so that the handlers find next.
InTime ==
  /\ sched \notin {"gave up", "crashed"}
  /\ sched \in Turn => ~ null
  /\ \A s \in Signals : pending[s] # {} => sched \in {"run", "judge"}
  /\ \A s \in Signals : pending[s] \subseteq {next}
  /\ \A i \in DOMAIN ready : ready[i].state = "ready"
  /\ sched \in {"start", "push"} => state = "ready"
  /\ sched \in {"run", "judge"} => state # "ready"

ListsOnce ==
  /\ \A i, j \in DOMAIN ready : ready[i].pid = ready[j].pid => i = j
  /\ \A i, j \in DOMAIN queue : queue[i].pid = queue[j].pid => i = j

Held(p) == next = p /\ sched \in Turn
Alone(p) == ~ InHand(p) /\ ~ InReady(p) /\ ~ Queued(p)

\* One that does its I/O or has ended is in no list, and one whose message is
\* under way sleeps until it has been taken.
Placed(p) ==
  /\ InReady(p) => ~ Queued(p) /\ ~ Held(p)
  /\ Queued(p) => ~ InHand(p) /\ proc[p] \in {"check", "pausing", "paused"}
  /\ Alone(p) => proc[p] \in {"new", "asked", "io", "last", "ended"}
  /\ proc[p] \in {"asked", "io", "ended"} => Alone(p)
  /\ Queued(p) \/ proc[p] \in {"asked", "io"} => "notify" \notin signals[p]
  /\ Queued(p) \/ proc[p] = "io" => ~ active[p]

PlaceInv ==
  /\ Typed
  /\ Known
  /\ ~ late => InTime /\ ListsOnce /\ \A p \in Procs : Placed(p)

LEMMA InitPlaced == Init => PlaceInv
<1> SUFFICES ASSUME Init PROVE PlaceInv
  OBVIOUS
<1>1. Typed /\ Known
  BY InitTyped, InitKnown
<1>2. DOMAIN queue = {} /\ DOMAIN ready = {} /\ sched = "top"
  BY DEF Init
<1>3. \A s \in Signals : pending[s] = {}
  BY DEF Init
<1>4. \A p \in Procs : proc[p] = "new"
  BY DEF Init
<1>5. \A p \in Procs : ~ Queued(p) /\ ~ InReady(p)
  BY <1>2 DEF Queued, InReady
<1>6. InTime /\ ListsOnce
  BY <1>2, <1>3 DEF InTime, ListsOnce, Turn
<1>7. ASSUME NEW p \in Procs PROVE Placed(p)
  BY <1>4, <1>5 DEF Placed
<1> QED BY <1>1, <1>6, <1>7 DEF PlaceInv

\* A process about which nothing changes that matters.
LEMMA Unmoved ==
  ASSUME NEW q \in Procs, Placed(q),
         InReady(q)' <=> InReady(q),
         Queued(q)' <=> Queued(q),
         InHand(q)' <=> InHand(q),
         Held(q)' => Held(q) \/ ~ InReady(q),
         proc'[q] = proc[q],
         "notify" \in signals'[q] => "notify" \in signals[q],
         active'[q] => active[q]
  PROVE  Placed(q)'
  BY DEF Placed, Alone

LEMMA PostPlaced ==
  ASSUME Typed, ListsOnce, NEW p \in Procs, NEW type \in {"add", "completed"},
         Post(type, p), ~ Queued(p), ready' = ready
  PROVE  /\ ListsOnce'
         /\ \A q \in Procs : Queued(q)' <=> Queued(q) \/ q = p
<1> DEFINE m == [type |-> type, pid |-> p]
           n == Len(queue) + 1
<1>1. m \in Messages /\ m.pid = p
  BY DEF Messages
<1>2. queue \in Seq(Messages) /\ queue' = Append(queue, m)
  BY DEF Typed, TypeOK, Post
<1> HIDE DEF m
<1>3. /\ DOMAIN queue' = DOMAIN queue \cup {n}
      /\ n \notin DOMAIN queue
      /\ \A i \in DOMAIN queue : queue'[i] = queue[i]
      /\ queue'[n] = m
  BY <1>1, <1>2, Appended
<1> HIDE DEF n
<1>4. \A q \in Procs : Queued(q)' <=> Queued(q) \/ q = p
  BY <1>1, <1>3 DEF Queued
<1>5. ASSUME NEW i \in DOMAIN queue', NEW j \in DOMAIN queue',
             queue'[i].pid = queue'[j].pid
      PROVE  i = j
  BY <1>1, <1>3, <1>5 DEF ListsOnce, Queued
<1> QED BY <1>4, <1>5 DEF ListsOnce

\* In a step of p the others stay where they are.
LEMMA OthersPlaced ==
  ASSUME NEW p \in Procs, UNCHANGED schedVars,
         \A q \in Procs : Placed(q),
         \A q \in Procs \ {p} : Queued(q)' <=> Queued(q),
         \A q \in Procs \ {p}, s \in Signals :
           q \in pending'[s] <=> q \in pending[s],
         \A q \in Procs \ {p} :
           proc'[q] = proc[q] /\ signals'[q] = signals[q] /\ active'[q] = active[q]
  PROVE  \A q \in Procs \ {p} : Placed(q)'
<1> SUFFICES ASSUME NEW q \in Procs \ {p} PROVE Placed(q)'
  OBVIOUS
<1>1. /\ InReady(q)' <=> InReady(q)
      /\ InHand(q)' <=> InHand(q)
      /\ Held(q)' => Held(q)
  BY DEF schedVars, InReady, InHand, Held
<1> QED BY <1>1, Unmoved

\* Steps of p that neither post nor raise.
LEMMA QuietPlaced ==
  ASSUME PlaceInv, ~ late, NEW p \in Procs, UNCHANGED <<schedVars, queue, pending>>,
         \A q \in Procs \ {p} :
           proc'[q] = proc[q] /\ signals'[q] = signals[q] /\ active'[q] = active[q],
         Placed(p)'
  PROVE  InTime' /\ ListsOnce' /\ \A q \in Procs : Placed(q)'
<1>1. InTime' /\ ListsOnce'
  BY DEF PlaceInv, InTime, ListsOnce, schedVars
<1>2. \A q \in Procs : Queued(q)' <=> Queued(q)
  BY DEF Queued
<1>3. \A q \in Procs \ {p} : Placed(q)'
  BY <1>2, OthersPlaced DEF PlaceInv
<1> QED BY <1>1, <1>3

LEMMA QuietSame ==
  ASSUME NEW p \in Procs, UNCHANGED <<schedVars, queue, pending>>
  PROVE  /\ InReady(p)' <=> InReady(p)
         /\ Queued(p)' <=> Queued(p)
         /\ InHand(p)' <=> InHand(p)
         /\ Held(p)' <=> Held(p)
         /\ Alone(p)' <=> Alone(p)
  BY DEF schedVars, InReady, Queued, InHand, Held, Alone

LEMMA PostStepPlaced ==
  ASSUME PlaceInv, ~ late, NEW p \in Procs, NEW type \in {"add", "completed"},
         Post(type, p), UNCHANGED <<schedVars, pending>>,
         ~ Queued(p), ~ InReady(p), ~ InHand(p),
         proc'[p] = "check", "notify" \notin signals'[p], ~ active'[p],
         \A q \in Procs \ {p} :
           proc'[q] = proc[q] /\ signals'[q] = signals[q] /\ active'[q] = active[q]
  PROVE  InTime' /\ ListsOnce' /\ \A q \in Procs : Placed(q)'
<1>1. InTime'
  BY DEF PlaceInv, InTime, schedVars
<1>2. ListsOnce' /\ \A q \in Procs : Queued(q)' <=> Queued(q) \/ q = p
  BY PostPlaced DEF PlaceInv, schedVars
<1>3. \A q \in Procs \ {p} : Placed(q)'
  BY <1>2, OthersPlaced DEF PlaceInv
<1>4. ~ InReady(p)' /\ ~ InHand(p)' /\ Queued(p)'
  BY <1>2 DEF InReady, InHand, schedVars
<1>5. Placed(p)'
  BY <1>4 DEF Placed, Alone
<1> QED BY <1>1, <1>2, <1>3, <1>5

\* The sender of a signal in time is on its own from then on.
LEMMA RaisePlaced ==
  ASSUME PlaceInv, ~ late', NEW p \in Procs, NEW s \in Signals, Raise(s, p),
         UNCHANGED <<schedVars, queue, active>>,
         proc[p] \in {"go", "last"}, proc'[p] \in {"asked", "ended"},
         "notify" \notin signals'[p],
         \A q \in Procs \ {p} : proc'[q] = proc[q] /\ signals'[q] = signals[q]
  PROVE  InTime' /\ ListsOnce' /\ \A q \in Procs : Placed(q)'
<1>0. ~ late /\ next = p /\ sched \in {"run", "judge"}
  BY DEF Raise
<1>1. /\ InTime /\ ListsOnce /\ \A q \in Procs : Placed(q)
      /\ pending \in [Signals -> SUBSET Procs]
  BY <1>0 DEF PlaceInv, Typed, TypeOK
<1>2. /\ pending' = [pending EXCEPT ![s] = @ \cup {p}]
      /\ p \in pending'[s]
      /\ \A t \in Signals : pending'[t] \subseteq pending[t] \cup {p}
      /\ \A q \in Procs \ {p}, t \in Signals : q \in pending'[t] <=> q \in pending[t]
  BY <1>1 DEF Raise
<1>3. InTime'
  BY <1>0, <1>1, <1>2 DEF InTime, schedVars
<1>4. ListsOnce'
  BY <1>1 DEF ListsOnce, schedVars
<1>5. \A q \in Procs : (Queued(q)' <=> Queued(q)) /\ (InReady(q)' <=> InReady(q))
  BY DEF Queued, InReady, schedVars
<1>6. \A q \in Procs \ {p} : Placed(q)'
  BY <1>1, <1>2, <1>5, OthersPlaced
<1>7. ~ InReady(p) /\ ~ Queued(p)
  BY <1>0, <1>1 DEF Placed, Held, Turn
<1>8. ~ InHand(p)'
  BY <1>2 DEF InHand
<1>9. Placed(p)'
  BY <1>5, <1>7, <1>8 DEF Placed, Alone
<1> QED BY <1>3, <1>4, <1>6, <1>9

LEMMA ProcessPlaced ==
  ASSUME PlaceInv, ~ late', NEW p \in Procs,
         \/ Announce(p) \/ Process(p)
         \/ \E s \in {"notify", "suspend"} : Handle(p, s)
  PROVE  InTime' /\ ListsOnce' /\ \A q \in Procs : Placed(q)'
<1>0. ~ late
  BY DEF Announce, Process, CheckActive, BeginPause, NoIO, RequestIO, StartIO,
         EndIO, End, Handle, Raise
<1>00. /\ Typed /\ Known /\ Placed(p)
       /\ proc \in [Procs -> Stages] /\ active \in [Procs -> BOOLEAN]
       /\ signals \in [Procs -> SUBSET {"notify", "suspend"}]
       /\ left \in [Procs -> Nat]
  BY <1>0 DEF PlaceInv, Typed, TypeOK
<1>1. CASE Announce(p)
  <2>1. /\ proc[p] = "new" /\ proc' = [proc EXCEPT ![p] = "check"]
        /\ signals' = signals /\ active' = active /\ Post("add", p)
        /\ UNCHANGED <<schedVars, pending>>
    BY <1>1 DEF Announce, Moves
  <2>2. ~ Added(p)
    BY <2>1 DEF Added
  <2>3. ~ Queued(p) /\ ~ InReady(p) /\ ~ InHand(p)
    BY <1>00, <2>1, <2>2 DEF Known, MessagesInOrder, InHand
  <2>4. signals[p] = {} /\ ~ active[p]
    BY <1>00, <2>2 DEF Known
  <2> QED BY <1>0, <1>00, <2>1, <2>3, <2>4, PostStepPlaced
<1>2. CASE CheckActive(p)
  <2>1. /\ proc[p] = "check"
        /\ proc' = [proc EXCEPT ![p] = IF active[p] THEN "go" ELSE "pausing"]
        /\ UNCHANGED <<schedVars, queue, pending>>
        /\ signals' = signals /\ active' = active
    BY <1>2 DEF CheckActive, Moves
  <2>2. Placed(p)'
    BY <1>00, <2>1, QuietSame DEF Placed
  <2> QED BY <1>0, <1>00, <2>1, <2>2, QuietPlaced
<1>3. CASE BeginPause(p)
  <2>1. /\ proc[p] = "pausing" /\ proc' = [proc EXCEPT ![p] = "paused"]
        /\ UNCHANGED <<schedVars, queue, pending>>
        /\ signals' = signals /\ active' = active
    BY <1>3 DEF BeginPause, Moves
  <2>2. Placed(p)'
    BY <1>00, <2>1, QuietSame DEF Placed
  <2> QED BY <1>0, <1>00, <2>1, <2>2, QuietPlaced
<1>4. CASE NoIO(p)
  <2>1. /\ proc[p] = "go" /\ proc' = [proc EXCEPT ![p] = AfterRound(p)]
        /\ UNCHANGED <<schedVars, queue, pending>>
        /\ signals' = signals /\ active' = active
    BY <1>4 DEF NoIO, Moves
  <2>2. proc'[p] \in {"last", "check"}
    BY <1>00, <2>1 DEF AfterRound
  <2>3. Placed(p)'
    BY <1>00, <2>1, <2>2, QuietSame DEF Placed
  <2> QED BY <1>0, <1>00, <2>1, <2>3, QuietPlaced
<1>5. CASE RequestIO(p)
  <2>1. /\ proc[p] = "go" /\ proc' = [proc EXCEPT ![p] = "asked"]
        /\ Raise("io", p) /\ UNCHANGED <<schedVars, queue>>
        /\ signals' = signals /\ active' = active
    BY <1>5 DEF RequestIO, Moves
  <2>2. "notify" \notin signals[p]
    BY <2>1 DEF Raise
  <2> QED BY <1>00, <2>1, <2>2, RaisePlaced DEF Signals
<1>6. CASE StartIO(p)
  <2>1. /\ proc[p] = "asked" /\ proc' = [proc EXCEPT ![p] = "io"]
        /\ active' = [active EXCEPT ![p] = FALSE]
        /\ UNCHANGED <<schedVars, queue, pending>> /\ signals' = signals
    BY <1>6 DEF StartIO, Moves
  <2>2. Placed(p)'
    BY <1>00, <2>1, QuietSame DEF Placed, Alone
  <2> QED BY <1>0, <1>00, <2>1, <2>2, QuietPlaced
<1>7. CASE EndIO(p)
  <2>1. /\ proc[p] = "io" /\ proc' = [proc EXCEPT ![p] = AfterRound(p)]
        /\ IF left[p] > 1 THEN Post("completed", p) ELSE UNCHANGED queue
        /\ UNCHANGED <<schedVars, pending>>
        /\ signals' = signals /\ active' = active
    BY <1>7 DEF EndIO, Moves
  <2>2. Alone(p) /\ "notify" \notin signals[p] /\ ~ active[p]
    BY <1>00, <2>1 DEF Placed
  <2>3. left[p] \in Nat /\ left[p] > 0
    BY <1>00, <2>1 DEF Typed, RoundsLeft
  <2>4. CASE left[p] > 1
    <3>1. proc'[p] = "check" /\ Post("completed", p)
      BY <1>00, <2>1, <2>4 DEF AfterRound
    <3> QED BY <1>0, <1>00, <2>1, <2>2, <3>1, PostStepPlaced DEF Alone
  <2>5. CASE left[p] = 1
    <3>1. proc'[p] = "last" /\ queue' = queue
      BY <1>00, <2>1, <2>5 DEF AfterRound
    <3>2. Placed(p)'
      BY <1>00, <2>1, <2>2, <3>1, QuietSame DEF Placed
    <3> QED BY <1>0, <1>00, <2>1, <3>1, <3>2, QuietPlaced
  <2> QED BY <2>3, <2>4, <2>5
<1>8. CASE End(p)
  <2>1. /\ proc[p] = "last" /\ proc' = [proc EXCEPT ![p] = "ended"]
        /\ Raise("terminate", p) /\ UNCHANGED <<schedVars, queue>>
        /\ signals' = [signals EXCEPT ![p] = {}] /\ active' = active
    BY <1>8 DEF End, Moves
  <2> QED BY <1>00, <2>1, RaisePlaced DEF Signals
<1>9. ASSUME NEW s \in {"notify", "suspend"}, Handle(p, s)
      PROVE  InTime' /\ ListsOnce' /\ \A q \in Procs : Placed(q)'
  <2>1. /\ s \in signals[p]
        /\ signals' = [signals EXCEPT ![p] = @ \ {s}]
        /\ active' = [active EXCEPT ![p] = (s = "notify")]
        /\ proc' = IF proc[p] = "paused" THEN [proc EXCEPT ![p] = "check"] ELSE proc
        /\ UNCHANGED <<schedVars, queue, pending>>
    BY <1>9 DEF Handle
  <2>2. /\ signals'[p] = signals[p] \ {s}
        /\ active'[p] <=> s = "notify"
        /\ proc'[p] = IF proc[p] = "paused" THEN "check" ELSE proc[p]
    BY <1>00, <2>1
  <2>3. Placed(p)'
    BY <1>00, <2>1, <2>2, QuietSame DEF Placed
  <2>4. \A q \in Procs \ {p} :
          proc'[q] = proc[q] /\ signals'[q] = signals[q] /\ active'[q] = active[q]
    BY <1>00, <2>1
  <2> QED BY <1>0, <2>1, <2>3, <2>4, QuietPlaced
<1> QED BY <1>1, <1>2, <1>3, <1>4, <1>5, <1>6, <1>7, <1>8, <1>9 DEF Process

\* Steps of the scheduler that change no list.
LEMMA SchedPlaced ==
  ASSUME PlaceInv, ~ late, InTime',
         UNCHANGED <<ready, queue, procVars>>,
         \A q \in Procs : InHand(q)' <=> InHand(q),
         \A q \in Procs : Held(q)' => Held(q),
         \A q \in Procs :
           "notify" \in signals'[q] => "notify" \in signals[q] \/ InHand(q)
  PROVE  ListsOnce' /\ \A q \in Procs : Placed(q)'
<1>1. ListsOnce'
  BY DEF PlaceInv, ListsOnce
<1>2. ASSUME NEW q \in Procs PROVE Placed(q)'
  <2>1. Placed(q)
    BY DEF PlaceInv
  <2>2. /\ InReady(q)' <=> InReady(q)
        /\ Queued(q)' <=> Queued(q)
        /\ Alone(q)' <=> Alone(q)
        /\ proc'[q] = proc[q] /\ active'[q] = active[q]
    BY DEF InReady, Queued, Alone, procVars
  <2>3. CASE InHand(q)
    BY <2>1, <2>2, <2>3 DEF Placed, Alone
  <2>4. CASE ~ InHand(q)
    BY <2>1, <2>2, <2>4, Unmoved
  <2> QED BY <2>3, <2>4
<1> QED BY <1>1, <1>2

\* The message goes and its sender is ready.
LEMMA ReceivePlaced ==
  ASSUME PlaceInv, ~ late, Receive
  PROVE  InTime' /\ ListsOnce' /\ \A q \in Procs : Placed(q)'
<1> DEFINE m == Head(queue)
           e == [pid |-> m.pid, state |-> "ready"]
           n == Len(ready) + 1
           l == Len(queue)
<1>1. /\ queue # <<>> /\ queue' = Tail(queue) /\ ready' = Append(ready, e)
      /\ UNCHANGED <<next, state, null, pending, procVars, signals>>
      /\ sched = "receive" /\ sched' \in {"count", "receive"}
  BY DEF Receive, SchedMoves
<1>2. /\ InTime /\ ListsOnce /\ \A q \in Procs : Placed(q)
      /\ ready \in Seq(Entries) /\ queue \in Seq(Messages)
  BY DEF PlaceInv, Typed, TypeOK
<1>3. /\ \A i \in 1 .. l - 1 : queue'[i] = queue[i + 1]
      /\ queue' \in Seq(Messages)
      /\ m = queue[1] /\ m \in Messages /\ 1 \in DOMAIN queue
  BY <1>1, <1>2, HeadTaken
<1>4. l \in Nat /\ DOMAIN queue = 1 .. l /\ DOMAIN queue' = 1 .. l - 1
  BY <1>1, <1>2, HeadTaken
<1> HIDE DEF m, l
<1>5. m.pid \in Procs
  BY <1>3 DEF Messages
<1>6. e \in Entries /\ e.pid = m.pid /\ e.state = "ready"
  BY <1>5 DEF Entries, States
<1> HIDE DEF e
<1>7. /\ DOMAIN ready' = DOMAIN ready \cup {n} /\ n \notin DOMAIN ready
      /\ \A i \in DOMAIN ready : ready'[i] = ready[i]
      /\ ready'[n] = e
  BY <1>1, <1>2, <1>6, Appended
<1> HIDE DEF n
<1>8. /\ \A i \in DOMAIN queue' :
           i + 1 \in DOMAIN queue /\ i + 1 # 1 /\ queue'[i] = queue[i + 1]
      /\ \A k \in DOMAIN queue :
           k # 1 => k - 1 \in DOMAIN queue' /\ queue'[k - 1] = queue[k]
  <2>1. \A i \in DOMAIN queue' : i + 1 \in DOMAIN queue /\ i + 1 # 1
    BY <1>4
  <2>2. \A k \in DOMAIN queue :
          k # 1 => k - 1 \in DOMAIN queue' /\ k = (k - 1) + 1
    BY <1>4
  <2> QED BY <1>3, <1>4, <2>1, <2>2
<1>9. \A q \in Procs : InReady(q)' <=> InReady(q) \/ q = m.pid
  BY <1>6, <1>7 DEF InReady
<1>10. Queued(m.pid)
  BY <1>3 DEF Queued
<1>11. \A q \in Procs : q = m.pid => ~ Queued(q)'
  BY <1>2, <1>3, <1>8 DEF Queued, ListsOnce
<1>12. \A q \in Procs : q # m.pid => (Queued(q)' <=> Queued(q))
  BY <1>3, <1>8 DEF Queued
<1>13. \A q \in Procs : ~ InHand(q) /\ ~ InHand(q)' /\ ~ Held(q)'
  BY <1>1 DEF InHand, Held, Turn
<1>14. InTime'
  BY <1>1, <1>2, <1>6, <1>7 DEF InTime, Turn
<1>15. ListsOnce'
  <2>1. ~ InReady(m.pid)
    BY <1>2, <1>5, <1>10 DEF Placed
  <2>2. ASSUME NEW i \in DOMAIN ready', NEW j \in DOMAIN ready',
               ready'[i].pid = ready'[j].pid
        PROVE  i = j
    BY <1>2, <1>6, <1>7, <2>1, <2>2 DEF ListsOnce, InReady
  <2>3. ASSUME NEW i \in DOMAIN queue', NEW j \in DOMAIN queue',
               queue'[i].pid = queue'[j].pid
        PROVE  i = j
    <3>1. i + 1 = j + 1
      BY <1>2, <1>8, <2>3 DEF ListsOnce
    <3> QED BY <1>4, <3>1
  <2> QED BY <2>2, <2>3 DEF ListsOnce
<1>16. ASSUME NEW q \in Procs PROVE Placed(q)'
  <2>1. CASE q # m.pid
    <3>1. /\ InReady(q)' <=> InReady(q)
          /\ Queued(q)' <=> Queued(q)
          /\ ~ InHand(q) /\ ~ InHand(q)' /\ ~ Held(q)'
      BY <1>9, <1>12, <1>13, <2>1
    <3>2. /\ proc'[q] = proc[q] /\ signals'[q] = signals[q]
          /\ active'[q] = active[q] /\ Placed(q)
      BY <1>1, <1>2 DEF procVars
    <3> QED BY <3>1, <3>2, Unmoved
  <2>2. CASE q = m.pid
    <3>1. InReady(q)' /\ ~ Queued(q)' /\ ~ Held(q)'
      BY <1>9, <1>11, <1>13, <2>2
    <3>2. proc[q] \in {"check", "pausing", "paused"} /\ proc'[q] = proc[q]
      BY <1>1, <1>2, <1>10, <2>2 DEF Placed, procVars
    <3> QED BY <3>1, <3>2 DEF Placed, Alone
  <2> QED BY <2>1, <2>2
<1> QED BY <1>14, <1>15, <1>16

\* An entry goes and its process is in hand.
LEMMA PickPlaced ==
  ASSUME PlaceInv, ~ late, Pick
  PROVE  InTime' /\ ListsOnce' /\ \A q \in Procs : Placed(q)'
<1>1. /\ UNCHANGED <<pending, queue, procVars, signals>>
      /\ sched = "receive" /\ sched' = "start" /\ null' = FALSE
  BY DEF Pick, SchedMoves
<1>2. PICK k \in DOMAIN ready : /\ next' = ready[k].pid
                                /\ state' = ready[k].state
                                /\ ready' = RemoveAt(ready, k)
  BY DEF Pick, Candidates
<1>3. /\ InTime /\ ListsOnce /\ \A q \in Procs : Placed(q)
      /\ ready \in Seq(Entries)
  BY DEF PlaceInv, Typed, TypeOK
<1>4. PICK Old \in [DOMAIN RemoveAt(ready, k) -> DOMAIN ready] :
        /\ \A i \in DOMAIN RemoveAt(ready, k) :
             RemoveAt(ready, k)[i] = ready[Old[i]] /\ Old[i] # k
        /\ \A i, j \in DOMAIN RemoveAt(ready, k) : Old[i] = Old[j] => i = j
        /\ \A j \in DOMAIN ready :
             j # k => \E i \in DOMAIN RemoveAt(ready, k) : Old[i] = j
  BY <1>3, Picked
<1>5. /\ \A i \in DOMAIN ready' : /\ Old[i] \in DOMAIN ready
                                  /\ ready'[i] = ready[Old[i]]
                                  /\ Old[i] # k
      /\ \A i, j \in DOMAIN ready' : Old[i] = Old[j] => i = j
      /\ \A j \in DOMAIN ready :
           j # k => \E i \in DOMAIN ready' : Old[i] = j
  BY <1>2, <1>4
<1>6. next' \in Procs
  <2>1. ready[k] \in Entries
    BY <1>3
  <2> QED BY <1>2, <2>1 DEF Entries
<1>7. \A q \in Procs : q # next' => (InReady(q)' <=> InReady(q))
  BY <1>2, <1>5 DEF InReady
<1>8. InReady(next')
  BY <1>2 DEF InReady
<1>9. \A q \in Procs : q = next' => ~ InReady(q)'
  BY <1>2, <1>3, <1>5 DEF InReady, ListsOnce
<1>10. \A s \in Signals : pending[s] = {} /\ pending'[s] = {}
  BY <1>1, <1>3 DEF InTime
<1>11. state' = "ready"
  BY <1>2, <1>3 DEF InTime
<1>12. InTime'
  BY <1>1, <1>3, <1>5, <1>10, <1>11 DEF InTime, Turn
<1>13. ListsOnce'
  BY <1>1, <1>3, <1>5 DEF ListsOnce
<1>14. \A q \in Procs : Queued(q)' <=> Queued(q)
  BY <1>1 DEF Queued
<1>15. ASSUME NEW q \in Procs PROVE Placed(q)'
  <2>1. CASE q # next'
    <3>1. ~ InHand(q) /\ ~ InHand(q)' /\ ~ Held(q)'
      BY <1>1, <2>1 DEF InHand, Held
    <3> QED BY <1>1, <1>3, <1>7, <1>14, <2>1, <3>1, Unmoved DEF procVars
  <2>2. CASE q = next'
    <3>1. InHand(q)'
      BY <1>1, <1>10, <1>11, <2>2 DEF InHand
    <3>2. ~ Queued(q) /\ ~ Alone(q) /\ proc'[q] = proc[q]
      BY <1>1, <1>3, <1>8, <2>2 DEF Placed, Alone, procVars
    <3> QED BY <1>3, <1>9, <1>14, <2>2, <3>1, <3>2 DEF Placed, Alone
  <2> QED BY <2>1, <2>2
<1> QED BY <1>12, <1>13, <1>15

\* The process in hand goes to the end of the ready queue.
LEMMA PushPlaced ==
  ASSUME PlaceInv, ~ late, PushBack
  PROVE  InTime' /\ ListsOnce' /\ \A q \in Procs : Placed(q)'
<1> DEFINE e == [pid |-> next, state |-> state]
           n == Len(ready) + 1
<1>1. /\ UNCHANGED <<next, state, null, pending, queue, procVars, signals>>
      /\ sched = "push" /\ sched' = "test" /\ ready' = Append(ready, e)
  BY DEF PushBack, SchedMoves
<1>2. /\ InTime /\ ListsOnce /\ \A q \in Procs : Placed(q)
      /\ ready \in Seq(Entries) /\ next \in Procs /\ state \in States
  BY <1>1 DEF PlaceInv, Typed, TypeOK, Turn
<1>3. e \in Entries /\ e.pid = next /\ e.state = "ready"
  BY <1>1, <1>2 DEF Entries, InTime
<1> HIDE DEF e
<1>4. /\ DOMAIN ready' = DOMAIN ready \cup {n} /\ n \notin DOMAIN ready
      /\ \A i \in DOMAIN ready : ready'[i] = ready[i]
      /\ ready'[n] = e
  BY <1>1, <1>2, <1>3, Appended
<1> HIDE DEF n
<1>5. \A q \in Procs : InReady(q)' <=> InReady(q) \/ q = next
  BY <1>3, <1>4 DEF InReady
<1>6. ~ InReady(next) /\ Held(next)
  BY <1>1, <1>2 DEF Placed, Held, Turn
<1>7. InTime'
  BY <1>1, <1>2, <1>3, <1>4 DEF InTime, Turn
<1>8. ListsOnce'
  BY <1>1, <1>2, <1>3, <1>4, <1>6 DEF ListsOnce, InReady
<1>9. \A s \in Signals : pending[s] = {}
  BY <1>1, <1>2 DEF InTime
<1>10. InHand(next)
  BY <1>1, <1>2, <1>9 DEF InHand, InTime
<1>11. \A q \in Procs : (Queued(q)' <=> Queued(q)) /\ ~ InHand(q)' /\ ~ Held(q)'
  BY <1>1 DEF Queued, InHand, Held, Turn
<1>12. ASSUME NEW q \in Procs PROVE Placed(q)'
  <2>1. CASE q # next
    <3>1. ~ InHand(q)
      BY <2>1 DEF InHand
    <3> QED BY <1>1, <1>2, <1>5, <1>11, <2>1, <3>1, Unmoved DEF procVars
  <2>2. CASE q = next
    <3>1. InReady(q)' /\ ~ Queued(q) /\ ~ Alone(q) /\ proc'[q] = proc[q]
      BY <1>1, <1>2, <1>5, <1>10, <2>2 DEF Placed, Alone, procVars
    <3> QED BY <1>2, <1>11, <3>1 DEF Placed, Alone
  <2> QED BY <2>1, <2>2
<1> QED BY <1>7, <1>8, <1>12

LEMMA SchedulerPlaced ==
  ASSUME PlaceInv, ~ late', Sched
  PROVE  InTime' /\ ListsOnce' /\ \A q \in Procs : Placed(q)'
<1>0. ~ late
  BY DEF Sched, Clear, Receive, Count, Pick, PickNobody, Start, Suspend, Judge,
         PushBack, TestTotal
<1>1. /\ InTime /\ signals \in [Procs -> SUBSET {"notify", "suspend"}]
      /\ sched \in Turn => next \in Procs
      /\ state \in States
  BY <1>0 DEF PlaceInv, Typed, TypeOK
<1>2. CASE Receive
  BY <1>0, <1>2, ReceivePlaced
<1>3. CASE Pick
  BY <1>0, <1>3, PickPlaced
<1>4. CASE PushBack
  BY <1>0, <1>4, PushPlaced
<1>5. CASE PickNobody
  BY <1>1, <1>5 DEF PickNobody, SchedMoves, InTime
<1>6. CASE Clear \/ Count \/ TestTotal
  <2>1. /\ UNCHANGED <<ready, queue, procVars, signals, pending, state, null>>
        /\ sched \notin Turn
        /\ sched' \notin Turn \cup {"gave up", "crashed"}
    BY <1>6 DEF Clear, Count, TestTotal, SchedMoves, Turn
  <2>2. \A s \in Signals : pending[s] = {}
    BY <1>1, <2>1 DEF InTime, Turn
  <2>3. InTime'
    BY <1>1, <2>1, <2>2 DEF InTime, Turn
  <2>4. \A q \in Procs : ~ InHand(q) /\ ~ InHand(q)' /\ ~ Held(q)'
    BY <2>1 DEF InHand, Held, Turn
  <2> QED BY <1>0, <2>1, <2>3, <2>4, SchedPlaced
<1>7. CASE Start
  <2>1. /\ sched = "start" /\ state = "ready"
        /\ sched' = "run" /\ state' = "running" /\ Kill(next, "notify")
        /\ UNCHANGED <<ready, next, null, queue, procVars, pending>>
    BY <1>1, <1>7 DEF Start, InTime
  <2>2. \A s \in Signals : pending[s] = {}
    BY <1>1, <2>1 DEF InTime
  <2>3. InTime'
    BY <1>1, <2>1, <2>2 DEF InTime, Turn
  <2>4. \A q \in Procs : InHand(q)' <=> InHand(q)
    BY <2>1 DEF InHand
  <2>5. \A q \in Procs : Held(q)' => Held(q)
    BY <2>1 DEF Held, Turn
  <2>6. InHand(next)
    BY <2>1, <2>2 DEF InHand
  <2>7. \A q \in Procs : q # next => signals'[q] = signals[q]
    BY <1>1, <2>1 DEF Kill
  <2>8. ASSUME NEW q \in Procs, "notify" \in signals'[q]
        PROVE  "notify" \in signals[q] \/ InHand(q)
    BY <2>6, <2>7, <2>8
  <2> QED BY <1>0, <2>1, <2>3, <2>4, <2>5, <2>8, SchedPlaced
<1>8. CASE Suspend
  <2>1. /\ sched = "run" /\ sched' = "judge" /\ Kill(next, "suspend")
        /\ UNCHANGED <<ready, next, state, null, queue, procVars, pending>>
    BY <1>8 DEF Suspend, SchedMoves
  <2>2. InTime'
    BY <1>1, <2>1 DEF InTime, Turn
  <2>3. \A q \in Procs : InHand(q)' <=> InHand(q)
    BY <2>1 DEF InHand
  <2>4. \A q \in Procs : Held(q)' => Held(q)
    BY <2>1 DEF Held, Turn
  <2>5. \A q \in Procs : "notify" \in signals'[q] => "notify" \in signals[q]
    BY <1>1, <2>1 DEF Kill
  <2> QED BY <1>0, <2>1, <2>2, <2>3, <2>4, <2>5, SchedPlaced
<1>9. CASE Judge
  <2>1. /\ sched \in {"run", "judge"}
        /\ \/ state = "running" /\ state' = "ready" /\ sched' = "push"
           \/ state # "running" /\ state' = state /\ sched' = "test"
        /\ UNCHANGED <<ready, next, null, queue, procVars, pending, signals>>
        /\ \A s \in Signals : pending[s] = {}
    BY <1>9 DEF Judge, Judging
  <2>2. InTime'
    BY <1>1, <2>1 DEF InTime, Turn
  <2>3. \A q \in Procs : InHand(q)' <=> InHand(q)
    BY <1>1, <2>1 DEF InHand, InTime
  <2>4. \A q \in Procs : Held(q)' => Held(q)
    BY <2>1 DEF Held, Turn
  <2> QED BY <1>0, <2>1, <2>2, <2>3, <2>4, SchedPlaced
<1> QED BY <1>2, <1>3, <1>4, <1>5, <1>6, <1>7, <1>8, <1>9 DEF Sched

\* The signal is one of next, which is not in hand any more.
LEMMA HandlerPlaced ==
  ASSUME PlaceInv, ~ late', NEW s \in Signals, Handler(s)
  PROVE  InTime' /\ ListsOnce' /\ \A q \in Procs : Placed(q)'
<1>0. ~ late
  BY DEF Handler
<1>1. /\ InTime /\ pending \in [Signals -> SUBSET Procs]
      /\ sched \in Turn => next \in Procs
  BY <1>0 DEF PlaceInv, Typed, TypeOK
<1>2. pending[s] # {} /\ pending' = [pending EXCEPT ![s] = {}]
  BY DEF Handler
<1>3. sched \in {"run", "judge"} /\ ~ null /\ next \in Procs
  BY <1>1, <1>2 DEF InTime, Turn
<1>4. next # Nobody
  BY <1>3, SchedulerAssumption DEF SchedulerAssumption
<1>5. /\ sched' = sched /\ state' \in {"waiting", "terminated"}
      /\ UNCHANGED <<ready, next, null, queue, procVars, signals>>
  BY <1>3, <1>4 DEF Handler
<1>6. next \in pending[s]
  BY <1>1, <1>2 DEF InTime
<1>7. \A q \in Procs : ~ InHand(q) /\ ~ InHand(q)'
  BY <1>5, <1>6 DEF InHand
<1>8. \A q \in Procs : Held(q)' => Held(q)
  BY <1>5 DEF Held
<1>9. \A t \in Signals : pending'[t] \subseteq pending[t]
  BY <1>1, <1>2
<1>10. InTime'
  BY <1>1, <1>3, <1>5, <1>9 DEF InTime
<1> QED BY <1>0, <1>5, <1>7, <1>8, <1>10, SchedPlaced

LEMMA StepPlaced == PlaceInv /\ [Next]_vars => PlaceInv'
<1> SUFFICES ASSUME PlaceInv, [Next]_vars PROVE PlaceInv'
  OBVIOUS
<1>1. Typed' /\ Known'
  BY StepTyped, StepKnown DEF PlaceInv
<1>2. CASE UNCHANGED vars
  <2>1. ~ late' => InTime' /\ ListsOnce' /\ \A p \in Procs : Placed(p)'
    BY <1>2 DEF PlaceInv, vars, schedVars, procVars, InTime, ListsOnce, Placed,
       Alone, InHand, InReady, Queued, Held
  <2> QED BY <1>1, <2>1 DEF PlaceInv
<1>3. CASE Next
  <2>1. ASSUME ~ late'
        PROVE  InTime' /\ ListsOnce' /\ \A p \in Procs : Placed(p)'
    BY <1>3, <2>1, ProcessPlaced, SchedulerPlaced, HandlerPlaced DEF Next
  <2> QED BY <1>1, <2>1 DEF PlaceInv
<1> QED BY <1>2, <1>3

LEMMA ReadyOnce ==
  ASSUME ListsOnce, NEW p \in Procs
  PROVE  TimesReady(p) = One(InReady(p))
<1> DEFINE A == {i \in DOMAIN ready : ready[i].pid = p}
<1>1. CASE InReady(p)
  <2>1. PICK i \in DOMAIN ready : ready[i].pid = p
    BY <1>1 DEF InReady
  <2>2. A = {i}
    BY <2>1 DEF ListsOnce
  <2> QED BY <1>1, <2>2, FS_Singleton DEF TimesReady, One
<1>2. CASE ~ InReady(p)
  <2>1. A = {}
    BY <1>2 DEF InReady
  <2> QED BY <1>2, <2>1, FS_EmptySet DEF TimesReady, One
<1> QED BY <1>1, <1>2

\* As long as signals are in time the handlers find next, and each process that
\* has announced itself is in one place.
THEOREM ProcessInOnePlace == Spec => []InOnePlace
<1>1. PlaceInv => InOnePlace
  <2> SUFFICES ASSUME PlaceInv, ~ late PROVE InOnePlace
    BY DEF InOnePlace
  <2>1. InTime /\ ListsOnce /\ \A p \in Procs : Placed(p)
    BY DEF PlaceInv
  <2>2. ASSUME NEW p \in Procs, proc[p] # "new"
        PROVE  TimesReady(p) + One(InHand(p)) + One(Queued(p)) + One(OnItsOwn(p)) = 1
    <3>1. TimesReady(p) = One(InReady(p))
      BY <2>1, ReadyOnce
    <3>2. InHand(p) => Held(p)
      BY DEF InHand, Held, Turn
    <3>3. Alone(p) <=> OnItsOwn(p)
      BY <2>1, <2>2, <3>1 DEF Placed, Alone, OnItsOwn, One
    <3> QED BY <2>1, <3>1, <3>2, <3>3 DEF Placed, Alone, One
  <2> QED BY <2>1, <2>2 DEF InOnePlace, InTime
<1> QED BY <1>1, InitPlaced, StepPlaced, PTL DEF Spec

=============================================================================
