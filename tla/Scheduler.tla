------------------------------ MODULE Scheduler ------------------------------
(***************************************************************************)
(* os_lab/assignment4: a scheduler (sched.cpp) lets processes              *)
(* (process.cpp) run in turn, round robin or by priority.  It wakes one    *)
(* with a signal NOTIFY and stops it with SUSPEND; the process answers     *)
(* with the signals IO and TERMINATE, and says with messages that it is    *)
(* new or has completed its I/O.  Signals do not carry a sender: the       *)
(* scheduler takes each for one of the process it has last chosen.         *)
(*                                                                         *)
(* Quanta, sleeps and measured times are left out: a quantum may end at    *)
(* any moment.  So are wait_q, which nothing reads, and prio_q_exp.        *)
(***************************************************************************)
EXTENDS Integers, FiniteSets, SequencesExt

CONSTANTS
  Procs,        \* the processes that gen will start
  Nobody,       \* next: NULL or freed
  Iterations,   \* itr of each process
  Algo,         \* "RR" or "PR"
  Priority      \* prio of each process

ASSUME SchedulerAssumption ==
  /\ Nobody \notin Procs
  /\ IsFiniteSet(Procs)
  /\ Iterations \in [Procs -> Nat \ {0}]
  /\ Algo \in {"RR", "PR"}
  /\ Priority \in [Procs -> Nat]

VARIABLES
  sched,      \* where the scheduler is
  ready,      \* ready_q or prio_q_act: entries with pid and state
  next,       \* next->pid
  state,      \* next->state
  null,       \* next is NULL
  flag,       \* IO_flag or terminated_flag
  total,      \* total_proc
  sum,        \* total_proc + 1 on its way back to memory
  pending,    \* signals to the scheduler, the senders of each
  queue,      \* the message queue
  proc,       \* proc[p]: where process p is
  left,       \* left[p]: iterations to go
  active,     \* active[p]
  signals,    \* signals[p]: pending for p
  late        \* history: a signal has come outside the turn of its sender

schedVars == <<sched, ready, next, state, null, flag, total, sum>>
procVars == <<proc, left, active>>
vars == <<schedVars, pending, queue, procVars, signals, late>>

Signals == {"io", "terminate"}

Init ==
  /\ sched = "top"
  /\ ready = <<>>
  /\ next = Nobody
  /\ state = "ready"
  /\ null = TRUE
  /\ flag = FALSE
  /\ total = 0
  /\ sum = 0
  /\ pending = [s \in Signals |-> {}]
  /\ queue = <<>>
  /\ proc = [p \in Procs |-> "new"]
  /\ left = Iterations
  /\ active = [p \in Procs |-> FALSE]
  /\ signals = [p \in Procs |-> {}]
  /\ late = FALSE

-----------------------------------------------------------------------------
(* A process.  The operators called Bad... are plausible errors in the     *)
(* definition after them, which break a property; nothing else uses them.  *)

Moves(p, from, to) ==
  /\ proc[p] = from
  /\ proc' = [proc EXCEPT ![p] = to]

Post(type, p) == queue' = Append(queue, [type |-> type, pid |-> p])

\* A signal that is already pending is not queued again: the set only says who
\* has sent it.  It is late when the scheduler has gone on, or has begun another
\* turn of p, of which p has not been told yet.
Raise(s, p) ==
  /\ pending' = [pending EXCEPT ![s] = @ \cup {p}]
  /\ late' = \/ late
             \/ ~ (next = p /\ sched \in {"run", "judge"})
             \/ "notify" \in signals[p]

Announce(p) ==
  /\ Moves(p, "new", "check")
  /\ Post("add", p)
  /\ UNCHANGED <<schedVars, pending, left, active, signals, late>>

\* while(!active) pause();
CheckActive(p) ==
  /\ Moves(p, "check", IF active[p] THEN "go" ELSE "pausing")
  /\ UNCHANGED <<schedVars, pending, queue, left, active, signals, late>>

BeginPause(p) ==
  /\ Moves(p, "pausing", "paused")
  /\ UNCHANGED <<schedVars, pending, queue, left, active, signals, late>>

AfterRound(p) == IF left[p] = 1 THEN "last" ELSE "check"

NoIO(p) ==
  /\ Moves(p, "go", AfterRound(p))
  /\ left' = [left EXCEPT ![p] = @ - 1]
  /\ UNCHANGED <<schedVars, pending, queue, active, signals, late>>

RequestIO(p) ==
  /\ Moves(p, "go", "asked")
  /\ Raise("io", p)
  /\ UNCHANGED <<schedVars, queue, left, active, signals>>

StartIO(p) ==
  /\ Moves(p, "asked", "io")
  /\ active' = [active EXCEPT ![p] = FALSE]
  /\ UNCHANGED <<schedVars, pending, queue, left, signals, late>>

\* After the last round nobody is told.
EndIO(p) ==
  /\ Moves(p, "io", AfterRound(p))
  /\ left' = [left EXCEPT ![p] = @ - 1]
  /\ IF left[p] > 1 THEN Post("completed", p) ELSE UNCHANGED queue
  /\ UNCHANGED <<schedVars, pending, active, signals, late>>

End(p) ==
  /\ Moves(p, "last", "ended")
  /\ Raise("terminate", p)
  /\ signals' = [signals EXCEPT ![p] = {}]
  /\ UNCHANGED <<schedVars, queue, left, active>>

\* A handler that does not end pause().
BadHandle(p, s) ==
  /\ s \in signals[p]
  /\ signals' = [signals EXCEPT ![p] = @ \ {s}]
  /\ active' = [active EXCEPT ![p] = (s = "notify")]
  /\ UNCHANGED <<schedVars, pending, queue, proc, left, late>>

\* notifyHandler and suspendHandler, in any order if both are pending.
Handle(p, s) ==
  /\ s \in signals[p]
  /\ signals' = [signals EXCEPT ![p] = @ \ {s}]
  /\ active' = [active EXCEPT ![p] = (s = "notify")]
  /\ proc' = IF proc[p] = "paused" THEN [proc EXCEPT ![p] = "check"] ELSE proc
  /\ UNCHANGED <<schedVars, pending, queue, left, late>>

-----------------------------------------------------------------------------
(* The scheduler.                                                          *)

SchedMoves(from, to) ==
  /\ sched = from
  /\ sched' = to

\* kill() does nothing to a process that has ended.
Kill(p, s) ==
  signals' = [signals EXCEPT ![p] = IF proc[p] = "ended" THEN @ ELSE @ \cup {s}]

Clear ==
  /\ SchedMoves("top", "receive")
  /\ flag' = FALSE
  /\ UNCHANGED <<ready, next, state, null, total, sum, pending, queue,
                 procVars, signals, late>>

\* A message: the process becomes ready; a new one is counted, which takes a
\* read and a write of total_proc.
Receive ==
  LET m == Head(queue)
  IN  /\ queue # <<>>
      /\ SchedMoves("receive", IF m.type = "add" THEN "count" ELSE "receive")
      /\ queue' = Tail(queue)
      /\ ready' = Append(ready, [pid |-> m.pid, state |-> "ready"])
      /\ sum' = IF m.type = "add" THEN total + 1 ELSE sum
      /\ UNCHANGED <<next, state, null, flag, total, pending, procVars,
                     signals, late>>

\* Only the first is counted.
BadCount ==
  /\ SchedMoves("count", "receive")
  /\ total' = IF total = 0 THEN 1 ELSE total
  /\ sum' = 0
  /\ UNCHANGED <<ready, next, state, null, flag, pending, queue, procVars,
                 signals, late>>

Count ==
  /\ SchedMoves("count", "receive")
  /\ total' = sum
  /\ sum' = 0
  /\ UNCHANGED <<ready, next, state, null, flag, pending, queue, procVars,
                 signals, late>>

\* round_robin() and prio_round_robin().
Candidates ==
  IF Algo = "RR" THEN DOMAIN ready \cap {1}
  ELSE {i \in DOMAIN ready :
          \A j \in DOMAIN ready :
            Priority[ready[j].pid] <= Priority[ready[i].pid]}

\* With IPC_NOWAIT, once something is ready.
Pick ==
  /\ SchedMoves("receive", "start")
  /\ queue = <<>>
  /\ \E i \in Candidates : /\ next' = ready[i].pid
                           /\ state' = ready[i].state
                           /\ ready' = RemoveAt(ready, i)
  /\ null' = FALSE
  /\ UNCHANGED <<flag, total, sum, pending, queue, procVars, signals, late>>

PickNobody ==
  /\ SchedMoves("gave up", "test")
  /\ next' = Nobody
  /\ null' = TRUE
  /\ UNCHANGED <<ready, state, flag, total, sum, pending, queue, procVars,
                 signals, late>>

Start ==
  /\ sched = "start"
  /\ IF state = "ready"
     THEN /\ sched' = "run"
          /\ state' = "running"
          /\ Kill(next, "notify")
     ELSE /\ sched' = "test"
          /\ UNCHANGED <<state, signals>>
  /\ UNCHANGED <<ready, next, null, flag, total, sum, pending, queue,
                 procVars, late>>

\* The quantum is over without a signal.
Suspend ==
  /\ SchedMoves("run", "judge")
  /\ ~ flag
  /\ Kill(next, "suspend")
  /\ UNCHANGED <<ready, next, state, null, flag, total, sum, pending, queue,
                 procVars, late>>

Judging == sched = "judge" \/ (sched = "run" /\ flag)

\* Also a process that waits or has ended.
BadJudge ==
  /\ Judging
  /\ state' = "ready"
  /\ sched' = "push"
  /\ late' = (late \/ \E s \in Signals : pending[s] # {})
  /\ UNCHANGED <<ready, next, null, flag, total, sum, pending, queue,
                 procVars, signals>>

Judge ==
  /\ Judging
  /\ IF state = "running"
     THEN state' = "ready" /\ sched' = "push"
     ELSE state' = state /\ sched' = "test"
  /\ late' = (late \/ \E s \in Signals : pending[s] # {})
  /\ UNCHANGED <<ready, next, null, flag, total, sum, pending, queue,
                 procVars, signals>>

PushBack ==
  /\ SchedMoves("push", "test")
  /\ ready' = Append(ready, [pid |-> next, state |-> state])
  /\ UNCHANGED <<next, state, null, flag, total, sum, pending, queue,
                 procVars, signals, late>>

\* free(next), and the test of the loop.
TestTotal ==
  /\ sched = "test"
  /\ sched' = IF total > 0 THEN "top" ELSE "done"
  /\ next' = Nobody
  /\ UNCHANGED <<ready, state, null, flag, total, sum, pending, queue,
                 procVars, signals, late>>

\* handle_IO and handle_termination, at any moment.  They write to *next:
\* with NULL the scheduler crashes; freed memory may be in nobody's use, or in
\* the heap of prio_q_act.  A msgrcv that waits gives up; one that is about to
\* wait does not.
Handler(s) ==
  /\ pending[s] # {}
  /\ sched \notin {"done", "crashed"}
  /\ pending' = [pending EXCEPT ![s] = {}]
  /\ IF null
     THEN /\ sched' = "crashed"
          /\ UNCHANGED <<state, flag, total>>
     ELSE /\ state' = IF s = "io" THEN "waiting" ELSE "terminated"
          /\ flag' = TRUE
          /\ total' = IF s = "terminate" THEN total - 1 ELSE total
          /\ \/ sched' = sched
             \/ /\ sched = "receive" /\ queue = <<>> /\ ready = <<>>
                /\ sched' = "gave up"
  /\ \/ UNCHANGED ready
     \/ /\ next = Nobody /\ ~ null /\ Algo = "PR"
        /\ \E i \in DOMAIN ready : ready' = [ready EXCEPT ![i].state = state']
  /\ UNCHANGED <<next, null, sum, queue, procVars, signals, late>>

-----------------------------------------------------------------------------
Process(p) ==
  \/ CheckActive(p) \/ BeginPause(p) \/ NoIO(p) \/ RequestIO(p) \/ StartIO(p)
  \/ EndIO(p) \/ End(p)

Sched ==
  \/ Clear \/ Receive \/ Count \/ Pick \/ PickNobody \/ Start \/ Suspend
  \/ Judge \/ PushBack \/ TestTotal

Next ==
  \/ \E p \in Procs : Announce(p) \/ Process(p)
  \/ \E p \in Procs, s \in {"notify", "suspend"} : Handle(p, s)
  \/ Sched
  \/ \E s \in Signals : Handler(s)

Spec == Init /\ [][Next]_vars

\* A quantum is at least 100 ms, as long as the sleep of a process in a round:
\* before a process is notified it has handled earlier signals and, if it had
\* passed the test of active, has asked for its I/O; before its quantum ends it
\* has handled NOTIFY and tested active.  And it sends its signals in its turn.
Prompt ==
  /\ ~ late'
  /\ sched = "start" /\ sched' = "run" =>
       signals[next] = {} /\ proc[next] \notin {"go", "asked"}
  /\ sched = "run" /\ sched' = "judge" =>
       signals[next] = {} /\ proc[next] \notin {"check", "pausing"}

\* All processes keep running and signals arrive.  A NOTIFY that comes between
\* the test of active and pause() is lost; that does not happen every time.
LiveSpec ==
  /\ Init
  /\ [][Next /\ Prompt]_vars
  /\ WF_vars(Sched)
  /\ \A s \in Signals : WF_vars(Handler(s))
  /\ \A p \in Procs :
       /\ WF_vars(Process(p))
       /\ \A s \in {"notify", "suspend"} : WF_vars(Handle(p, s))
       /\ SF_vars(signals[p] = {} /\ CheckActive(p))
       /\ SF_vars(signals[p] = {} /\ ~ active[p] /\ BeginPause(p))

-----------------------------------------------------------------------------
(* Properties.                                                             *)

Places == {"top", "receive", "count", "gave up", "start", "run", "judge",
           "push", "test", "done", "crashed"}
States == {"ready", "running", "waiting", "terminated"}
Entries == [pid : Procs, state : States]
Messages == [type : {"add", "completed"}, pid : Procs]
Stages == {"new", "check", "pausing", "paused", "go", "asked", "io", "last",
           "ended"}

\* Every variable keeps the values its declaration in the code allows.
TypeOK ==
  /\ sched \in Places
  /\ ready \in Seq(Entries)
  /\ next \in Procs \cup {Nobody}
  /\ state \in States
  /\ null \in BOOLEAN
  /\ flag \in BOOLEAN
  /\ total \in Int
  /\ sum \in Int
  /\ pending \in [Signals -> SUBSET Procs]
  /\ queue \in Seq(Messages)
  /\ proc \in [Procs -> Stages]
  /\ left \in [Procs -> Nat]
  /\ active \in [Procs -> BOOLEAN]
  /\ signals \in [Procs -> SUBSET {"notify", "suspend"}]
  /\ late \in BOOLEAN

Queued(p) == \E i \in DOMAIN queue : queue[i].pid = p
Added(p) ==
  /\ proc[p] # "new"
  /\ ~ \E i \in DOMAIN queue : queue[i] = [type |-> "add", pid |-> p]

\* Signals of the scheduler may be merged, late, or come between the read and
\* the write of total_proc, and a process may be taken for another one: still
\* the scheduler does not stop before every process it has added has ended, but
\* by a crash.
One(b) == IF b THEN 1 ELSE 0
Alive == {p \in Procs : Added(p) /\ proc[p] # "ended"}

Outlives ==
  /\ sched = "done" => Alive = {}
  /\ sched # "crashed" => total >= Cardinality(Alive) - One(sched = "count")

\* As long as signals are in time the handlers find next, and each process is in
\* one place: in the ready queue, chosen, announced by a message, or doing its I/O.
InHand(p) ==
  /\ next = p
  /\ sched \in {"start", "run", "judge", "push"}
  /\ state \in {"ready", "running"}
  /\ \A s \in Signals : p \notin pending[s]
TimesReady(p) == Cardinality({i \in DOMAIN ready : ready[i].pid = p})
OnItsOwn(p) ==
  /\ proc[p] \in {"asked", "io", "last", "ended"}
  /\ ~ InHand(p)
  /\ TimesReady(p) = 0
  /\ ~ Queued(p)

InOnePlace ==
  ~ late =>
    /\ sched # "crashed"
    /\ \A p \in Procs : proc[p] # "new" =>
         TimesReady(p) + One(InHand(p)) + One(Queued(p)) + One(OnItsOwn(p)) = 1

\* With time to handle signals every process that has announced itself to a
\* running scheduler ends, though a NOTIFY that comes between the test of active
\* and pause() costs it a turn.
AllEnd == \A p \in Procs : proc[p] # "new" ~> proc[p] = "ended" \/ sched = "done"

=============================================================================
