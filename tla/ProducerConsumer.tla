-------------------------- MODULE ProducerConsumer --------------------------
(***************************************************************************)
(* os_lab/assignment5/question1: producers (producer.c) and consumers      *)
(* (consumer.c) share two message queues, each under a semaphore q_lock.   *)
(* A consumer that wants both queues takes the second lock while it holds  *)
(* the first.  What each worker waits for and holds is also written to     *)
(* matrix.txt under mat_lock.  The manager (manager.c) looks there for a   *)
(* cycle; having found one it removes the queues and ends the workers one  *)
(* after the other, adding up the counts that are their exit codes.        *)
(*                                                                         *)
(* A queue is its length; values, messages' types and sleeps are left out. *)
(* Init is manager.c at line 112, the workers at the head of their loops.  *)
(***************************************************************************)
EXTENDS Integers, FiniteSets

CONSTANTS
  Producers, Consumers,   \* the ids of the workers
  Order,          \* the workers in the order in which the manager ends them
  QSize,          \* Q_SIZE
  ExitModulus,    \* an exit code keeps its low bits: 256
  MaxCount        \* bound: a worker that has counted this many stays idle

Workers == Producers \cup Consumers
Queues == {0, 1}

ASSUME PCAssumption ==
  /\ Producers \cap Consumers = {}
  /\ IsFiniteSet(Workers) /\ Workers # {}
  /\ Order \in [1 .. Cardinality(Workers) -> Workers]
  /\ \A w \in Workers : \E i \in DOMAIN Order : Order[i] = w
  /\ QSize \in Nat \ {0}
  /\ ExitModulus \in Nat \ {0}
  /\ MaxCount \in Nat

NONE == 0
WAIT == 1
LOCK == 2

VARIABLES
  avoid,       \* the second argument: a consumer of both starts with 0
  stage,       \* stage[w]: what worker w is doing in its loop
  turn,        \* turn[w]: with its first queue or with its second, queue_p
  first,       \* first[w]: queue
  both,        \* both[w]: bothQueues
  seen,        \* seen[w]: buf.msg_qnum
  count,       \* count[w]: num_inserts or num_consumes
  status,      \* status[w]: of the process
  step,        \* step[w]: where it is inside an update of the file
  copy,        \* copy[w]: the arrays of updateMatrix
  file,        \* matrix.txt
  matLock,     \* semaphore mat_lock
  qLock,       \* semaphores q_lock_0, q_lock_1
  qnum,        \* messages in each queue
  removed,     \* the queues have been removed
  manager,     \* where the manager is
  found,       \* checkCycle's answer
  victim,      \* index in Order of the worker the manager ends
  total        \* total[k]: total_inserts, total_consumes

fileVars == <<step, copy, file, matLock>>
planVars == <<turn, first, both>>
managerVars == <<removed, manager, found, victim, total>>
vars == <<avoid, stage, turn, first, both, seen, count, status, step, copy,
          file, matLock, qLock, qnum, removed, manager, found, victim, total>>

Marking == {"ask", "have", "clear"}
Stages == Marking \cup {"idle", "wait", "stat", "use", "post"}
Kinds == {"inserts", "consumes"}
Blank == [w \in Workers |-> [q \in Queues |-> NONE]]

Init ==
  /\ avoid \in BOOLEAN
  /\ stage = [w \in Workers |-> "idle"]
  /\ turn = [w \in Workers |-> 1]
  /\ first = [w \in Workers |-> 0]
  /\ both = [w \in Workers |-> FALSE]
  /\ seen = [w \in Workers |-> 0]
  /\ count = [w \in Workers |-> 0]
  /\ status = [w \in Workers |-> "running"]
  /\ step = [w \in Workers |-> "out"]
  /\ copy = [w \in Workers |-> Blank]
  /\ file = Blank
  /\ matLock = 1
  /\ qLock = [q \in Queues |-> 1]
  /\ qnum = [q \in Queues |-> 0]
  /\ removed = FALSE
  /\ manager = "sleep"
  /\ found = FALSE
  /\ victim = 1
  /\ total = [k \in Kinds |-> 0]

\* A worker that has been sent SIGUSR1 runs until its handler does.
Alive(w) == status[w] \in {"running", "signalled"}
At(w, s) == Alive(w) /\ stage[w] = s

\* The queue a worker is dealing with: queue, then queue_p = 1 - queue.
Queue(w) == IF turn[w] = 1 THEN first[w] ELSE 1 - first[w]

-----------------------------------------------------------------------------
(* The loop of a worker.  A producer has no second queue.  The operators   *)
(* called Bad... are plausible errors in the definition after them, which  *)
(* break a property; nothing else uses them.                               *)

BadChoose(w) ==
  /\ At(w, "idle")
  /\ count[w] < MaxCount
  /\ \E q \in Queues, b \in BOOLEAN :
       /\ w \in Producers => ~ b
       /\ first' = [first EXCEPT ![w] = q]
       /\ both' = [both EXCEPT ![w] = b]
  /\ stage' = [stage EXCEPT ![w] = "ask"]
  /\ UNCHANGED <<turn, seen, count, status, fileVars, qLock, qnum,
                 managerVars>>

Choose(w) ==
  /\ At(w, "idle")
  /\ count[w] < MaxCount
  /\ \E q \in Queues, b \in BOOLEAN :
       /\ w \in Producers => ~ b
       /\ b /\ avoid => q = 0
       /\ first' = [first EXCEPT ![w] = q]
       /\ both' = [both EXCEPT ![w] = b]
  /\ stage' = [stage EXCEPT ![w] = "ask"]
  /\ UNCHANGED <<turn, seen, count, status, fileVars, qLock, qnum,
                 managerVars>>

\* sem_wait(mat_lock), updateMatrix in two steps, sem_post(mat_lock).
BadLockMatrix(w) ==
  /\ Alive(w)
  /\ stage[w] \in Marking
  /\ step[w] = "out"
  /\ step' = [step EXCEPT ![w] = "locked"]
  /\ UNCHANGED <<stage, planVars, seen, count, status, copy, file, matLock,
                 qLock, qnum, managerVars>>

LockMatrix(w) ==
  /\ Alive(w)
  /\ stage[w] \in Marking
  /\ step[w] = "out"
  /\ matLock > 0
  /\ matLock' = matLock - 1
  /\ step' = [step EXCEPT ![w] = "locked"]
  /\ UNCHANGED <<stage, planVars, seen, count, status, copy, file, qLock,
                 qnum, managerVars>>

ReadMatrix(w) ==
  /\ Alive(w)
  /\ step[w] = "locked"
  /\ copy' = [copy EXCEPT ![w] = file]
  /\ step' = [step EXCEPT ![w] = "read"]
  /\ UNCHANGED <<stage, planVars, seen, count, status, file, matLock, qLock,
                 qnum, managerVars>>

MarkState(w) ==
  IF stage[w] = "ask" THEN WAIT ELSE IF stage[w] = "have" THEN LOCK ELSE NONE

WriteMatrix(w) ==
  /\ Alive(w)
  /\ step[w] = "read"
  /\ file' = [copy[w] EXCEPT ![w][Queue(w)] = MarkState(w)]
  /\ copy' = [copy EXCEPT ![w] = Blank]
  /\ step' = [step EXCEPT ![w] = "written"]
  /\ UNCHANGED <<stage, planVars, seen, count, status, matLock, qLock, qnum,
                 managerVars>>

AfterMark == [ask |-> "wait", have |-> "stat", clear |-> "post"]

UnlockMatrix(w) ==
  /\ Alive(w)
  /\ step[w] = "written"
  /\ matLock' = matLock + 1
  /\ step' = [step EXCEPT ![w] = "out"]
  /\ stage' = [stage EXCEPT ![w] = AfterMark[stage[w]]]
  /\ UNCHANGED <<planVars, seen, count, status, copy, file, qLock, qnum,
                 managerVars>>

BadWaitQueue(w) ==
  /\ At(w, "wait")
  /\ stage' = [stage EXCEPT ![w] = "have"]
  /\ UNCHANGED <<planVars, seen, count, status, fileVars, qLock, qnum,
                 managerVars>>

WaitQueue(w) ==
  /\ At(w, "wait")
  /\ qLock[Queue(w)] > 0
  /\ qLock' = [qLock EXCEPT ![Queue(w)] = @ - 1]
  /\ stage' = [stage EXCEPT ![w] = "have"]
  /\ UNCHANGED <<planVars, seen, count, status, fileVars, qnum, managerVars>>

\* msgctl(IPC_STAT).  Of a queue that is gone buf keeps what it had, which
\* may be anything.
Stat(w) ==
  /\ At(w, "stat")
  /\ \E n \in 0 .. QSize :
       /\ ~ removed => n = qnum[Queue(w)]
       /\ seen' = [seen EXCEPT ![w] = n]
  /\ stage' = [stage EXCEPT ![w] = "use"]
  /\ UNCHANGED <<planVars, count, status, fileVars, qLock, qnum, managerVars>>

\* To the second queue, or back to give up the first.
AfterUse(w) ==
  IF turn[w] = 1 /\ both[w]
  THEN /\ turn' = [turn EXCEPT ![w] = 2]
       /\ stage' = [stage EXCEPT ![w] = "ask"]
  ELSE /\ turn' = [turn EXCEPT ![w] = 1]
       /\ stage' = [stage EXCEPT ![w] = "clear"]

\* A failed msgsnd is counted like one that worked.
Insert(w) ==
  /\ w \in Producers
  /\ At(w, "use")
  /\ IF seen[w] >= QSize
     THEN UNCHANGED <<qnum, count>>
     ELSE /\ count' = [count EXCEPT ![w] = @ + 1]
          /\ qnum' = IF removed THEN qnum
                     ELSE [qnum EXCEPT ![Queue(w)] = @ + 1]
  /\ AfterUse(w)
  /\ seen' = [seen EXCEPT ![w] = 0]
  /\ UNCHANGED <<first, both, status, fileVars, qLock, managerVars>>

\* msgrcv with IPC_NOWAIT fails when the queue is empty or gone, and the
\* consumer ends with exit code 0.
Consume(w) ==
  /\ w \in Consumers
  /\ At(w, "use")
  /\ LET fails == seen[w] # 0 /\ (removed \/ qnum[Queue(w)] = 0)
         takes == seen[w] # 0 /\ ~ fails
     IN  /\ IF takes
            THEN /\ qnum' = [qnum EXCEPT ![Queue(w)] = @ - 1]
                 /\ count' = [count EXCEPT ![w] = @ + 1]
            ELSE UNCHANGED <<qnum, count>>
         /\ IF fails
            THEN status' = [status EXCEPT ![w] = "failed"]
                 /\ UNCHANGED <<turn, stage>>
            ELSE AfterUse(w) /\ UNCHANGED status
  /\ seen' = [seen EXCEPT ![w] = 0]
  /\ UNCHANGED <<first, both, fileVars, qLock, managerVars>>

\* The first queue is given up first, then the second.
PostQueue(w) ==
  /\ At(w, "post")
  /\ qLock' = [qLock EXCEPT ![Queue(w)] = @ + 1]
  /\ IF turn[w] = 1 /\ both[w]
     THEN /\ turn' = [turn EXCEPT ![w] = 2]
          /\ stage' = [stage EXCEPT ![w] = "clear"]
     ELSE /\ turn' = [turn EXCEPT ![w] = 1]
          /\ stage' = [stage EXCEPT ![w] = "idle"]
  /\ UNCHANGED <<first, both, seen, count, status, fileVars, qnum,
                 managerVars>>

\* terminateHandler: exit() gives no semaphore back.
Terminate(w) ==
  /\ status[w] = "signalled"
  /\ status' = [status EXCEPT ![w] = "exited"]
  /\ UNCHANGED <<stage, planVars, seen, count, fileVars, qLock, qnum,
                 managerVars>>

-----------------------------------------------------------------------------
(* The manager.                                                            *)

WaitsAndHolds(m, w, q) == m[w][q] = WAIT /\ m[w][1 - q] = LOCK

BadCheckCycle(m) ==
  \E q \in Queues : \E w \in Consumers : WaitsAndHolds(m, w, q)
BadOneRow(m) ==
  \E w \in Consumers : \A q \in Queues : WaitsAndHolds(m, w, q)

CheckCycle(m) ==
  \A q \in Queues : \E w \in Consumers : WaitsAndHolds(m, w, q)

ManagerMoves(from, to) ==
  /\ manager = from
  /\ manager' = to

ManagerLock ==
  /\ \/ ManagerMoves("sleep", "read")
     \/ ManagerMoves("ended", "print")
  /\ matLock > 0
  /\ matLock' = matLock - 1
  /\ UNCHANGED <<stage, planVars, seen, count, status, step, copy, file,
                 qLock, qnum, removed, found, victim, total>>

ManagerRead ==
  /\ ManagerMoves("read", "unlock")
  /\ found' = CheckCycle(file)
  /\ UNCHANGED <<stage, planVars, seen, count, status, fileVars, qLock, qnum,
                 removed, victim, total>>

ManagerUnlock ==
  /\ \/ ManagerMoves("unlock", "judge")
     \/ ManagerMoves("print", "done")
  /\ matLock' = matLock + 1
  /\ UNCHANGED <<stage, planVars, seen, count, status, step, copy, file,
                 qLock, qnum, removed, found, victim, total>>

NoDeadlock ==
  /\ ManagerMoves("judge", "sleep")
  /\ ~ found
  /\ UNCHANGED <<stage, planVars, seen, count, status, fileVars, qLock, qnum,
                 removed, found, victim, total>>

\* "Deadlock detected!": the queues go with what is in them.
RemoveQueues ==
  /\ ManagerMoves("judge", "kill")
  /\ found
  /\ removed' = TRUE
  /\ UNCHANGED <<stage, planVars, seen, count, status, fileVars, qLock, qnum,
                 found, victim, total>>

\* kill() of a worker, dead or alive.
Kill ==
  /\ ManagerMoves("kill", "reap")
  /\ status' = [status EXCEPT ![Order[victim]] =
                  IF @ = "running" THEN "signalled" ELSE @]
  /\ UNCHANGED <<stage, planVars, seen, count, fileVars, qLock, qnum,
                 removed, found, victim, total>>

\* waitpid() and WEXITSTATUS: the low bits of the count.
BadReap ==
  LET w == Order[victim]
      k == IF w \in Producers THEN "inserts" ELSE "consumes"
  IN  /\ total' = [total EXCEPT ![k] = @ + (count[w] % ExitModulus)]
      /\ ManagerMoves("reap", IF victim < Cardinality(Workers) - 1
                              THEN "kill" ELSE "ended")
      /\ victim' = victim + 1
      /\ UNCHANGED <<stage, planVars, seen, count, status, fileVars, qLock,
                     qnum, removed, found>>
Reap ==
  LET w == Order[victim]
      k == IF w \in Producers THEN "inserts" ELSE "consumes"
      code == IF status[w] = "exited" THEN count[w] % ExitModulus ELSE 0
  IN  /\ ~ Alive(w)
      /\ total' = [total EXCEPT ![k] = @ + code]
      /\ ManagerMoves("reap", IF victim < Cardinality(Workers)
                              THEN "kill" ELSE "ended")
      /\ victim' = IF victim < Cardinality(Workers) THEN victim + 1
                   ELSE victim
      /\ UNCHANGED <<stage, planVars, seen, count, status, fileVars, qLock,
                     qnum, removed, found>>

-----------------------------------------------------------------------------
Worker(w) ==
  /\ \/ Choose(w) \/ LockMatrix(w) \/ ReadMatrix(w) \/ WriteMatrix(w)
     \/ UnlockMatrix(w) \/ WaitQueue(w) \/ Stat(w) \/ Insert(w) \/ Consume(w)
     \/ PostQueue(w) \/ Terminate(w)
  /\ UNCHANGED avoid

Manager ==
  /\ \/ ManagerLock \/ ManagerRead \/ ManagerUnlock \/ NoDeadlock
     \/ RemoveQueues \/ Kill \/ Reap
  /\ UNCHANGED avoid

Next == (\E w \in Workers : Worker(w)) \/ Manager

Spec == Init /\ [][Next]_vars

\* Processes keep running.
LiveSpec == Spec /\ WF_vars(Manager) /\ \A w \in Workers : WF_vars(Worker(w))

-----------------------------------------------------------------------------
(* Properties.                                                             *)

\* Every variable keeps the values its declaration in the code allows; avoid, which
\* no action changes, is left out.
TypeOK ==
  /\ stage \in [Workers -> Stages]
  /\ turn \in [Workers -> 1 .. 2]
  /\ first \in [Workers -> Queues]
  /\ both \in [Workers -> BOOLEAN]
  /\ seen \in [Workers -> 0 .. QSize]
  /\ count \in [Workers -> Nat]
  /\ status \in [Workers -> {"running", "signalled", "exited", "failed"}]
  /\ step \in [Workers -> {"out", "locked", "read", "written"}]
  /\ copy \in [Workers -> [Workers -> [Queues -> {NONE, WAIT, LOCK}]]]
  /\ file \in [Workers -> [Queues -> {NONE, WAIT, LOCK}]]
  /\ matLock \in 0 .. 1
  /\ qLock \in [Queues -> 0 .. 1]
  /\ qnum \in [Queues -> Nat]
  /\ removed \in BOOLEAN
  /\ manager \in {"sleep", "read", "unlock", "judge", "kill", "reap",
                  "ended", "print", "done"}
  /\ found \in BOOLEAN
  /\ victim \in 1 .. Cardinality(Workers)
  /\ total \in [Kinds -> Nat]

HoldsFirst(w) ==
  \/ stage[w] \in {"have", "stat", "use"}
  \/ turn[w] = 2 /\ stage[w] \in {"ask", "wait"}
  \/ turn[w] = 1 /\ stage[w] \in {"clear", "post"}
HoldsSecond(w) ==
  /\ both[w]
  /\ \/ turn[w] = 2 /\ stage[w] \in {"have", "stat", "use", "clear", "post"}
     \/ turn[w] = 1 /\ stage[w] \in {"clear", "post"}
Holds(w, q) == \/ HoldsFirst(w) /\ q = first[w]
               \/ HoldsSecond(w) /\ q = 1 - first[w]

\* A queue belongs to one worker at a time, through both orders in which a
\* consumer takes and gives its two locks and also once workers are ended
\* (which give nothing back); the semaphore is up exactly when no one has it.
QueueOwned ==
  \A q \in Queues :
    /\ \A v, w \in Workers : Holds(v, q) /\ Holds(w, q) => v = w
    /\ qLock[q] = 1 <=> \A w \in Workers : ~ Holds(w, q)

\* The same of mat_lock, with the manager as one more process.
InMatrix(w) == step[w] # "out"
ManagerInMatrix == manager \in {"read", "unlock", "print"}

MatrixOwned ==
  /\ \A v, w \in Workers : InMatrix(v) /\ InMatrix(w) => v = w
  /\ \A w \in Workers : ~ (InMatrix(w) /\ ManagerInMatrix)
  /\ matLock = 1 <=> ~ ManagerInMatrix /\ \A w \in Workers : ~ InMatrix(w)

Ownership == QueueOwned /\ MatrixOwned

\* What the row of worker w should say of queue q, from where w is.
Done(w) == step[w] = "written"

MarkOf(w, q) ==
  CASE \/ stage[w] = "ask" /\ Done(w) /\ q = Queue(w)
       \/ stage[w] = "wait" /\ q = Queue(w)
       \/ stage[w] = "have" /\ ~ Done(w) /\ q = Queue(w) -> WAIT
    [] /\ Holds(w, q)
       /\ q = Queue(w) => \/ stage[w] \in {"stat", "use"}
                          \/ stage[w] = "have" /\ Done(w)
                          \/ stage[w] = "clear" /\ ~ Done(w) -> LOCK
    [] OTHER -> NONE

\* Although each worker writes the cells of all workers back, no update is
\* lost: every cell says what its own worker last wrote there.
FileTruthful ==
  /\ \A w \in Workers : \A q \in Queues : file[w][q] = MarkOf(w, q)
  /\ \A w \in Workers : step[w] = "read" => copy[w] = file

\* Two consumers, each with the queue the other waits for.
Caught(w, q) == stage[w] = "wait" /\ turn[w] = 2 /\ first[w] = 1 - q
Deadlock == \A q \in Queues : \E w \in Consumers : Caught(w, q)

\* The workers are only ended for a deadlock that is real, although the
\* verdict is about a copy of the file; and it is there until the end.
FoundIsDeadlock == (found => Deadlock) /\ (removed => found)

\* The array cycle[4] of checkCycle is big enough: of the five consumers at
\* most one waits for queue q with the other queue locked, in any file.
CycleFits ==
  \A q \in Queues : \A v, w \in Consumers :
    WaitsAndHolds(file, v, q) /\ WaitsAndHolds(file, w, q) => v = w

\* When the queues are removed nobody is about to use them: no count is
\* wrong for a failed msgsnd, no consumer ends for a failed msgrcv, and no
\* buf is read that msgctl has left alone.
RemovedUnused ==
  removed => \A w \in Workers : stage[w] \notin {"have", "stat", "use"}

\* What a worker saw in its queue is so when it uses it: no queue grows over
\* Q_SIZE, and no consumer ends because its queue was emptied meanwhile.
SeenIsSo ==
  /\ \A q \in Queues : qnum[q] \in 0 .. QSize
  /\ \A w \in Workers : stage[w] = "use" => seen[w] = qnum[Queue(w)]
  /\ \A w \in Workers : status[w] # "failed"

\* The messages that the workers in S have counted.
Counted(S) == UNION {{w} \X (1 .. count[w]) : w \in S}
Sum(S) == Cardinality(Counted(S))

\* Two consumers of both queues cannot catch each other when both start
\* with queue 0.
AvoidanceWorks == avoid => ~ Deadlock

\* The totals the manager prints are what the workers did: terminateHandler,
\* "Return number of inserts by this producer when killed by manager"
\* (producer.c:18, and consumer.c:17 of consumes).
TotalsExact ==
  manager = "done" => /\ total["inserts"] = Sum(Producers)
                      /\ total["consumes"] = Sum(Consumers)

\* A deadlock is found, and the workers are ended, those that wait for mat_lock
\* or a queue included; the manager goes on to its results, which evaluate.c waits
\* for, unless it has ended a worker inside an update, which keeps mat_lock.
DeadlockEndsWorkers ==
  Deadlock ~> /\ \A w \in Workers : ~ Alive(w)
              /\ manager = "done" \/ \E w \in Workers : InMatrix(w)
=============================================================================
