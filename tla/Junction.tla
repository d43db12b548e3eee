------------------------------ MODULE Junction ------------------------------
(***************************************************************************)
(* The railway junction of os_lab/assignment5/question2: one manager       *)
(* process (manager.c) creates the train processes (train.c).  A train     *)
(* takes the lock of its own direction, then the lock of the direction on  *)
(* its right, then the junction, and gives the two directions back in the  *)
(* same order.  Every request, acquisition and release is also written to  *)
(* matrix.txt, a file that is read whole, changed in one cell and written  *)
(* back whole under matrix_lock.  The manager reads the same file to find  *)
(* the one deadlock it knows, four trains in a ring (checkCycle).          *)
(*                                                                         *)
(* Semaphores are their counter.  Init is the state manager.c reaches at   *)
(* line 146, its set-up done.  Time (sleep) is left out.                   *)
(***************************************************************************)
EXTENDS Naturals, FiniteSets

CONSTANTS
  NumTrains,        \* n, the length of the sequence read from the file
  Direction         \* sequence: the direction of each train, N E S W = 0..3

Trains == 0 .. NumTrains - 1
Dirs == 0 .. 3

ASSUME JunctionAssumption ==
  /\ NumTrains \in Nat \ {0}
  /\ Direction \in [Trains -> Dirs]

NA == 0
REQUESTED == 1
ACQUIRED == 2

(* The operators called Bad... stand for plausible errors in the code; no   *)
(* part of the specification uses them.  Each is the wrong form of the      *)
(* definition that follows it and breaks a property of the last section.    *)

BadRight(d) == (d + 2) % 4

Right(d) == (d + 1) % 4

VARIABLES
  stage,          \* stage[t]: where train t is in train.c
  step,           \* step[t]: where it is inside an update of the matrix file
  copy,           \* copy[t]: the local matrix of updateMatrix
  file,           \* matrix.txt
  matrixLock,     \* semaphore "matrix_lock"
  dirLock,        \* semaphores "north_lock" ... "west_lock"
  junctionLock,   \* semaphore "mutex"
  manager,        \* where the manager is in its loop
  cycle,          \* the entries checkCycle stored for a cycle, {} if none
  trainCount,     \* train_count
  trainsPassed,   \* trains_passed
  sigPending      \* SIGUSR1 is pending for the manager (one bit, no queue)

trainVars == <<stage, step, copy>>
lockVars == <<matrixLock, dirLock, junctionLock>>
managerVars == <<manager, cycle, trainCount, trainsPassed>>
vars == <<stage, step, copy, file, matrixLock, dirLock, junctionLock,
          manager, cycle, trainCount, trainsPassed, sigPending>>

Marking == {"askOwn", "haveOwn", "askRight", "haveRight", "clearOwn",
            "clearRight"}
Stages == Marking \cup
          {"absent", "waitOwn", "waitRight", "waitJunction", "cross",
           "postOwn", "postRight", "signal", "gone"}
Steps == {"out", "locked", "read", "written"}
Matrices == [Trains -> [Dirs -> {NA, REQUESTED, ACQUIRED}]]
Blank == [t \in Trains |-> [d \in Dirs |-> NA]]

Init ==
  /\ stage = [t \in Trains |-> "absent"]
  /\ step = [t \in Trains |-> "out"]
  /\ copy = [t \in Trains |-> Blank]
  /\ file = Blank
  /\ matrixLock = 1
  /\ dirLock = [d \in Dirs |-> 1]
  /\ junctionLock = 1
  /\ manager = "sleep"
  /\ cycle = {}
  /\ trainCount = 0
  /\ trainsPassed = 0
  /\ sigPending = FALSE

Running == manager # "stopped"

-----------------------------------------------------------------------------
(* Updates of the matrix file: train.c brackets each updateMatrix with     *)
(* sem_wait(matrix_lock) and sem_post(matrix_lock).                        *)

MarkDir(t) ==
  IF stage[t] \in {"askOwn", "haveOwn", "clearOwn"}
  THEN Direction[t]
  ELSE Right(Direction[t])

MarkState(t) ==
  IF stage[t] \in {"askOwn", "askRight"} THEN REQUESTED
  ELSE IF stage[t] \in {"haveOwn", "haveRight"} THEN ACQUIRED
  ELSE NA

AfterMark ==
  [askOwn |-> "waitOwn", haveOwn |-> "askRight",
   askRight |-> "waitRight", haveRight |-> "waitJunction",
   clearOwn |-> "postOwn", clearRight |-> "postRight"]

BadLockMatrix(t) ==
  /\ Running
  /\ stage[t] \in Marking
  /\ step[t] = "out"
  /\ step' = [step EXCEPT ![t] = "locked"]
  /\ UNCHANGED <<stage, copy, file, lockVars, managerVars, sigPending>>

LockMatrix(t) ==
  /\ Running
  /\ stage[t] \in Marking
  /\ step[t] = "out"
  /\ matrixLock > 0
  /\ matrixLock' = matrixLock - 1
  /\ step' = [step EXCEPT ![t] = "locked"]
  /\ UNCHANGED <<stage, copy, file, dirLock, junctionLock, managerVars,
                 sigPending>>

ReadMatrix(t) ==
  /\ Running
  /\ step[t] = "locked"
  /\ copy' = [copy EXCEPT ![t] = file]
  /\ step' = [step EXCEPT ![t] = "read"]
  /\ UNCHANGED <<stage, file, lockVars, managerVars, sigPending>>

WriteMatrix(t) ==
  /\ Running
  /\ step[t] = "read"
  /\ file' = [copy[t] EXCEPT ![t][MarkDir(t)] = MarkState(t)]
  /\ copy' = [copy EXCEPT ![t] = Blank]
  /\ step' = [step EXCEPT ![t] = "written"]
  /\ UNCHANGED <<stage, lockVars, managerVars, sigPending>>

UnlockMatrix(t) ==
  /\ Running
  /\ step[t] = "written"
  /\ matrixLock' = matrixLock + 1
  /\ step' = [step EXCEPT ![t] = "out"]
  /\ stage' = [stage EXCEPT ![t] = AfterMark[stage[t]]]
  /\ UNCHANGED <<copy, file, dirLock, junctionLock, managerVars, sigPending>>

-----------------------------------------------------------------------------
(* The other steps of a train.                                             *)

WaitDirection(t, from, d, to) ==
  /\ Running
  /\ stage[t] = from
  /\ dirLock[d] > 0
  /\ dirLock' = [dirLock EXCEPT ![d] = @ - 1]
  /\ stage' = [stage EXCEPT ![t] = to]
  /\ UNCHANGED <<step, copy, file, matrixLock, junctionLock, managerVars,
                 sigPending>>

WaitOwn(t) == WaitDirection(t, "waitOwn", Direction[t], "haveOwn")
BadWaitRight(t) ==
  /\ Running
  /\ stage[t] = "waitRight"
  /\ dirLock' = [dirLock EXCEPT ![Right(Direction[t])] = 0]
  /\ stage' = [stage EXCEPT ![t] = "haveRight"]
  /\ UNCHANGED <<step, copy, file, matrixLock, junctionLock, managerVars,
                 sigPending>>

WaitRight(t) == WaitDirection(t, "waitRight", Right(Direction[t]), "haveRight")

WaitJunction(t) ==
  /\ Running
  /\ stage[t] = "waitJunction"
  /\ junctionLock > 0
  /\ junctionLock' = junctionLock - 1
  /\ stage' = [stage EXCEPT ![t] = "cross"]
  /\ UNCHANGED <<step, copy, file, matrixLock, dirLock, managerVars,
                 sigPending>>

LeaveJunction(t) ==
  /\ Running
  /\ stage[t] = "cross"
  /\ junctionLock' = junctionLock + 1
  /\ stage' = [stage EXCEPT ![t] = "clearOwn"]
  /\ UNCHANGED <<step, copy, file, matrixLock, dirLock, managerVars,
                 sigPending>>

PostDirection(t, from, d, to) ==
  /\ Running
  /\ stage[t] = from
  /\ dirLock' = [dirLock EXCEPT ![d] = @ + 1]
  /\ stage' = [stage EXCEPT ![t] = to]
  /\ UNCHANGED <<step, copy, file, matrixLock, junctionLock, managerVars,
                 sigPending>>

PostOwn(t) == PostDirection(t, "postOwn", Direction[t], "clearRight")
BadLeave(t) ==
  /\ Running
  /\ stage[t] = "postRight"
  /\ stage' = [stage EXCEPT ![t] = "signal"]
  /\ UNCHANGED <<step, copy, file, lockVars, managerVars, sigPending>>
PostRight(t) == PostDirection(t, "postRight", Right(Direction[t]), "signal")

SignalManager(t) ==
  /\ Running
  /\ stage[t] = "signal"
  /\ sigPending' = TRUE
  /\ stage' = [stage EXCEPT ![t] = "gone"]
  /\ UNCHANGED <<step, copy, file, lockVars, managerVars>>

-----------------------------------------------------------------------------
(* The manager.                                                            *)

\* The rows checkCycle counts: <<t, d>> when train t has direction d and
\* has asked for the one on its right.
Flagged(m) ==
  {e \in Trains \X Dirs : /\ m[e[1]][e[2]] = ACQUIRED
                          /\ m[e[1]][Right(e[2])] = REQUESTED}

\* The entries stored when the row of train i has been looked at.
UpToRow(m, i) == {e \in Flagged(m) : e[1] <= i}

\* checkCycle: {} when it returns 0, else what it stored in its parameter
\* cycle.  The count is compared with 4 after each row; the rows that follow
\* without an entry leave the same four.
BadCheckCycle(m) ==
  LET rows == {i \in Trains : Cardinality(UpToRow(m, i)) = 3}
  IN  IF rows = {} THEN {} ELSE UpToRow(m, CHOOSE i \in rows : TRUE)
CheckCycle(m) ==
  IF \E i \in Trains : Cardinality(UpToRow(m, i)) = 4
  THEN UpToRow(m, CHOOSE i \in Trains : Cardinality(UpToRow(m, i)) = 4)
  ELSE {}

\* fork() and exec(): the train starts at its first update.
CreateTrain ==
  /\ manager = "sleep"
  /\ trainCount < NumTrains
  /\ stage' = [stage EXCEPT ![trainCount] = "askOwn"]
  /\ trainCount' = trainCount + 1
  /\ UNCHANGED <<step, copy, file, lockVars, manager, cycle, trainsPassed,
                 sigPending>>

\* fork() returns -1: the count goes up all the same.
ForkFails ==
  /\ manager = "sleep"
  /\ trainCount < NumTrains
  /\ trainCount' = trainCount + 1
  /\ UNCHANGED <<trainVars, file, lockVars, manager, cycle, trainsPassed,
                 sigPending>>

\* The coin says so, or all trains are created: look for a deadlock.
StartCheck ==
  /\ manager = "sleep"
  /\ manager' = "lock"
  /\ UNCHANGED <<trainVars, file, lockVars, cycle, trainCount, trainsPassed,
                 sigPending>>

ManagerLock ==
  /\ manager = "lock"
  /\ matrixLock > 0
  /\ matrixLock' = matrixLock - 1
  /\ manager' = "read"
  /\ UNCHANGED <<trainVars, file, dirLock, junctionLock, cycle, trainCount,
                 trainsPassed, sigPending>>

\* readMatrix fills the manager's own array: what checkCycle will answer is
\* settled here, and used after matrix_lock has been given back.
ManagerRead ==
  /\ manager = "read"
  /\ cycle' = CheckCycle(file)
  /\ manager' = "unlock"
  /\ UNCHANGED <<trainVars, file, lockVars, trainCount, trainsPassed,
                 sigPending>>

ManagerUnlock ==
  /\ manager = "unlock"
  /\ matrixLock' = matrixLock + 1
  /\ manager' = "judge"
  /\ UNCHANGED <<trainVars, file, dirLock, junctionLock, cycle, trainCount,
                 trainsPassed, sigPending>>

NoCycle ==
  /\ manager = "judge"
  /\ cycle = {}
  /\ manager' = "sleep"
  /\ UNCHANGED <<trainVars, file, lockVars, cycle, trainCount, trainsPassed,
                 sigPending>>

\* printCycle, then kill(0, SIGINT): the manager and every train end.
ReportCycle ==
  /\ manager = "judge"
  /\ cycle # {}
  /\ manager' = "stopped"
  /\ UNCHANGED <<trainVars, file, lockVars, cycle, trainCount, trainsPassed,
                 sigPending>>

\* deadChild runs once, however many trains have signalled since.
HandleSignal ==
  /\ Running
  /\ sigPending
  /\ sigPending' = FALSE
  /\ trainsPassed' = trainsPassed + 1
  /\ UNCHANGED <<trainVars, file, lockVars, manager, cycle, trainCount>>

-----------------------------------------------------------------------------
Train(t) ==
  \/ LockMatrix(t) \/ ReadMatrix(t) \/ WriteMatrix(t) \/ UnlockMatrix(t)
  \/ WaitOwn(t) \/ WaitRight(t) \/ WaitJunction(t) \/ LeaveJunction(t)
  \/ PostOwn(t) \/ PostRight(t) \/ SignalManager(t)

Manager ==
  \/ CreateTrain \/ ForkFails \/ StartCheck \/ ManagerLock \/ ManagerRead
  \/ ManagerUnlock \/ NoCycle \/ ReportCycle

Next == (\E t \in Trains : Train(t)) \/ Manager \/ HandleSignal

Spec == Init /\ [][Next]_vars

\* Every process keeps running.  The manager sleeps a second between two
\* uses of matrix_lock, so it cannot keep the trains from it for ever.
Fairness ==
  /\ \A t \in Trains : WF_vars(Train(t))
  /\ SF_vars(\E t \in Trains : LockMatrix(t))
  /\ WF_vars(Manager)
  /\ WF_vars(HandleSignal)

FairSpec == Spec /\ Fairness

-----------------------------------------------------------------------------
(* Properties.                                                             *)

\* Every variable keeps the values its declaration in the code allows.
TypeOK ==
  /\ stage \in [Trains -> Stages]
  /\ step \in [Trains -> Steps]
  /\ copy \in [Trains -> Matrices]
  /\ file \in Matrices
  /\ matrixLock \in 0 .. 1
  /\ dirLock \in [Dirs -> 0 .. 1]
  /\ junctionLock \in 0 .. 1
  /\ manager \in {"sleep", "lock", "read", "unlock", "judge", "stopped"}
  /\ cycle \subseteq Trains \X Dirs
  /\ trainCount \in 0 .. NumTrains
  /\ trainsPassed \in Nat
  /\ sigPending \in BOOLEAN

HasOwn(t) == stage[t] \in {"haveOwn", "askRight", "waitRight", "haveRight",
                           "waitJunction", "cross", "clearOwn", "postOwn"}
HasRight(t) == stage[t] \in {"haveRight", "waitJunction", "cross",
                             "clearOwn", "postOwn", "clearRight", "postRight"}
Holds(t, d) == \/ HasOwn(t) /\ d = Direction[t]
               \/ HasRight(t) /\ d = Right(Direction[t])

\* A direction is given to one train at a time, and its semaphore is up
\* exactly when no train has it: each sem_wait of train.c has its sem_post.
DirectionOwned ==
  \A d \in Dirs :
    /\ \A t, u \in Trains : Holds(t, d) /\ Holds(u, d) => t = u
    /\ dirLock[d] = 1 <=> \A t \in Trains : ~ Holds(t, d)

\* The same of the junction and, with the manager as one more process that
\* uses it, of matrix_lock.
InMatrix(t) == step[t] # "out"
ManagerInMatrix == manager \in {"read", "unlock"}

JunctionOwned ==
  /\ \A t, u \in Trains : stage[t] = "cross" /\ stage[u] = "cross" => t = u
  /\ junctionLock = 1 <=> \A t \in Trains : stage[t] # "cross"

MatrixOwned ==
  /\ \A t, u \in Trains : InMatrix(t) /\ InMatrix(u) => t = u
  /\ \A t \in Trains : ~ (InMatrix(t) /\ ManagerInMatrix)
  /\ matrixLock = 1 <=> ~ ManagerInMatrix /\ \A t \in Trains : ~ InMatrix(t)

Ownership == DirectionOwned /\ JunctionOwned /\ MatrixOwned

\* What the row of train t should say of its own direction and of the right
\* one, from where the train is.
Done(t) == step[t] = "written"

OwnMark(t) ==
  CASE \/ stage[t] = "askOwn" /\ Done(t)
       \/ stage[t] = "waitOwn"
       \/ stage[t] = "haveOwn" /\ ~ Done(t) -> REQUESTED
    [] \/ stage[t] = "haveOwn" /\ Done(t)
       \/ stage[t] \in {"askRight", "waitRight", "haveRight",
                        "waitJunction", "cross"}
       \/ stage[t] = "clearOwn" /\ ~ Done(t) -> ACQUIRED
    [] OTHER -> NA

RightMark(t) ==
  CASE \/ stage[t] = "askRight" /\ Done(t)
       \/ stage[t] = "waitRight"
       \/ stage[t] = "haveRight" /\ ~ Done(t) -> REQUESTED
    [] \/ stage[t] = "haveRight" /\ Done(t)
       \/ stage[t] \in {"waitJunction", "cross", "clearOwn", "postOwn"}
       \/ stage[t] = "clearRight" /\ ~ Done(t) -> ACQUIRED
    [] OTHER -> NA

MarkOf(t, d) == IF d = Direction[t] THEN OwnMark(t)
                ELSE IF d = Right(Direction[t]) THEN RightMark(t)
                ELSE NA

\* The file never loses an update: although each train writes the rows of
\* all trains back, every cell says what its own train last did.  And the
\* copy a train is about to write back is still what the file holds.
FileTruthful ==
  /\ \A t \in Trains : \A d \in Dirs : file[t][d] = MarkOf(t, d)
  /\ \A t \in Trains : step[t] = "read" => copy[t] = file

\* What the manager may conclude from the file: a direction marked ACQUIRED
\* is held, and a train waiting for a direction is marked REQUESTED.
FileMeansLocks ==
  \A t \in Trains : \A d \in Dirs :
    /\ file[t][d] = ACQUIRED => Holds(t, d)
    /\ stage[t] = "waitOwn" /\ d = Direction[t] => file[t][d] = REQUESTED
    /\ stage[t] = "waitRight" /\ d = Right(Direction[t])
         => file[t][d] = REQUESTED

\* The deadlock checkCycle was written for: a train from each direction has
\* its own direction and waits for the one on its right.
Waiter(t, d) == stage[t] = "waitRight" /\ Direction[t] = d
Gridlock == \A d \in Dirs : \E t \in Trains : Waiter(t, d)

\* The entries checkCycle stored are the trains of that gridlock, one for
\* each direction (so they fit the ten cells of manager.c's cycle).
CycleIsGridlock ==
  cycle # {} =>
    /\ \A d \in Dirs : \E t \in Trains : <<t, d>> \in cycle
    /\ \A e \in cycle : Waiter(e[1], e[2])

\* kill(0, SIGINT) ends the whole process group on the strength of a copy of
\* the file that is already old: it is only ever done in a real gridlock, and
\* what the manager has found are the trains of it.
ReportSound ==
  /\ manager = "stopped" => Gridlock
  /\ CycleIsGridlock

\* checkCycle knows four trains in a ring and nothing else.  That is enough:
\* when no train on the way can take a step, it is that ring.
OnTheWay(t) == stage[t] \notin {"absent", "gone"}
Blocked(t) ==
  \/ stage[t] = "waitOwn" /\ dirLock[Direction[t]] = 0
  \/ stage[t] = "waitRight" /\ dirLock[Right(Direction[t])] = 0
OnlyGridlock ==
  (/\ \E t \in Trains : OnTheWay(t)
   /\ \A t \in Trains : OnTheWay(t) => Blocked(t))
  => Gridlock

\* A gridlock is for ever: no step of a train or of the manager undoes it,
\* so a verdict on an old copy of the file is not out of date.
GridlockStays == [][Gridlock => Gridlock']_vars

\* Every train that starts crosses and signals, unless the manager has found
\* a gridlock; and it finds each.
TrainsCross ==
  []<>(\/ manager = "stopped"
       \/ \A t \in Trains : stage[t] \in {"absent", "gone"})

=============================================================================
