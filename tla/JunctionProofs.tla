--------------------------- MODULE JunctionProofs ---------------------------
(* Theorems about Junction, for every number of trains and every sequence. *)
EXTENDS Junction, FiniteSetTheorems, TLAPS

USE JunctionAssumption

-----------------------------------------------------------------------------
(* Arithmetic of the four directions.                                      *)

\* Going right four times comes back, and never sooner.
LEMMA RightFacts ==
  /\ \A d \in Dirs : /\ Right(d) \in Dirs
                     /\ Right(d) # d
                     /\ Right(Right(d)) # d
                     /\ Right(Right(Right(d))) # d
  /\ \A d \in Dirs : \A e \in Dirs :
       e \in {d, Right(d), Right(Right(d)), Right(Right(Right(d)))}
<1>1. \A d \in Dirs : d = 0 \/ d = 1 \/ d = 2 \/ d = 3
  BY DEF Dirs
<1>2. Right(0) = 1 /\ Right(1) = 2 /\ Right(2) = 3 /\ Right(3) = 0
  BY DEF Right
<1>3. {0, 1, 2, 3} = Dirs
  BY DEF Dirs
<1> QED BY <1>1, <1>2, <1>3

\* Train ids are numbers and a train has a direction.
LEMMA TrainFacts ==
  /\ \A t \in Trains : Direction[t] \in Dirs /\ Right(Direction[t]) \in Dirs
  /\ \A t \in Trains : Right(Direction[t]) # Direction[t]
BY RightFacts

-----------------------------------------------------------------------------
(* First layer: types and ownership.  An update of the file only goes on   *)
(* in the stages that mark, and a train the manager has not created yet is *)
(* nowhere else.                                                           *)

Placed ==
  /\ \A t \in Trains : InMatrix(t) => stage[t] \in Marking
  /\ \A t \in Trains : t >= trainCount => stage[t] = "absent"

LEMMA BlankType == Blank \in Matrices
BY DEF Blank, Matrices

Inv1 == TypeOK /\ Placed /\ Ownership

LEMMA InitInv1 == Init => Inv1
<1> SUFFICES ASSUME Init PROVE Inv1
  OBVIOUS
<1>1. TypeOK
  <2>1. stage \in [Trains -> Stages] /\ step \in [Trains -> Steps]
    BY DEF Init, Stages, Steps
  <2>2. copy \in [Trains -> Matrices] /\ file \in Matrices
    BY BlankType DEF Init
  <2>3. dirLock \in [Dirs -> 0 .. 1] /\ trainCount \in 0 .. NumTrains
    BY DEF Init
  <2>4. sigPending \in BOOLEAN
    BY Zenon DEF Init
  <2> QED BY <2>1, <2>2, <2>3, <2>4 DEF Init, TypeOK
<1>2. Placed
  BY DEF Init, Placed, InMatrix
<1>3. Ownership
  BY DEF Init, Ownership, DirectionOwned, JunctionOwned, MatrixOwned, Holds,
         HasOwn, HasRight, InMatrix, ManagerInMatrix
<1> QED BY <1>1, <1>2, <1>3 DEF Inv1

LEMMA LockMatrixInv1 ==
  ASSUME NEW t \in Trains, Inv1, LockMatrix(t)
  PROVE  Inv1'
<1> USE DEF Inv1, LockMatrix, managerVars
<1>1. TypeOK'
  BY DEF TypeOK, Steps
<1>2. Placed'
  BY DEF Placed, TypeOK, InMatrix
<1>3. DirectionOwned' /\ JunctionOwned'
  BY DEF Ownership, DirectionOwned, JunctionOwned, Holds, HasOwn, HasRight
<1>4. MatrixOwned'
  BY DEF Ownership, MatrixOwned, InMatrix, ManagerInMatrix, TypeOK
<1> QED BY <1>1, <1>2, <1>3, <1>4 DEF Ownership

LEMMA ReadMatrixInv1 ==
  ASSUME NEW t \in Trains, Inv1, ReadMatrix(t)
  PROVE  Inv1'
<1> USE DEF Inv1, ReadMatrix, managerVars, lockVars
<1>1. TypeOK'
  BY DEF TypeOK, Steps
<1>2. Placed'
  BY DEF Placed, TypeOK, InMatrix
<1>3. DirectionOwned' /\ JunctionOwned'
  BY DEF Ownership, DirectionOwned, JunctionOwned, Holds, HasOwn, HasRight
<1>4. MatrixOwned'
  BY DEF Ownership, MatrixOwned, InMatrix, ManagerInMatrix, TypeOK
<1> QED BY <1>1, <1>2, <1>3, <1>4 DEF Ownership

LEMMA MarkFacts ==
  ASSUME TypeOK, NEW t \in Trains
  PROVE  /\ MarkDir(t) \in Dirs
         /\ MarkState(t) \in {NA, REQUESTED, ACQUIRED}
BY TrainFacts DEF MarkDir, MarkState

LEMMA WriteMatrixInv1 ==
  ASSUME NEW t \in Trains, Inv1, WriteMatrix(t)
  PROVE  Inv1'
<1> USE DEF Inv1, WriteMatrix, managerVars, lockVars
<1>1. TypeOK'
  BY MarkFacts DEF TypeOK, Steps, Matrices, Blank
<1>2. Placed'
  BY DEF Placed, TypeOK, InMatrix
<1>3. DirectionOwned' /\ JunctionOwned'
  BY DEF Ownership, DirectionOwned, JunctionOwned, Holds, HasOwn, HasRight
<1>4. MatrixOwned'
  BY DEF Ownership, MatrixOwned, InMatrix, ManagerInMatrix, TypeOK
<1> QED BY <1>1, <1>2, <1>3, <1>4 DEF Ownership

LEMMA UnlockMatrixInv1 ==
  ASSUME NEW t \in Trains, Inv1, UnlockMatrix(t)
  PROVE  Inv1'
<1> USE DEF Inv1, UnlockMatrix, managerVars
<1>1. /\ stage[t] \in Marking
      /\ ~ ManagerInMatrix
      /\ matrixLock = 0
      /\ \A u \in Trains : u # t => ~ InMatrix(u)
  BY DEF Placed, Ownership, MatrixOwned, InMatrix, TypeOK
<1>2. AfterMark[stage[t]] \in Stages \ {"absent", "cross"}
  BY <1>1 DEF AfterMark, Marking, Stages
<1>3. TypeOK'
  BY <1>1, <1>2 DEF TypeOK, Steps
<1>4. Placed'
  BY <1>1 DEF Placed, TypeOK, InMatrix, Marking
<1>5. \A u \in Trains : \A d \in Dirs : Holds(u, d)' <=> Holds(u, d)
  BY <1>1 DEF TypeOK, Holds, HasOwn, HasRight, AfterMark, Marking
<1>6. DirectionOwned'
  BY <1>5 DEF Ownership, DirectionOwned
<1>7. JunctionOwned'
  BY <1>1, <1>2 DEF Ownership, JunctionOwned, TypeOK, Marking
<1>8. MatrixOwned'
  BY <1>1 DEF Ownership, MatrixOwned, InMatrix, ManagerInMatrix, TypeOK
<1> QED BY <1>3, <1>4, <1>6, <1>7, <1>8 DEF Ownership

\* sem_wait on a direction that is up: from then on t is its only holder.
LEMMA WaitDirectionInv1 ==
  ASSUME NEW t \in Trains, Inv1, WaitOwn(t) \/ WaitRight(t)
  PROVE  Inv1'
<1> USE DEF Inv1, managerVars
<1> DEFINE e == IF stage[t] = "waitOwn" THEN Direction[t]
                ELSE Right(Direction[t])
<1>1. /\ e \in Dirs
      /\ dirLock[e] > 0
      /\ dirLock' = [dirLock EXCEPT ![e] = @ - 1]
      /\ UNCHANGED <<step, copy, file, matrixLock, junctionLock, manager,
                     cycle, trainCount, trainsPassed, sigPending>>
  BY TrainFacts DEF WaitOwn, WaitRight, WaitDirection
<1>2. \/ /\ stage[t] = "waitOwn"
         /\ stage' = [stage EXCEPT ![t] = "haveOwn"]
      \/ /\ stage[t] = "waitRight"
         /\ stage' = [stage EXCEPT ![t] = "haveRight"]
  BY DEF WaitOwn, WaitRight, WaitDirection
<1>3. dirLock[e] = 1 /\ \A u \in Trains : ~ Holds(u, e)
  BY <1>1 DEF TypeOK, Ownership, DirectionOwned
<1>4. \A u \in Trains : \A d \in Dirs :
        Holds(u, d)' <=> Holds(u, d) \/ (u = t /\ d = e)
  BY <1>2, TrainFacts DEF TypeOK, Holds, HasOwn, HasRight
<1> HIDE DEF e
<1>5. TypeOK'
  BY <1>1, <1>2, <1>3 DEF TypeOK, Stages, Marking
<1>6. Placed'
  BY <1>1, <1>2 DEF Placed, TypeOK, InMatrix, Marking
<1>7. DirectionOwned'
  BY <1>1, <1>3, <1>4 DEF Ownership, DirectionOwned, TypeOK
<1>8. JunctionOwned'
  BY <1>1, <1>2 DEF Ownership, JunctionOwned, TypeOK
<1>9. MatrixOwned'
  BY <1>1 DEF Ownership, MatrixOwned, InMatrix, ManagerInMatrix
<1> QED BY <1>5, <1>6, <1>7, <1>8, <1>9 DEF Ownership

\* sem_post on a direction: t was its only holder.
LEMMA PostDirectionInv1 ==
  ASSUME NEW t \in Trains, Inv1, PostOwn(t) \/ PostRight(t)
  PROVE  Inv1'
<1> USE DEF Inv1, managerVars
<1> DEFINE e == IF stage[t] = "postOwn" THEN Direction[t]
                ELSE Right(Direction[t])
<1>1. /\ e \in Dirs
      /\ dirLock' = [dirLock EXCEPT ![e] = @ + 1]
      /\ UNCHANGED <<step, copy, file, matrixLock, junctionLock, manager,
                     cycle, trainCount, trainsPassed, sigPending>>
  BY TrainFacts DEF PostOwn, PostRight, PostDirection
<1>2. \/ /\ stage[t] = "postOwn"
         /\ stage' = [stage EXCEPT ![t] = "clearRight"]
      \/ /\ stage[t] = "postRight"
         /\ stage' = [stage EXCEPT ![t] = "signal"]
  BY DEF PostOwn, PostRight, PostDirection
<1>3. Holds(t, e)
  BY <1>2 DEF Holds, HasOwn, HasRight
<1>4. dirLock[e] = 0 /\ \A u \in Trains : Holds(u, e) => u = t
  BY <1>1, <1>3 DEF TypeOK, Ownership, DirectionOwned
<1>5. \A u \in Trains : \A d \in Dirs :
        Holds(u, d)' <=> Holds(u, d) /\ ~ (u = t /\ d = e)
  BY <1>2, TrainFacts DEF TypeOK, Holds, HasOwn, HasRight
<1> HIDE DEF e
<1>6. TypeOK'
  BY <1>1, <1>2, <1>4 DEF TypeOK, Stages, Marking
<1>7. Placed'
  BY <1>1, <1>2 DEF Placed, TypeOK, InMatrix, Marking
<1>8. DirectionOwned'
  BY <1>1, <1>4, <1>5 DEF Ownership, DirectionOwned, TypeOK
<1>9. JunctionOwned'
  BY <1>1, <1>2 DEF Ownership, JunctionOwned, TypeOK
<1>10. MatrixOwned'
  BY <1>1 DEF Ownership, MatrixOwned, InMatrix, ManagerInMatrix
<1> QED BY <1>6, <1>7, <1>8, <1>9, <1>10 DEF Ownership

LEMMA JunctionInv1 ==
  ASSUME NEW t \in Trains, Inv1, WaitJunction(t) \/ LeaveJunction(t)
  PROVE  Inv1'
<1> USE DEF Inv1, managerVars, WaitJunction, LeaveJunction
<1>1. TypeOK'
  BY DEF TypeOK, Stages, Marking, Ownership, JunctionOwned
<1>2. Placed'
  BY DEF Placed, TypeOK, InMatrix, Marking
<1>3. \A u \in Trains : \A d \in Dirs : Holds(u, d)' <=> Holds(u, d)
  BY DEF TypeOK, Holds, HasOwn, HasRight
<1>4. DirectionOwned'
  BY <1>3 DEF Ownership, DirectionOwned
<1>5. JunctionOwned'
  BY DEF Ownership, JunctionOwned, TypeOK
<1>6. MatrixOwned'
  BY DEF Ownership, MatrixOwned, InMatrix, ManagerInMatrix
<1> QED BY <1>1, <1>2, <1>4, <1>5, <1>6 DEF Ownership

LEMMA SignalInv1 ==
  ASSUME NEW t \in Trains, Inv1, SignalManager(t)
  PROVE  Inv1'
<1> USE DEF Inv1, managerVars, lockVars, SignalManager
<1>1. sigPending' \in BOOLEAN
  BY Zenon
<1>2. TypeOK'
  BY <1>1 DEF TypeOK, Stages
<1>3. Placed'
  BY DEF Placed, TypeOK, InMatrix, Marking
<1>4. \A u \in Trains : \A d \in Dirs : Holds(u, d)' <=> Holds(u, d)
  BY DEF TypeOK, Holds, HasOwn, HasRight
<1>5. DirectionOwned'
  BY <1>4 DEF Ownership, DirectionOwned
<1>6. JunctionOwned' /\ MatrixOwned'
  BY DEF Ownership, JunctionOwned, MatrixOwned, InMatrix, ManagerInMatrix,
         TypeOK
<1> QED BY <1>2, <1>3, <1>5, <1>6 DEF Ownership

LEMMA CreateTrainInv1 ==
  ASSUME Inv1, CreateTrain
  PROVE  Inv1'
<1> USE DEF Inv1, lockVars, CreateTrain
<1>1. trainCount \in Trains /\ stage[trainCount] = "absent"
  BY DEF TypeOK, Placed, Trains
<1>2. trainCount' = trainCount + 1 /\ trainCount \in Nat
  BY DEF TypeOK
<1>3. TypeOK'
  BY <1>1 DEF TypeOK, Stages, Marking
<1>4. Placed'
  <2>1. \A u \in Trains : u \in Nat
    BY DEF Trains
  <2> QED BY <1>1, <1>2, <2>1 DEF Placed, TypeOK, InMatrix, Marking
<1>5. \A u \in Trains : \A d \in Dirs : Holds(u, d)' <=> Holds(u, d)
  BY <1>1 DEF TypeOK, Holds, HasOwn, HasRight
<1>6. DirectionOwned'
  BY <1>5 DEF Ownership, DirectionOwned
<1>7. JunctionOwned' /\ MatrixOwned'
  BY <1>1 DEF Ownership, JunctionOwned, MatrixOwned, InMatrix, ManagerInMatrix,
         TypeOK
<1> QED BY <1>3, <1>4, <1>6, <1>7 DEF Ownership

\* checkCycle stores rows of the matrix.
LEMMA CheckCycleType == \A m : CheckCycle(m) \subseteq Flagged(m)
BY DEF CheckCycle, UpToRow

\* The steps that leave the trains alone.
LEMMA ManagerInv1 ==
  ASSUME Inv1,
         \/ ForkFails \/ StartCheck \/ ManagerLock \/ ManagerRead
         \/ ManagerUnlock \/ NoCycle \/ ReportCycle \/ HandleSignal
  PROVE  Inv1'
<1> USE DEF Inv1, trainVars, lockVars, ForkFails, StartCheck, ManagerLock,
            ManagerRead, ManagerUnlock, NoCycle, ReportCycle, HandleSignal
<1>1. cycle' \subseteq Trains \X Dirs
  BY CheckCycleType DEF TypeOK, Flagged
<1>2. sigPending' \in BOOLEAN
  <2>1. sigPending' = sigPending \/ sigPending' = FALSE
    BY Zenon
  <2> QED BY <2>1, Zenon DEF TypeOK
<1>3. UNCHANGED <<stage, step, dirLock, junctionLock>>
  OBVIOUS
<1>4. TypeOK'
  BY <1>1, <1>2 DEF TypeOK, Ownership, MatrixOwned, ManagerInMatrix
<1>5. Placed'
  <2>1. \A u \in Trains : u \in Nat
    BY DEF Trains
  <2> QED BY <2>1 DEF Placed, TypeOK, InMatrix
<1>6. DirectionOwned' /\ JunctionOwned'
  BY <1>3 DEF Ownership, DirectionOwned, JunctionOwned, Holds, HasOwn,
              HasRight
<1>7. MatrixOwned'
  BY DEF Ownership, MatrixOwned, InMatrix, ManagerInMatrix, TypeOK
<1> QED BY <1>4, <1>5, <1>6, <1>7 DEF Ownership

LEMMA StutterInv1 ==
  ASSUME Inv1, UNCHANGED vars
  PROVE  Inv1'
BY DEF Inv1, vars, TypeOK, Placed, Ownership, DirectionOwned, JunctionOwned,
       MatrixOwned, InMatrix, ManagerInMatrix, Holds, HasOwn, HasRight

LEMMA NextInv1 ==
  ASSUME Inv1, [Next]_vars
  PROVE  Inv1'
<1>1. ASSUME NEW t \in Trains, Train(t)
      PROVE  Inv1'
  BY <1>1, LockMatrixInv1, ReadMatrixInv1, WriteMatrixInv1, UnlockMatrixInv1,
     WaitDirectionInv1, PostDirectionInv1, JunctionInv1, SignalInv1
     DEF Train
<1>2. CASE Manager \/ HandleSignal
  BY <1>2, CreateTrainInv1, ManagerInv1 DEF Manager
<1>3. CASE UNCHANGED vars
  BY <1>3, StutterInv1
<1> QED BY <1>1, <1>2, <1>3 DEF Next

\* Trains and manager are in an update of the file only where they mark it, and a
\* semaphore is held by the one the places of the trains say.
THEOREM Invariant1 == Spec => []Inv1
<1>1. Inv1 /\ [Next]_vars => Inv1'
  BY NextInv1
<1> QED BY <1>1, InitInv1, PTL DEF Spec

\* Types, for every sequence of trains.
THEOREM TypeCorrect == Spec => []TypeOK
<1>1. Inv1 => TypeOK
  BY DEF Inv1
<1> QED BY <1>1, Invariant1, PTL

\* No two trains have one direction, the junction or the file at a time, and
\* the semaphores say so.
THEOREM LocksOwned == Spec => []Ownership
<1>1. Inv1 => Ownership
  BY DEF Inv1
<1> QED BY <1>1, Invariant1, PTL

-----------------------------------------------------------------------------
(* Second layer: what the file says.                                       *)

Inv2 == Inv1 /\ FileTruthful

\* The cell a train writes is the one its own row has for that direction.
LEMMA MarkWritten ==
  ASSUME NEW t \in Trains, Inv1, FileTruthful, WriteMatrix(t)
  PROVE  FileTruthful'
<1> USE DEF Inv1
<1>1. /\ step[t] = "read" /\ stage[t] \in Marking
      /\ copy[t] = file
      /\ stage' = stage
      /\ step' = [step EXCEPT ![t] = "written"]
      /\ file' = [file EXCEPT ![t][MarkDir(t)] = MarkState(t)]
  BY DEF WriteMatrix, FileTruthful, Placed, InMatrix
<1>2. \A u \in Trains : u # t => step[u] = "out"
  BY <1>1 DEF Ownership, MatrixOwned, InMatrix
<1>3. \A u \in Trains : step'[u] # "read"
  BY <1>1, <1>2 DEF TypeOK
<1>4. ASSUME NEW u \in Trains, NEW d \in Dirs, u # t
      PROVE  file'[u][d] = MarkOf(u, d)'
  <2>1. file'[u][d] = file[u][d]
    BY <1>1, <1>4 DEF TypeOK, Matrices
  <2>2. MarkOf(u, d)' = MarkOf(u, d)
    BY <1>1, <1>4 DEF MarkOf, OwnMark, RightMark, Done, TypeOK
  <2> QED BY <2>1, <2>2 DEF FileTruthful
<1>5. ASSUME NEW d \in Dirs
      PROVE  file'[t][d] = MarkOf(t, d)'
  <2>1. file'[t][d] = IF d = MarkDir(t) THEN MarkState(t) ELSE MarkOf(t, d)
    BY <1>1, MarkFacts DEF FileTruthful, TypeOK, Matrices
  <2>2. Done(t)' /\ ~ Done(t)
    BY <1>1 DEF Done, TypeOK
  <2>3. MarkOf(t, d)' = IF d = MarkDir(t) THEN MarkState(t) ELSE MarkOf(t, d)
    BY <1>1, <2>2, TrainFacts
       DEF MarkOf, OwnMark, RightMark, MarkDir, MarkState, Marking
  <2> QED BY <2>1, <2>3
<1> QED BY <1>3, <1>4, <1>5 DEF FileTruthful

\* A train that moves on outside the file keeps its marks.
LEMMA MarksKept ==
  ASSUME Inv1, FileTruthful, NEW t \in Trains,
         UNCHANGED <<step, copy, file>>,
         NEW to \in Stages, stage' = [stage EXCEPT ![t] = to],
         OwnMark(t)' = OwnMark(t), RightMark(t)' = RightMark(t)
  PROVE  FileTruthful'
<1> USE DEF Inv1
<1>1. ASSUME NEW u \in Trains, NEW d \in Dirs
      PROVE  MarkOf(u, d)' = MarkOf(u, d)
  <2>1. CASE u = t
    BY <2>1 DEF MarkOf
  <2>2. CASE u # t
    BY <2>2 DEF MarkOf, OwnMark, RightMark, Done, TypeOK
  <2> QED BY <2>1, <2>2
<1> QED BY <1>1 DEF FileTruthful

LEMMA TrainInv2 ==
  ASSUME Inv2, NEW t \in Trains, Train(t)
  PROVE  FileTruthful'
<1> USE DEF Inv2
<1>0. (\A u \in Trains : stage[u] \in Stages) /\ stage[t] \in Stages
  BY DEF Inv1, TypeOK
<1>1. CASE LockMatrix(t)
  <2>1. \A u \in Trains : Done(u)' <=> Done(u)
    BY <1>1 DEF LockMatrix, Done, Inv1, TypeOK
  <2>2. UNCHANGED <<stage, file>>
    BY <1>1 DEF LockMatrix
  <2>3. \A u \in Trains : \A d \in Dirs : MarkOf(u, d)' = MarkOf(u, d)
    BY <2>1, <2>2 DEF MarkOf, OwnMark, RightMark
  <2> QED BY <1>1, <2>3 DEF LockMatrix, FileTruthful, Inv1, TypeOK
<1>2. CASE ReadMatrix(t)
  <2>1. \A u \in Trains : Done(u)' <=> Done(u)
    BY <1>2 DEF ReadMatrix, Done, Inv1, TypeOK
  <2>2. UNCHANGED <<stage, file>>
    BY <1>2 DEF ReadMatrix
  <2>3. \A u \in Trains : \A d \in Dirs : MarkOf(u, d)' = MarkOf(u, d)
    BY <2>1, <2>2 DEF MarkOf, OwnMark, RightMark
  <2> QED BY <1>2, <2>3 DEF ReadMatrix, FileTruthful, Inv1, TypeOK
<1>3. CASE WriteMatrix(t)
  BY <1>3, MarkWritten
<1>4. CASE UnlockMatrix(t)
  <2>1. /\ stage[t] \in Marking
        /\ stage' = [stage EXCEPT ![t] = AfterMark[stage[t]]]
        /\ step[t] = "written" /\ step' = [step EXCEPT ![t] = "out"]
        /\ UNCHANGED <<copy, file>>
    BY <1>4 DEF UnlockMatrix, Inv1, Placed, InMatrix
  <2>2. ASSUME NEW d \in Dirs
        PROVE  MarkOf(t, d)' = MarkOf(t, d)
    BY <2>1 DEF MarkOf, OwnMark, RightMark, Done, Inv1, TypeOK, AfterMark,
                Marking
  <2>3. ASSUME NEW u \in Trains, NEW d \in Dirs, u # t
        PROVE  MarkOf(u, d)' = MarkOf(u, d)
    BY <2>1, <2>3 DEF MarkOf, OwnMark, RightMark, Done, Inv1, TypeOK
  <2> QED BY <2>1, <2>2, <2>3 DEF FileTruthful, Inv1, TypeOK
<1>5. CASE WaitOwn(t) \/ WaitRight(t) \/ WaitJunction(t) \/ LeaveJunction(t)
           \/ PostOwn(t) \/ PostRight(t) \/ SignalManager(t)
  <2>1. stage[t] \notin Marking
    BY <1>5 DEF WaitOwn, WaitRight, WaitDirection, WaitJunction,
                LeaveJunction, PostOwn, PostRight, PostDirection,
                SignalManager, Marking
  <2>2. ~ Done(t) /\ UNCHANGED <<step, copy, file>>
    BY <1>5, <2>1 DEF WaitOwn, WaitRight, WaitDirection, WaitJunction,
                LeaveJunction, PostOwn, PostRight, PostDirection,
                SignalManager, Inv1, Placed, InMatrix, Done
  <2>3. PICK to \in Stages :
          /\ stage' = [stage EXCEPT ![t] = to]
          /\ <<stage[t], to>> \in
               {<<"waitOwn", "haveOwn">>, <<"waitRight", "haveRight">>,
                <<"waitJunction", "cross">>, <<"cross", "clearOwn">>,
                <<"postOwn", "clearRight">>, <<"postRight", "signal">>,
                <<"signal", "gone">>}
    BY <1>5 DEF WaitOwn, WaitRight, WaitDirection, WaitJunction,
                LeaveJunction, PostOwn, PostRight, PostDirection,
                SignalManager, Stages, Marking
  <2>4. stage'[t] = to /\ ~ Done(t)'
    BY <2>2, <2>3, <1>0 DEF Inv1, TypeOK, Done
  <2>5. OwnMark(t)' = OwnMark(t) /\ RightMark(t)' = RightMark(t)
    BY <2>2, <2>3, <2>4 DEF OwnMark, RightMark
  <2> QED BY <2>2, <2>3, <2>5, MarksKept
<1> QED BY <1>1, <1>2, <1>3, <1>4, <1>5 DEF Train

LEMMA NextInv2 ==
  ASSUME Inv2, [Next]_vars
  PROVE  FileTruthful'
<1> USE DEF Inv2
<1>1. ASSUME NEW t \in Trains, Train(t)
      PROVE  FileTruthful'
  BY <1>1, TrainInv2
<1>2. CASE CreateTrain
  <2>1. PICK t \in Trains : t = trainCount
    BY <1>2 DEF CreateTrain, Inv1, TypeOK, Trains
  <2>2. /\ stage[t] = "absent"
        /\ stage' = [stage EXCEPT ![t] = "askOwn"]
        /\ UNCHANGED <<step, copy, file>>
    BY <1>2, <2>1 DEF CreateTrain, Inv1, TypeOK, Placed
  <2>3. ~ Done(t) /\ ~ Done(t)'
    BY <2>1, <2>2 DEF Done, Inv1, Placed, InMatrix, Marking
  <2>4. stage'[t] = "askOwn"
    BY <2>1, <2>2 DEF Inv1, TypeOK
  <2>5. OwnMark(t)' = OwnMark(t) /\ RightMark(t)' = RightMark(t)
    BY <2>2, <2>3, <2>4 DEF OwnMark, RightMark
  <2> QED BY <2>2, <2>5, MarksKept DEF Stages, Marking
<1>3. CASE \/ ForkFails \/ StartCheck \/ ManagerLock \/ ManagerRead
           \/ ManagerUnlock \/ NoCycle \/ ReportCycle \/ HandleSignal
           \/ UNCHANGED vars
  <2>1. UNCHANGED <<stage, step, copy, file>>
    BY <1>3 DEF ForkFails, StartCheck, ManagerLock, ManagerRead,
                ManagerUnlock, NoCycle, ReportCycle, HandleSignal, vars,
                trainVars
  <2>2. \A u \in Trains : \A d \in Dirs : MarkOf(u, d)' = MarkOf(u, d)
    BY <2>1 DEF MarkOf, OwnMark, RightMark, Done
  <2> QED BY <2>1, <2>2 DEF FileTruthful
<1> QED BY <1>1, <1>2, <1>3 DEF Next, Manager

\* No update of the file is lost, whatever the order of the trains: each cell
\* says what the train of its row has last written.
THEOREM FileIsTruthful == Spec => []FileTruthful
<1>1. Init => FileTruthful
  BY DEF Init, FileTruthful, MarkOf, OwnMark, RightMark, Done, Blank
<1>2. Inv1 /\ FileTruthful /\ [Next]_vars => FileTruthful'
  BY NextInv2 DEF Inv2
<1> QED BY <1>1, <1>2, Invariant1, PTL DEF Spec

\* What the manager concludes from a cell.
THEOREM MarksMeanLocks == Spec => []FileMeansLocks
<1>1. ASSUME Inv1, FileTruthful
      PROVE  FileMeansLocks
  <2>1. ASSUME NEW t \in Trains, NEW d \in Dirs, file[t][d] = ACQUIRED
        PROVE  Holds(t, d)
    BY <1>1, <2>1 DEF FileTruthful, MarkOf, OwnMark, RightMark, Holds,
                      HasOwn, HasRight, NA, REQUESTED, ACQUIRED
  <2>2. ASSUME NEW t \in Trains, stage[t] = "waitOwn"
        PROVE  file[t][Direction[t]] = REQUESTED
    BY <1>1, <2>2, TrainFacts DEF FileTruthful, MarkOf, OwnMark
  <2>3. ASSUME NEW t \in Trains, stage[t] = "waitRight"
        PROVE  file[t][Right(Direction[t])] = REQUESTED
    BY <1>1, <2>3, TrainFacts DEF FileTruthful, MarkOf, RightMark
  <2> QED BY <2>1, <2>2, <2>3 DEF FileMeansLocks
<1> QED BY <1>1, Invariant1, FileIsTruthful, PTL

-----------------------------------------------------------------------------
(* Third layer: the manager's verdict.                                     *)

LEMMA WaiterHolds ==
  ASSUME NEW t \in Trains, NEW d \in Dirs, Waiter(t, d)
  PROVE  Holds(t, d)
BY DEF Waiter, Holds, HasOwn

\* A train of a gridlock stays where it is.
LEMMA WaiterStays ==
  ASSUME Inv1, Gridlock, [Next]_vars,
         NEW t \in Trains, NEW d \in Dirs, Waiter(t, d)
  PROVE  Waiter(t, d)'
<1> USE DEF Inv1
<1>1. stage[t] = "waitRight" /\ Direction[t] = d /\ Right(d) \in Dirs
  BY RightFacts DEF Waiter
<1>2. ~ WaitRight(t)
  <2>1. PICK u \in Trains : Waiter(u, Right(d))
    BY <1>1 DEF Gridlock
  <2>2. dirLock[Right(d)] = 0
    BY <1>1, <2>1, WaiterHolds DEF Ownership, DirectionOwned, TypeOK
  <2> QED BY <1>1, <2>2 DEF WaitRight, WaitDirection
<1>3. stage'[t] = stage[t]
  <2>1. ASSUME NEW u \in Trains, Train(u), u # t
        PROVE  stage'[t] = stage[t]
    BY <2>1 DEF Train, LockMatrix, ReadMatrix, WriteMatrix, UnlockMatrix,
         WaitOwn, WaitRight, WaitDirection, WaitJunction, LeaveJunction,
         PostOwn, PostRight, PostDirection, SignalManager, TypeOK
  <2>2. CASE Train(t)
    <3>1. step[t] = "out"
      BY <1>1 DEF Placed, InMatrix, Marking
    <3> QED BY <1>1, <1>2, <2>2, <3>1 DEF Train, LockMatrix, ReadMatrix,
         WriteMatrix, UnlockMatrix, WaitOwn, WaitDirection, WaitJunction,
         LeaveJunction, PostOwn, PostRight, PostDirection, SignalManager,
         Marking
  <2>3. CASE CreateTrain
    <3>1. stage[trainCount] = "absent" \/ trainCount \notin Trains
      BY <2>3 DEF Placed, TypeOK
    <3> QED BY <1>1, <2>3, <3>1 DEF CreateTrain, TypeOK
  <2>4. CASE \/ ForkFails \/ StartCheck \/ ManagerLock \/ ManagerRead
             \/ ManagerUnlock \/ NoCycle \/ ReportCycle \/ HandleSignal
             \/ UNCHANGED vars
    BY <2>4 DEF ForkFails, StartCheck, ManagerLock, ManagerRead,
                ManagerUnlock, NoCycle, ReportCycle, HandleSignal, vars,
                trainVars
  <2> QED BY <2>1, <2>2, <2>3, <2>4 DEF Next, Manager
<1> QED BY <1>1, <1>3 DEF Waiter

\* A gridlock is for ever.
THEOREM GridlockIsStable == Spec => GridlockStays
<1>1. Inv1 /\ [Next]_vars /\ Gridlock => Gridlock'
  BY WaiterStays DEF Gridlock
<1>2. Inv1 /\ [Next]_vars => [Gridlock => Gridlock']_vars
  BY <1>1
<1> QED BY <1>2, Invariant1, PTL DEF Spec, GridlockStays

\* A row that checkCycle counts, in the file as the manager reads it, is the
\* row of a train that has the direction and has not marked its right one.
LEMMA FlaggedRow ==
  ASSUME Inv1, FileTruthful, manager = "read", NEW e \in Flagged(file)
  PROVE  /\ e[1] \in Trains /\ e[2] \in Dirs /\ e = <<e[1], e[2]>>
         /\ e[2] = Direction[e[1]]
         /\ stage[e[1]] \in {"waitRight", "haveRight"}
<1> USE DEF Inv1
<1>1. /\ e[1] \in Trains /\ e[2] \in Dirs /\ e = <<e[1], e[2]>>
      /\ Right(e[2]) \in Dirs
      /\ MarkOf(e[1], e[2]) = ACQUIRED
      /\ MarkOf(e[1], Right(e[2])) = REQUESTED
  BY RightFacts DEF Flagged, FileTruthful
<1>2. ~ Done(e[1])
  BY <1>1 DEF Ownership, MatrixOwned, ManagerInMatrix, InMatrix, Done
<1>3. e[2] = Direction[e[1]]
  BY <1>1, TrainFacts, RightFacts DEF MarkOf, NA, REQUESTED, ACQUIRED
<1>4. RightMark(e[1]) = REQUESTED
  BY <1>1, <1>3, TrainFacts DEF MarkOf
<1> QED BY <1>1, <1>2, <1>3, <1>4 DEF RightMark, NA, REQUESTED, ACQUIRED

\* Four such rows are four directions, by the pigeonhole principle.
LEMMA FourRows ==
  ASSUME Inv1, FileTruthful, manager = "read", NEW C \in SUBSET Flagged(file),
         Cardinality(C) = 4
  PROVE  \A d \in Dirs : \E e \in C : e[2] = d
<1> DEFINE f == [e \in C |-> e[2]]
<1>1. ASSUME NEW e \in C, NEW g \in C, e[2] = g[2]
      PROVE  e = g
  <2>1. Holds(e[1], e[2]) /\ Holds(g[1], g[2])
    BY FlaggedRow DEF Holds, HasOwn
  <2>2. e[1] = g[1]
    BY <1>1, <2>1, FlaggedRow DEF Inv1, Ownership, DirectionOwned
  <2> QED BY <1>1, <2>2, FlaggedRow
<1>2. f \in Injection(C, Dirs)
  BY <1>1, FlaggedRow DEF Injection, IsInjective
<1>3. IsFiniteSet(Dirs) /\ Cardinality(Dirs) = 4
  <2>1. 0 \in Int /\ 3 \in Int
    OBVIOUS
  <2>2. /\ IsFiniteSet(0 .. 3)
        /\ Cardinality(0 .. 3) = IF 0 > 3 THEN 0 ELSE 3 - 0 + 1
    BY <2>1, FS_Interval, Zenon
  <2>3. (IF 0 > 3 THEN 0 ELSE 3 - 0 + 1) = 4
    OBVIOUS
  <2> QED BY <2>2, <2>3 DEF Dirs
<1>4. f \in Surjection(C, Dirs)
  BY <1>2, <1>3, FS_Injection
<1> QED BY <1>4 DEF Surjection

LEMMA VerdictIsGridlock ==
  ASSUME Inv1, FileTruthful, manager = "read", CheckCycle(file) # {}
  PROVE  /\ \A d \in Dirs : \E t \in Trains : <<t, d>> \in CheckCycle(file)
         /\ \A e \in CheckCycle(file) : Waiter(e[1], e[2])
<1> DEFINE C == CheckCycle(file)
<1>1. C \subseteq Flagged(file) /\ Cardinality(C) = 4
  BY DEF CheckCycle, UpToRow
<1> HIDE DEF C
<1>2. \A d \in Dirs : \E e \in C : e[2] = d
  BY <1>1, FourRows
<1>3. ASSUME NEW e \in C
      PROVE  stage[e[1]] # "haveRight"
  <2>1. PICK g \in C : g[2] = Right(e[2])
    BY <1>1, <1>2, FlaggedRow, RightFacts
  <2>2. /\ e[1] \in Trains /\ g[1] \in Trains
        /\ e[2] \in Dirs /\ e[2] = Direction[e[1]]
        /\ g[2] = Direction[g[1]]
        /\ stage[g[1]] \in {"waitRight", "haveRight"}
    BY <1>1, FlaggedRow
  <2>3. Holds(g[1], Right(e[2]))
    BY <2>1, <2>2 DEF Holds, HasOwn
  <2>4. Right(e[2]) \in Dirs /\ Right(e[2]) # e[2]
    BY <2>2, RightFacts
  <2>5. e[1] # g[1]
    BY <2>1, <2>2, <2>4
  <2> QED BY <2>2, <2>3, <2>4, <2>5
          DEF Holds, HasRight, Inv1, Ownership, DirectionOwned
<1>4. \A e \in C : Waiter(e[1], e[2])
  BY <1>1, <1>3, FlaggedRow DEF Waiter
<1>5. \A d \in Dirs : \E t \in Trains : <<t, d>> \in C
  BY <1>1, <1>2, FlaggedRow
<1> QED BY <1>4, <1>5 DEF C

Verdict ==
  /\ CycleIsGridlock
  /\ cycle # {} => manager \in {"unlock", "judge", "stopped"}
  /\ manager = "stopped" => cycle # {}

LEMMA CycleGivesGridlock ==
  ASSUME CycleIsGridlock, cycle # {}
  PROVE  Gridlock
<1> SUFFICES ASSUME NEW d \in Dirs
             PROVE  \E t \in Trains : Waiter(t, d)
  BY DEF Gridlock
<1>1. PICK t \in Trains : <<t, d>> \in cycle
  BY DEF CycleIsGridlock
<1>2. Waiter(<<t, d>>[1], <<t, d>>[2])
  BY <1>1 DEF CycleIsGridlock
<1> QED BY <1>2

LEMMA NextVerdict ==
  ASSUME Inv1, FileTruthful, Verdict, [Next]_vars
  PROVE  Verdict'
<1>1. CASE ManagerRead
  <2>1. cycle' = CheckCycle(file) /\ manager = "read" /\ stage' = stage
        /\ manager' = "unlock"
    BY <1>1 DEF ManagerRead, trainVars
  <2>2. CycleIsGridlock'
    BY <2>1, VerdictIsGridlock DEF CycleIsGridlock, Waiter
  <2> QED BY <2>1, <2>2 DEF Verdict
<1>2. CASE ~ ManagerRead
  <2>1. cycle' = cycle
    BY <1>2 DEF Next, Train, LockMatrix, ReadMatrix, WriteMatrix,
         UnlockMatrix, WaitOwn, WaitRight, WaitDirection, WaitJunction,
         LeaveJunction, PostOwn, PostRight, PostDirection, SignalManager,
         Manager, CreateTrain, ForkFails, StartCheck, ManagerLock,
         ManagerUnlock, NoCycle, ReportCycle, HandleSignal, vars,
         managerVars
  <2>2. CycleIsGridlock'
    <3>1. CASE cycle = {}
      BY <2>1, <3>1 DEF CycleIsGridlock
    <3>2. CASE cycle # {}
      <4>1. \A e \in cycle : e[1] \in Trains /\ e[2] \in Dirs
        BY DEF Inv1, TypeOK
      <4>2. \A e \in cycle : Waiter(e[1], e[2])'
        BY <3>2, <4>1, CycleGivesGridlock, WaiterStays
           DEF Verdict, CycleIsGridlock
      <4> QED BY <2>1, <3>2, <4>2 DEF Verdict, CycleIsGridlock
    <3> QED BY <3>1, <3>2
  <2>3. (cycle # {} => manager' \in {"unlock", "judge", "stopped"})
        /\ (manager' = "stopped" => cycle # {})
    BY <1>2 DEF Verdict, Next, Train, LockMatrix, ReadMatrix, WriteMatrix,
         UnlockMatrix, WaitOwn, WaitRight, WaitDirection, WaitJunction,
         LeaveJunction, PostOwn, PostRight, PostDirection, SignalManager,
         Manager, CreateTrain, ForkFails, StartCheck, ManagerLock,
         ManagerUnlock, NoCycle, ReportCycle, HandleSignal, vars,
         managerVars, Running
  <2> QED BY <2>1, <2>2, <2>3 DEF Verdict
<1> QED BY <1>1, <1>2

\* The copy the manager looks at, which is old by then, and the cycle it counts say
\* something true of the trains as long as it has not decided.
THEOREM VerdictInvariant == Spec => []Verdict
<1>1. Init => Verdict
  BY DEF Init, Verdict, CycleIsGridlock
<1>2. Inv1 /\ FileTruthful /\ Verdict /\ [Next]_vars => Verdict'
  BY NextVerdict
<1> QED BY <1>1, <1>2, Invariant1, FileIsTruthful, PTL DEF Spec

\* The manager only ever ends the trains in a real gridlock, and what checkCycle
\* stored is that gridlock.
THEOREM ReportIsSound == Spec => []ReportSound
<1>1. Verdict => ReportSound
  BY CycleGivesGridlock DEF Verdict, ReportSound
<1> QED BY <1>1, VerdictInvariant, PTL

-----------------------------------------------------------------------------
(* A train that waits waits for a train that waits for its right.          *)

LEMMA BlockedChain ==
  ASSUME Inv1, \A t \in Trains : OnTheWay(t) => Blocked(t),
         NEW d \in Dirs, dirLock[d] = 0
  PROVE  \E t \in Trains : Waiter(t, d) /\ dirLock[Right(d)] = 0
<1>1. PICK t \in Trains : Holds(t, d)
  BY DEF Inv1, TypeOK, Ownership, DirectionOwned
<1>2. OnTheWay(t)
  BY <1>1 DEF Holds, HasOwn, HasRight, OnTheWay
<1>3. stage[t] = "waitRight" /\ dirLock[Right(Direction[t])] = 0
  BY <1>1, <1>2 DEF Blocked, Holds, HasOwn, HasRight
<1>4. Direction[t] = d
  BY <1>1, <1>3 DEF Holds, HasOwn, HasRight
<1> QED BY <1>3, <1>4 DEF Waiter

\* The ring of four is the only deadlock there is.
THEOREM GridlockIsTheOnly == Spec => []OnlyGridlock
<1>1. ASSUME Inv1 PROVE OnlyGridlock
  <2> SUFFICES ASSUME \E t \in Trains : OnTheWay(t),
                      \A t \in Trains : OnTheWay(t) => Blocked(t)
               PROVE  Gridlock
    BY DEF OnlyGridlock
  <2>1. PICK d \in Dirs : dirLock[d] = 0
    BY TrainFacts DEF Blocked
  <2>2. ASSUME NEW e \in Dirs, dirLock[e] = 0
        PROVE  /\ \E t \in Trains : Waiter(t, e)
               /\ dirLock[Right(e)] = 0
    BY <1>1, <2>2, BlockedChain
  <2>3. \A e \in Dirs : dirLock[e] = 0
    <3>1. /\ Right(d) \in Dirs /\ Right(Right(d)) \in Dirs
          /\ Right(Right(Right(d))) \in Dirs
      BY RightFacts
    <3>2. dirLock[Right(d)] = 0
      BY <2>1, <2>2
    <3>3. dirLock[Right(Right(d))] = 0
      BY <3>1, <3>2, <2>2
    <3>4. dirLock[Right(Right(Right(d)))] = 0
      BY <3>1, <3>3, <2>2
    <3> QED BY <2>1, <3>2, <3>3, <3>4, RightFacts
  <2> QED BY <2>2, <2>3 DEF Gridlock
<1> QED BY <1>1, Invariant1, PTL

=============================================================================
