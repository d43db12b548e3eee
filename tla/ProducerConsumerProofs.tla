----------------------- MODULE ProducerConsumerProofs -----------------------
(* Theorems about ProducerConsumer, for every number of producers and      *)
(* consumers, every queue size and every round of the workers.             *)
EXTENDS ProducerConsumer, FiniteSetTheorems, TLAPS

\* The manager ends at least one worker, and victim is the index of one.
LEMMA OrderFacts ==
  /\ Cardinality(Workers) \in Nat \ {0}
  /\ \A i \in 1 .. Cardinality(Workers) : Order[i] \in Workers
<1>1. Cardinality(Workers) \in Nat
  BY PCAssumption, FS_CardinalityType, Zenon DEF PCAssumption
<1>2. Cardinality(Workers) # 0
  BY PCAssumption, FS_EmptySet, Zenon DEF PCAssumption
<1> QED BY <1>1, <1>2, PCAssumption DEF PCAssumption

\* The other queue.
LEMMA OtherQueue ==
  \A q \in Queues : 1 - q \in Queues /\ 1 - q # q /\ 1 - (1 - q) = q
BY DEF Queues

-----------------------------------------------------------------------------
(* First layer: types and ownership.  A worker with its second queue has   *)
(* chosen both; one between rounds is back at its first.                   *)

Placed ==
  \A w \in Workers :
    /\ InMatrix(w) => stage[w] \in Marking
    /\ turn[w] = 2 => both[w]
    /\ stage[w] = "idle" => turn[w] = 1

Inv1 == TypeOK /\ Placed /\ Ownership

LEMMA InitInv1 == Init => Inv1
<1> SUFFICES ASSUME Init PROVE Inv1
  OBVIOUS
<1>1. TypeOK
  <2>1. /\ both \in [Workers -> BOOLEAN]
        /\ removed \in BOOLEAN /\ found \in BOOLEAN
    BY Zenon DEF Init
  <2>2. victim \in 1 .. Cardinality(Workers)
    BY OrderFacts DEF Init
  <2>3. stage \in [Workers -> Stages] /\ total \in [Kinds -> Nat]
    BY DEF Init, Stages
  <2>4. Blank \in [Workers -> [Queues -> {NONE, WAIT, LOCK}]]
    BY DEF Blank
  <2>5. copy \in [Workers -> [Workers -> [Queues -> {NONE, WAIT, LOCK}]]]
    BY <2>4 DEF Init
  <2>6. seen \in [Workers -> 0 .. QSize] /\ first \in [Workers -> Queues]
    BY PCAssumption DEF PCAssumption, Init, Queues
  <2> QED BY <2>1, <2>2, <2>3, <2>4, <2>5, <2>6 DEF Init, TypeOK
<1>2. Placed
  BY DEF Init, Placed, InMatrix
<1>3. Ownership
  BY DEF Init, Ownership, QueueOwned, MatrixOwned, Holds, HoldsFirst,
         HoldsSecond, InMatrix, ManagerInMatrix
<1> QED BY <1>1, <1>2, <1>3 DEF Inv1

LEMMA QueueType ==
  ASSUME TypeOK, NEW w \in Workers
  PROVE  /\ Queue(w) \in Queues
         /\ first[w] \in Queues /\ 1 - first[w] \in Queues
         /\ 1 - first[w] # first[w]
         /\ turn[w] = 1 => Queue(w) = first[w]
         /\ turn[w] = 2 => Queue(w) = 1 - first[w]
         /\ turn[w] \in {1, 2}
BY OtherQueue DEF TypeOK, Queue

\* A step that keeps who holds what and the semaphores of the queues.
LEMMA QueuesKept ==
  ASSUME QueueOwned, qLock' = qLock,
         \A w \in Workers : \A q \in Queues : Holds(w, q)' <=> Holds(w, q)
  PROVE  QueueOwned'
BY DEF QueueOwned

\* A step outside the matrix.
LEMMA MatrixKept ==
  ASSUME MatrixOwned, step' = step, matLock' = matLock,
         ManagerInMatrix' <=> ManagerInMatrix
  PROVE  MatrixOwned'
BY DEF MatrixOwned, InMatrix

LEMMA ChooseInv1 ==
  ASSUME NEW w \in Workers, Inv1, Choose(w)
  PROVE  Inv1'
<1> USE DEF Inv1
<1>1. /\ stage[w] = "idle" /\ turn[w] = 1
      /\ stage' = [stage EXCEPT ![w] = "ask"]
      /\ UNCHANGED <<turn, seen, count, status, step, copy, file, matLock,
                     qLock, qnum, removed, manager, found, victim, total>>
  BY DEF Choose, At, Placed, fileVars, managerVars
<1>2. PICK q \in Queues, b \in BOOLEAN : /\ first' = [first EXCEPT ![w] = q]
                                        /\ both' = [both EXCEPT ![w] = b]
  BY DEF Choose
<1>3. both' \in [Workers -> BOOLEAN]
  BY <1>2 DEF TypeOK
<1>4. TypeOK'
  BY <1>1, <1>2, <1>3 DEF TypeOK, Stages, Marking
<1>5. Placed'
  BY <1>1, <1>2 DEF Placed, InMatrix, TypeOK, Marking
<1>6. \A v \in Workers : \A r \in Queues : Holds(v, r)' <=> Holds(v, r)
  BY <1>1, <1>2 DEF TypeOK, Holds, HoldsFirst, HoldsSecond
<1>7. QueueOwned'
  BY <1>1, <1>6, QueuesKept DEF Ownership
<1>8. MatrixOwned'
  BY <1>1, MatrixKept DEF Ownership, ManagerInMatrix
<1> QED BY <1>4, <1>5, <1>7, <1>8 DEF Ownership

LEMMA MarkType ==
  ASSUME TypeOK, NEW w \in Workers
  PROVE  MarkState(w) \in {NONE, WAIT, LOCK}
BY DEF MarkState

LEMMA CellType ==
  ASSUME NEW m \in [Workers -> [Queues -> {NONE, WAIT, LOCK}]],
         NEW w \in Workers, NEW q \in Queues, NEW x \in {NONE, WAIT, LOCK}
  PROVE  [m EXCEPT ![w][q] = x] \in
           [Workers -> [Queues -> {NONE, WAIT, LOCK}]]
OBVIOUS

\* The steps of an update, but for its end.
LEMMA UpdateInv1 ==
  ASSUME NEW w \in Workers, Inv1,
         LockMatrix(w) \/ ReadMatrix(w) \/ WriteMatrix(w)
  PROVE  Inv1'
<1> USE DEF Inv1
<1>1. UNCHANGED <<stage, turn, first, both, seen, count, status, qLock, qnum,
                  removed, manager, found, victim, total>>
  BY DEF LockMatrix, ReadMatrix, WriteMatrix, planVars, managerVars
<1>2. /\ step' = [step EXCEPT ![w] = step'[w]]
      /\ step'[w] \in {"locked", "read", "written"}
      /\ stage[w] \in Marking
      /\ \/ step[w] = "out" /\ matLock = 1 /\ matLock' = 0
         \/ step[w] # "out" /\ matLock' = matLock
  BY DEF LockMatrix, ReadMatrix, WriteMatrix, TypeOK, Placed, InMatrix
<1>3. copy' \in [Workers -> [Workers -> [Queues -> {NONE, WAIT, LOCK}]]]
  <2>1. Blank \in [Workers -> [Queues -> {NONE, WAIT, LOCK}]]
    BY DEF Blank
  <2> QED BY <2>1 DEF LockMatrix, ReadMatrix, WriteMatrix, TypeOK
<1>4. file' \in [Workers -> [Queues -> {NONE, WAIT, LOCK}]]
  <2>1. Queue(w) \in Queues /\ MarkState(w) \in {NONE, WAIT, LOCK}
    BY MarkType, QueueType
  <2>2. /\ file \in [Workers -> [Queues -> {NONE, WAIT, LOCK}]]
        /\ copy[w] \in [Workers -> [Queues -> {NONE, WAIT, LOCK}]]
    BY DEF TypeOK
  <2>3. file' = file \/ file' = [copy[w] EXCEPT ![w][Queue(w)] = MarkState(w)]
    BY DEF LockMatrix, ReadMatrix, WriteMatrix
  <2>4. [copy[w] EXCEPT ![w][Queue(w)] = MarkState(w)] \in
          [Workers -> [Queues -> {NONE, WAIT, LOCK}]]
    BY <2>1, <2>2, CellType, Zenon
  <2> QED BY <2>2, <2>3, <2>4, Zenon
<1>5. TypeOK'
  <2>1. step' \in [Workers -> {"out", "locked", "read", "written"}]
    BY <1>2 DEF TypeOK
  <2>2. matLock' \in 0 .. 1
    BY <1>2 DEF TypeOK
  <2> QED BY <1>1, <1>3, <1>4, <2>1, <2>2 DEF TypeOK
<1>6. Placed'
  BY <1>1, <1>2 DEF Placed, InMatrix, TypeOK
<1>7. QueueOwned'
  BY <1>1 DEF Ownership, QueueOwned, Holds, HoldsFirst, HoldsSecond
<1>8. MatrixOwned'
  <2>1. \A v \in Workers : v # w => step'[v] = step[v]
    BY <1>2 DEF TypeOK
  <2> QED BY <1>1, <1>2, <2>1
          DEF Ownership, MatrixOwned, InMatrix, ManagerInMatrix
<1> QED BY <1>5, <1>6, <1>7, <1>8 DEF Ownership

LEMMA UnlockInv1 ==
  ASSUME NEW w \in Workers, Inv1, UnlockMatrix(w)
  PROVE  Inv1'
<1> USE DEF Inv1
<1>1. /\ UNCHANGED <<turn, first, both, seen, count, status, copy, file,
                     qLock, qnum, removed, manager, found, victim, total>>
      /\ stage' = [stage EXCEPT ![w] = AfterMark[stage[w]]]
      /\ step' = [step EXCEPT ![w] = "out"] /\ step[w] = "written"
      /\ matLock' = matLock + 1
  BY DEF UnlockMatrix, planVars, managerVars
<1>2. /\ stage[w] \in Marking /\ matLock = 0 /\ ~ ManagerInMatrix
      /\ \A v \in Workers : v # w => ~ InMatrix(v)
  BY <1>1 DEF Placed, Ownership, MatrixOwned, InMatrix, TypeOK
<1>3. TypeOK'
  BY <1>1, <1>2 DEF TypeOK, Stages, Marking, AfterMark
<1>4. Placed'
  BY <1>1, <1>2 DEF Placed, InMatrix, TypeOK, Marking, AfterMark
<1>5. \A v \in Workers : \A r \in Queues : Holds(v, r)' <=> Holds(v, r)
  BY <1>1, <1>2 DEF TypeOK, Holds, HoldsFirst, HoldsSecond, Marking, AfterMark
<1>6. QueueOwned'
  BY <1>1, <1>5, QueuesKept DEF Ownership
<1>7. MatrixOwned'
  BY <1>1, <1>2 DEF MatrixOwned, InMatrix, ManagerInMatrix, TypeOK
<1> QED BY <1>3, <1>4, <1>6, <1>7 DEF Ownership

\* From sem_wait on, w is the one holder of the queue.
LEMMA WaitQueueInv1 ==
  ASSUME NEW w \in Workers, Inv1, WaitQueue(w)
  PROVE  Inv1'
<1> USE DEF Inv1
<1>1. /\ UNCHANGED <<turn, first, both, seen, count, status, step, copy,
                     file, matLock, qnum, removed, manager, found, victim,
                     total>>
      /\ stage[w] = "wait" /\ stage' = [stage EXCEPT ![w] = "have"]
      /\ qLock[Queue(w)] > 0
      /\ qLock' = [qLock EXCEPT ![Queue(w)] = @ - 1]
  BY DEF WaitQueue, At, planVars, managerVars, fileVars
<1>0. /\ Queue(w) \in Queues
      /\ turn[w] = 1 => Queue(w) = first[w]
      /\ turn[w] = 2 => Queue(w) = 1 - first[w] /\ both[w]
      /\ turn[w] \in {1, 2}
      /\ stage' \in [Workers -> Stages] /\ stage'[w] = "have"
      /\ \A v \in Workers : v # w => stage'[v] = stage[v]
  BY <1>1, QueueType DEF Placed, TypeOK, Stages, Marking
<1>2. qLock[Queue(w)] = 1 /\ \A v \in Workers : ~ Holds(v, Queue(w))
  BY <1>0, <1>1 DEF TypeOK, Ownership, QueueOwned
<1>3. \A v \in Workers : \A r \in Queues :
        Holds(v, r)' <=> Holds(v, r) \/ (v = w /\ r = Queue(w))
  <2>1. ASSUME NEW r \in Queues
        PROVE  Holds(w, r)' <=> Holds(w, r) \/ r = Queue(w)
    BY <1>0, <1>1 DEF Holds, HoldsFirst, HoldsSecond
  <2>2. ASSUME NEW v \in Workers, NEW r \in Queues, v # w
        PROVE  Holds(v, r)' <=> Holds(v, r)
    BY <1>0, <1>1, <2>2 DEF Holds, HoldsFirst, HoldsSecond
  <2> QED BY <2>1, <2>2
<1>4. TypeOK'
  BY <1>0, <1>1, <1>2 DEF TypeOK
<1>5. Placed'
  BY <1>1 DEF Placed, InMatrix, TypeOK, Marking
<1>6. QueueOwned'
  <2>1. /\ qLock'[Queue(w)] = 0
        /\ \A r \in Queues : r # Queue(w) => qLock'[r] = qLock[r]
    BY <1>0, <1>1, <1>2 DEF TypeOK
  <2> QED BY <1>0, <1>2, <1>3, <2>1 DEF Ownership, QueueOwned
<1>7. MatrixOwned'
  BY <1>1, MatrixKept DEF Ownership, ManagerInMatrix
<1> QED BY <1>4, <1>5, <1>6, <1>7 DEF Ownership

LEMMA StatInv1 ==
  ASSUME NEW w \in Workers, Inv1, Stat(w)
  PROVE  Inv1'
<1> USE DEF Inv1
<1>1. /\ UNCHANGED <<turn, first, both, count, status, step, copy, file,
                     matLock, qLock, qnum, removed, manager, found, victim,
                     total>>
      /\ stage[w] = "stat" /\ stage' = [stage EXCEPT ![w] = "use"]
      /\ \E n \in 0 .. QSize : seen' = [seen EXCEPT ![w] = n]
  BY DEF Stat, At, planVars, managerVars, fileVars
<1>2. TypeOK'
  BY <1>1 DEF TypeOK, Stages
<1>3. Placed'
  BY <1>1 DEF Placed, InMatrix, TypeOK, Marking
<1>4. \A v \in Workers : \A r \in Queues : Holds(v, r)' <=> Holds(v, r)
  BY <1>1 DEF TypeOK, Holds, HoldsFirst, HoldsSecond
<1>5. QueueOwned'
  BY <1>1, <1>4, QueuesKept DEF Ownership
<1>6. MatrixOwned'
  BY <1>1, MatrixKept DEF Ownership, ManagerInMatrix
<1> QED BY <1>2, <1>3, <1>5, <1>6 DEF Ownership

LEMMA UseInv1 ==
  ASSUME NEW w \in Workers, Inv1, Insert(w) \/ Consume(w)
  PROVE  Inv1'
<1> USE DEF Inv1
<1>1. /\ UNCHANGED <<first, both, step, copy, file, matLock, qLock, removed,
                     manager, found, victim, total>>
      /\ stage[w] = "use"
      /\ seen' = [seen EXCEPT ![w] = 0]
  BY DEF Insert, Consume, At, fileVars, managerVars
<1>2. \/ /\ turn[w] = 1 /\ both[w]
         /\ turn' = [turn EXCEPT ![w] = 2]
         /\ stage' = [stage EXCEPT ![w] = "ask"]
      \/ /\ ~ (turn[w] = 1 /\ both[w])
         /\ turn' = [turn EXCEPT ![w] = 1]
         /\ stage' = [stage EXCEPT ![w] = "clear"]
      \/ UNCHANGED <<turn, stage>>
  BY DEF Insert, Consume, AfterUse
<1>3. Queue(w) \in Queues
  BY QueueType
<1>4. status' \in [Workers -> {"running", "signalled", "exited", "failed"}]
  BY DEF Insert, Consume, TypeOK
<1>5. count' \in [Workers -> Nat] /\ qnum' \in [Queues -> Nat]
  <2>0. count \in [Workers -> Nat] /\ qnum \in [Queues -> Nat]
    BY DEF TypeOK
  <2>1. CASE Insert(w)
    <3>1. /\ count' = count \/ count' = [count EXCEPT ![w] = @ + 1]
          /\ qnum' = qnum \/ qnum' = [qnum EXCEPT ![Queue(w)] = @ + 1]
      BY <2>1 DEF Insert
    <3> QED BY <1>3, <2>0, <3>1
  <2>2. CASE Consume(w)
    <3>1. \/ UNCHANGED <<qnum, count>>
          \/ /\ qnum[Queue(w)] # 0
             /\ qnum' = [qnum EXCEPT ![Queue(w)] = @ - 1]
             /\ count' = [count EXCEPT ![w] = @ + 1]
      BY <2>2 DEF Consume
    <3>2. \/ UNCHANGED <<qnum, count>>
          \/ /\ qnum[Queue(w)] \in Nat /\ qnum[Queue(w)] # 0
             /\ qnum' = [qnum EXCEPT ![Queue(w)] = @ - 1]
             /\ count' = [count EXCEPT ![w] = @ + 1]
      BY <1>3, <2>0, <3>1
    <3>3. count' \in [Workers -> Nat]
      BY <2>0, <3>2
    <3>4. qnum' \in [Queues -> Nat]
      BY <1>3, <2>0, <3>2
    <3> QED BY <3>3, <3>4
  <2> QED BY <2>1, <2>2
<1>6. TypeOK'
  <2>1. seen' \in [Workers -> 0 .. QSize]
    BY <1>1, PCAssumption DEF TypeOK, PCAssumption
  <2>2. stage' \in [Workers -> Stages] /\ turn' \in [Workers -> 1 .. 2]
    <3>1. stage \in [Workers -> Stages] /\ turn \in [Workers -> 1 .. 2]
      BY DEF TypeOK
    <3>2. {"ask", "clear"} \subseteq Stages
      BY DEF Stages, Marking
    <3> QED BY <1>2, <3>1, <3>2
  <2> QED BY <1>1, <1>4, <1>5, <2>1, <2>2 DEF TypeOK
<1>7. Placed'
  BY <1>1, <1>2 DEF Placed, InMatrix, TypeOK, Marking
<1>8. \A v \in Workers : \A r \in Queues : Holds(v, r)' <=> Holds(v, r)
  BY <1>1, <1>2 DEF Placed, TypeOK, Holds, HoldsFirst, HoldsSecond
<1>9. QueueOwned'
  BY <1>1, <1>8, QueuesKept DEF Ownership
<1>10. MatrixOwned'
  BY <1>1, MatrixKept DEF Ownership, ManagerInMatrix
<1> QED BY <1>6, <1>7, <1>9, <1>10 DEF Ownership

\* w was the one holder of the queue it gives up.
LEMMA PostQueueInv1 ==
  ASSUME NEW w \in Workers, Inv1, PostQueue(w)
  PROVE  Inv1'
<1> USE DEF Inv1
<1>1. /\ UNCHANGED <<first, both, seen, count, status, step, copy,
                     file, matLock, qnum, removed, manager, found, victim,
                     total>>
      /\ stage[w] = "post"
      /\ qLock' = [qLock EXCEPT ![Queue(w)] = @ + 1]
  BY DEF PostQueue, At, managerVars, fileVars
<1>2. \/ /\ turn[w] = 1 /\ both[w]
         /\ turn' = [turn EXCEPT ![w] = 2]
         /\ stage' = [stage EXCEPT ![w] = "clear"]
      \/ /\ ~ (turn[w] = 1 /\ both[w])
         /\ turn' = [turn EXCEPT ![w] = 1]
         /\ stage' = [stage EXCEPT ![w] = "idle"]
  BY DEF PostQueue
<1>3. /\ Queue(w) \in Queues
      /\ turn[w] = 1 => Queue(w) = first[w]
      /\ turn[w] = 2 => Queue(w) = 1 - first[w] /\ both[w]
      /\ turn[w] \in {1, 2}
      /\ 1 - first[w] # first[w]
  BY QueueType DEF Placed
<1>4. Holds(w, Queue(w))
  BY <1>1, <1>3 DEF Holds, HoldsFirst, HoldsSecond
<1>5. qLock[Queue(w)] = 0 /\ \A v \in Workers : Holds(v, Queue(w)) => v = w
  BY <1>3, <1>4 DEF TypeOK, Ownership, QueueOwned
<1>6. /\ stage' \in [Workers -> Stages] /\ turn' \in [Workers -> 1 .. 2]
      /\ \A v \in Workers : v # w => stage'[v] = stage[v] /\ turn'[v] = turn[v]
      /\ \/ turn[w] = 1 /\ both[w] /\ turn'[w] = 2 /\ stage'[w] = "clear"
         \/ /\ ~ (turn[w] = 1 /\ both[w])
            /\ turn'[w] = 1 /\ stage'[w] = "idle"
  <2>1. stage \in [Workers -> Stages] /\ turn \in [Workers -> 1 .. 2]
    BY DEF TypeOK
  <2>2. {"idle", "clear"} \subseteq Stages
    BY DEF Stages, Marking
  <2>3. stage' \in [Workers -> Stages] /\ turn' \in [Workers -> 1 .. 2]
    BY <1>2, <2>1, <2>2
  <2> QED BY <1>2, <2>1, <2>3
<1>7. \A v \in Workers : \A r \in Queues :
        Holds(v, r)' <=> Holds(v, r) /\ ~ (v = w /\ r = Queue(w))
  <2>1. ASSUME NEW r \in Queues
        PROVE  Holds(w, r)' <=> Holds(w, r) /\ r # Queue(w)
    BY <1>1, <1>3, <1>6 DEF Holds, HoldsFirst, HoldsSecond
  <2>2. ASSUME NEW v \in Workers, NEW r \in Queues, v # w
        PROVE  Holds(v, r)' <=> Holds(v, r)
    BY <1>1, <1>6, <2>2 DEF Holds, HoldsFirst, HoldsSecond
  <2> QED BY <2>1, <2>2
<1>8. TypeOK'
  BY <1>1, <1>3, <1>5, <1>6 DEF TypeOK
<1>9. Placed'
  BY <1>1, <1>3, <1>6 DEF Placed, InMatrix, Marking
<1>10. QueueOwned'
  <2>1. /\ qLock'[Queue(w)] = 1
        /\ \A r \in Queues : r # Queue(w) => qLock'[r] = qLock[r]
    BY <1>1, <1>3, <1>5 DEF TypeOK
  <2> QED BY <1>3, <1>5, <1>7, <2>1 DEF Ownership, QueueOwned
<1>11. MatrixOwned'
  BY <1>1, MatrixKept DEF Ownership, ManagerInMatrix
<1> QED BY <1>8, <1>9, <1>10, <1>11 DEF Ownership

\* The steps that leave the loops of the workers alone.
LEMMA ManagerInv1 ==
  ASSUME Inv1, Manager \/ (\E w \in Workers : Terminate(w))
  PROVE  Inv1'
<1> USE DEF Inv1
<1>1. UNCHANGED <<stage, turn, first, both, seen, count, step, copy, file,
                  qLock, qnum>>
  BY DEF Manager, ManagerLock, ManagerRead, ManagerUnlock, NoDeadlock,
         RemoveQueues, Kill, Reap, Terminate, planVars, fileVars, managerVars
<1>2. /\ matLock' \in 0 .. 1
      /\ MatrixOwned'
  <2>1. CASE ManagerLock
    BY <1>1, <2>1 DEF ManagerLock, ManagerMoves, TypeOK, Ownership,
                      MatrixOwned, InMatrix, ManagerInMatrix
  <2>2. CASE ManagerUnlock
    BY <1>1, <2>2 DEF ManagerUnlock, ManagerMoves, TypeOK, Ownership,
                      MatrixOwned, InMatrix, ManagerInMatrix
  <2>3. CASE \/ ManagerRead \/ NoDeadlock \/ RemoveQueues \/ Kill \/ Reap
             \/ \E w \in Workers : Terminate(w)
    <3>1. matLock' = matLock /\ (ManagerInMatrix' <=> ManagerInMatrix)
      BY <2>3 DEF ManagerRead, NoDeadlock, RemoveQueues, Kill, Reap,
         Terminate, fileVars, managerVars, ManagerMoves, ManagerInMatrix
    <3> QED BY <1>1, <3>1, MatrixKept DEF Ownership, TypeOK
  <2> QED BY <2>1, <2>2, <2>3 DEF Manager
<1>3. status' \in [Workers -> {"running", "signalled", "exited", "failed"}]
  <2>1. Order[victim] \in Workers
    BY OrderFacts DEF TypeOK
  <2> QED BY <2>1 DEF Manager, ManagerLock, ManagerRead, ManagerUnlock,
          NoDeadlock, RemoveQueues, Kill, Reap, Terminate, TypeOK
<1>4. victim' \in 1 .. Cardinality(Workers) /\ total' \in [Kinds -> Nat]
  <2>1. CASE Reap
    <3>1. /\ Order[victim] \in Workers
          /\ count[Order[victim]] \in Nat /\ victim \in 1 .. Cardinality(Workers)
      BY OrderFacts DEF TypeOK
    <3>2. count[Order[victim]] % ExitModulus \in Nat
      BY <3>1, PCAssumption DEF PCAssumption
    <3>3. PICK code \in Nat, k \in Kinds :
            total' = [total EXCEPT ![k] = @ + code]
      BY <2>1, <3>2 DEF Reap, Kinds
    <3>4. victim' \in 1 .. Cardinality(Workers)
      BY <2>1, <3>1, OrderFacts DEF Reap
    <3> QED BY <3>3, <3>4 DEF TypeOK
  <2>2. CASE ~ Reap
    BY <2>2 DEF Manager, ManagerLock, ManagerRead, ManagerUnlock, NoDeadlock,
           RemoveQueues, Kill, Terminate, TypeOK, managerVars
  <2> QED BY <2>1, <2>2
<1>5. manager' \in {"sleep", "read", "unlock", "judge", "kill", "reap",
                    "ended", "print", "done"}
  BY DEF Manager, ManagerLock, ManagerRead, ManagerUnlock, NoDeadlock,
         RemoveQueues, Kill, Reap, Terminate, ManagerMoves, TypeOK,
         managerVars
<1>6. removed' \in BOOLEAN /\ found' \in BOOLEAN
  <2>1. removed' = removed \/ removed' = TRUE
    BY DEF Manager, ManagerLock, ManagerRead, ManagerUnlock, NoDeadlock,
           RemoveQueues, Kill, Reap, Terminate, managerVars
  <2>2. found' = found \/ found' = CheckCycle(file)
    BY DEF Manager, ManagerLock, ManagerRead, ManagerUnlock, NoDeadlock,
           RemoveQueues, Kill, Reap, Terminate, managerVars
  <2>3. CheckCycle(file) \in BOOLEAN
    BY Zenon DEF CheckCycle
  <2>4. removed \in BOOLEAN /\ found \in BOOLEAN
    BY DEF TypeOK
  <2> QED BY <2>1, <2>2, <2>3, <2>4, Zenon
<1>7. TypeOK'
  BY <1>1, <1>2, <1>3, <1>4, <1>5, <1>6 DEF TypeOK
<1>8. Placed'
  BY <1>1 DEF Placed, InMatrix
<1>9. QueueOwned'
  BY <1>1 DEF Ownership, QueueOwned, Holds, HoldsFirst, HoldsSecond
<1> QED BY <1>2, <1>7, <1>8, <1>9 DEF Ownership

LEMMA NextInv1 ==
  ASSUME Inv1, [Next]_vars
  PROVE  Inv1'
<1>1. ASSUME NEW w \in Workers, Worker(w)
      PROVE  Inv1'
  BY <1>1, ChooseInv1, UpdateInv1, UnlockInv1, WaitQueueInv1, StatInv1,
     UseInv1, PostQueueInv1, ManagerInv1 DEF Worker
<1>2. CASE Manager
  BY <1>2, ManagerInv1
<1>3. CASE UNCHANGED vars
  BY <1>3 DEF Inv1, vars, TypeOK, Placed, Ownership, QueueOwned, MatrixOwned,
         InMatrix, ManagerInMatrix, Holds, HoldsFirst, HoldsSecond
<1> QED BY <1>1, <1>2, <1>3 DEF Next

\* Workers and manager are in an update of the file only where they mark it, and a
\* semaphore is held by the one the places of the workers say.
THEOREM Invariant1 == Spec => []Inv1
<1>1. Inv1 /\ [Next]_vars => Inv1'
  BY NextInv1
<1> QED BY <1>1, InitInv1, PTL DEF Spec

\* Types, for every number of workers.
THEOREM TypeCorrect == Spec => []TypeOK
<1>1. Inv1 => TypeOK
  BY DEF Inv1
<1> QED BY <1>1, Invariant1, PTL

\* One holder for a queue and for the file, and semaphores that say so.
THEOREM LocksOwned == Spec => []Ownership
<1>1. Inv1 => Ownership
  BY DEF Inv1
<1> QED BY <1>1, Invariant1, PTL

-----------------------------------------------------------------------------
(* Second layer: what the file says.                                       *)

\* A step outside the file that keeps the marks of every worker.
LEMMA MarksKept ==
  ASSUME FileTruthful, UNCHANGED <<copy, file>>,
         \A w \in Workers : step'[w] = "read" => step[w] = "read",
         \A w \in Workers : \A q \in Queues : MarkOf(w, q)' = MarkOf(w, q)
  PROVE  FileTruthful'
BY DEF FileTruthful

\* The marks of a worker that a step of another one leaves alone.
LEMMA OthersKept ==
  ASSUME NEW v \in Workers, NEW q \in Queues,
         stage'[v] = stage[v], turn'[v] = turn[v], first'[v] = first[v],
         both'[v] = both[v], step'[v] = step[v]
  PROVE  MarkOf(v, q)' = MarkOf(v, q)
BY DEF MarkOf, Holds, HoldsFirst, HoldsSecond, Queue, Done

LEMMA WriteTruthful ==
  ASSUME NEW w \in Workers, Inv1, FileTruthful, WriteMatrix(w)
  PROVE  FileTruthful'
<1> USE DEF Inv1
<1>1. /\ UNCHANGED <<stage, turn, first, both>>
      /\ step[w] = "read" /\ stage[w] \in Marking /\ copy[w] = file
      /\ step' = [step EXCEPT ![w] = "written"]
      /\ file' = [file EXCEPT ![w][Queue(w)] = MarkState(w)]
  BY DEF WriteMatrix, planVars, FileTruthful, Placed, InMatrix
<1>2. /\ file \in [Workers -> [Queues -> {NONE, WAIT, LOCK}]]
      /\ step \in [Workers -> {"out", "locked", "read", "written"}]
      /\ Queue(w) \in Queues
  BY QueueType DEF TypeOK
<1>3. \A v \in Workers : v # w => step[v] = "out" /\ step'[v] = "out"
  BY <1>1, <1>2 DEF Ownership, MatrixOwned, InMatrix
<1>4. \A v \in Workers : step'[v] # "read"
  BY <1>1, <1>2, <1>3
<1>5. ASSUME NEW v \in Workers, NEW q \in Queues, v # w
      PROVE  file'[v][q] = MarkOf(v, q)'
  <2>1. file'[v][q] = file[v][q]
    BY <1>1, <1>2, <1>5
  <2>2. MarkOf(v, q)' = MarkOf(v, q)
    BY <1>1, <1>3, <1>5, OthersKept
  <2> QED BY <2>1, <2>2 DEF FileTruthful
<1>6. ASSUME NEW q \in Queues
      PROVE  file'[w][q] = MarkOf(w, q)'
  <2>1. file'[w][q] = IF q = Queue(w) THEN MarkState(w) ELSE MarkOf(w, q)
    BY <1>1, <1>2 DEF FileTruthful
  <2>2. Done(w)' /\ ~ Done(w)
    BY <1>1, <1>2 DEF Done
  <2>3. Queue(w)' = Queue(w) /\ (Holds(w, q)' <=> Holds(w, q))
    BY <1>1 DEF Queue, Holds, HoldsFirst, HoldsSecond
  <2>4. stage[w] = "have" => Holds(w, Queue(w))
    BY <1>1, QueueType DEF Holds, HoldsFirst, HoldsSecond, Placed
  <2>5. MarkOf(w, q)' = IF q = Queue(w) THEN MarkState(w) ELSE MarkOf(w, q)
    BY <1>1, <2>2, <2>3, <2>4 DEF MarkOf, MarkState, Marking
  <2> QED BY <2>1, <2>5
<1> QED BY <1>4, <1>5, <1>6 DEF FileTruthful

LEMMA WorkerTruthful ==
  ASSUME NEW w \in Workers, Inv1, FileTruthful, Worker(w)
  PROVE  FileTruthful'
<1> USE DEF Inv1
<1>0. /\ stage \in [Workers -> Stages] /\ turn \in [Workers -> 1 .. 2]
      /\ first \in [Workers -> Queues] /\ both \in [Workers -> BOOLEAN]
      /\ step \in [Workers -> {"out", "locked", "read", "written"}]
      /\ turn[w] = 2 => both[w]
      /\ first[w] \in Queues /\ 1 - first[w] # first[w]
  BY QueueType DEF TypeOK, Placed
<1>1. CASE LockMatrix(w)
  <2>1. UNCHANGED <<stage, turn, first, both, copy, file>>
        /\ step' = [step EXCEPT ![w] = "locked"] /\ step[w] = "out"
    BY <1>1 DEF LockMatrix, planVars
  <2>2. \A v \in Workers : Done(v)' <=> Done(v)
    BY <1>0, <2>1 DEF Done
  <2>3. \A v \in Workers : \A q \in Queues : MarkOf(v, q)' = MarkOf(v, q)
    BY <2>1, <2>2 DEF MarkOf, Holds, HoldsFirst, HoldsSecond, Queue
  <2>4. \A v \in Workers : step'[v] = "read" => step[v] = "read"
    BY <1>0, <2>1
  <2> QED BY <2>1, <2>3, <2>4, MarksKept
<1>2. CASE ReadMatrix(w)
  <2>1. UNCHANGED <<stage, turn, first, both, file>>
        /\ step' = [step EXCEPT ![w] = "read"] /\ step[w] = "locked"
        /\ copy' = [copy EXCEPT ![w] = file]
    BY <1>2 DEF ReadMatrix, planVars
  <2>2. \A v \in Workers : Done(v)' <=> Done(v)
    BY <1>0, <2>1 DEF Done
  <2>3. \A v \in Workers : \A q \in Queues : MarkOf(v, q)' = MarkOf(v, q)
    BY <2>1, <2>2 DEF MarkOf, Holds, HoldsFirst, HoldsSecond, Queue
  <2>4. \A v \in Workers : step'[v] = "read" => copy'[v] = file
    BY <1>0, <2>1 DEF FileTruthful, TypeOK
  <2> QED BY <2>1, <2>3, <2>4 DEF FileTruthful
<1>3. CASE WriteMatrix(w)
  BY <1>3, WriteTruthful
<1>4. CASE UnlockMatrix(w)
  <2>1. /\ UNCHANGED <<turn, first, both, copy, file>>
        /\ step[w] = "written" /\ step' = [step EXCEPT ![w] = "out"]
        /\ stage' = [stage EXCEPT ![w] = AfterMark[stage[w]]]
        /\ stage[w] \in Marking
    BY <1>4 DEF UnlockMatrix, planVars, Placed, InMatrix
  <2>2. ASSUME NEW q \in Queues
        PROVE  MarkOf(w, q)' = MarkOf(w, q)
    <3>1. /\ stage'[w] = AfterMark[stage[w]] /\ step'[w] = "out"
          /\ Queue(w)' = Queue(w)
      BY <1>0, <2>1 DEF Queue
    <3>2. Holds(w, q)' <=> Holds(w, q)
      BY <2>1, <3>1 DEF Holds, HoldsFirst, HoldsSecond, AfterMark, Marking
    <3>3. stage[w] = "have" => Holds(w, Queue(w))
      BY <1>0 DEF Holds, HoldsFirst, HoldsSecond, Queue
    <3> QED BY <2>1, <3>1, <3>2, <3>3 DEF MarkOf, Done, AfterMark, Marking
  <2>3. ASSUME NEW v \in Workers, NEW q \in Queues, v # w
        PROVE  MarkOf(v, q)' = MarkOf(v, q)
    BY <1>0, <2>1, <2>3, OthersKept
  <2>4. \A v \in Workers : step'[v] = "read" => step[v] = "read"
    BY <1>0, <2>1
  <2> QED BY <2>1, <2>2, <2>3, <2>4, MarksKept
<1>5. CASE \/ Choose(w) \/ WaitQueue(w) \/ Stat(w) \/ Insert(w)
           \/ Consume(w) \/ PostQueue(w)
  <2>1. UNCHANGED <<step, copy, file>>
    BY <1>5 DEF Choose, WaitQueue, Stat, Insert, Consume, PostQueue, fileVars
  <2>2. ~ Done(w) /\ ~ Done(w)'
    BY <1>5, <2>1 DEF Choose, WaitQueue, Stat, Insert, Consume, PostQueue,
       Placed, InMatrix, Marking, Done, At
  <2>3. \A v \in Workers : v # w =>
          /\ stage'[v] = stage[v] /\ turn'[v] = turn[v]
          /\ first'[v] = first[v] /\ both'[v] = both[v]
    BY <1>0, <1>5 DEF Choose, WaitQueue, Stat, Insert, Consume, PostQueue,
       AfterUse, planVars
  <2>4. ASSUME NEW q \in Queues
        PROVE  MarkOf(w, q)' = MarkOf(w, q)
    <3>1. CASE Choose(w)
      <4>1. stage[w] = "idle" /\ stage'[w] = "ask"
        BY <1>0, <3>1 DEF Choose, At
      <4>2. turn[w] = 1 /\ turn'[w] = 1
        BY <1>0, <3>1, <4>1 DEF Choose, Placed
      <4> QED BY <2>2, <4>1, <4>2 DEF MarkOf, Holds, HoldsFirst, HoldsSecond
    <3>2. CASE WaitQueue(w)
      <4>1. /\ stage[w] = "wait" /\ stage'[w] = "have"
            /\ UNCHANGED <<turn, first, both>>
        BY <1>0, <3>2 DEF WaitQueue, At, planVars
      <4> QED BY <1>0, <2>2, <4>1
              DEF MarkOf, Holds, HoldsFirst, HoldsSecond, Queue
    <3>3. CASE Stat(w)
      <4>1. /\ stage[w] = "stat" /\ stage'[w] = "use"
            /\ UNCHANGED <<turn, first, both>>
        BY <1>0, <3>3 DEF Stat, At, planVars
      <4> QED BY <2>2, <4>1 DEF MarkOf, Holds, HoldsFirst, HoldsSecond, Queue
    <3>4. CASE Insert(w) \/ Consume(w)
      <4>1. /\ stage[w] = "use" /\ UNCHANGED <<first, both>>
            /\ \/ /\ turn[w] = 1 /\ both[w]
                  /\ turn'[w] = 2 /\ stage'[w] = "ask"
               \/ /\ ~ (turn[w] = 1 /\ both[w])
                  /\ turn'[w] = 1 /\ stage'[w] = "clear"
               \/ turn'[w] = turn[w] /\ stage'[w] = stage[w]
        BY <1>0, <3>4 DEF Insert, Consume, AfterUse, At
      <4>2. turn[w] \in {1, 2}
        BY <1>0
      <4> QED BY <1>0, <2>2, <4>1, <4>2
              DEF MarkOf, Holds, HoldsFirst, HoldsSecond, Queue
    <3>5. CASE PostQueue(w)
      <4>1. /\ stage[w] = "post" /\ UNCHANGED <<first, both>>
            /\ \/ /\ turn[w] = 1 /\ both[w]
                  /\ turn'[w] = 2 /\ stage'[w] = "clear"
               \/ /\ ~ (turn[w] = 1 /\ both[w])
                  /\ turn'[w] = 1 /\ stage'[w] = "idle"
        BY <1>0, <3>5 DEF PostQueue, At
      <4>2. turn[w] \in {1, 2}
        BY <1>0
      <4> QED BY <1>0, <2>2, <4>1, <4>2
              DEF MarkOf, Holds, HoldsFirst, HoldsSecond, Queue
    <3> QED BY <1>5, <3>1, <3>2, <3>3, <3>4, <3>5
  <2>5. ASSUME NEW v \in Workers, NEW q \in Queues, v # w
        PROVE  MarkOf(v, q)' = MarkOf(v, q)
    BY <2>1, <2>3, <2>5, OthersKept
  <2> QED BY <2>1, <2>4, <2>5, MarksKept
<1>6. CASE Terminate(w)
  <2>1. UNCHANGED <<stage, turn, first, both, step, copy, file>>
    BY <1>6 DEF Terminate, planVars, fileVars
  <2> QED BY <2>1, OthersKept, MarksKept
<1> QED BY <1>1, <1>2, <1>3, <1>4, <1>5, <1>6 DEF Worker

LEMMA NextTruthful ==
  ASSUME Inv1, FileTruthful, [Next]_vars
  PROVE  FileTruthful'
<1>1. CASE \E w \in Workers : Worker(w)
  BY <1>1, WorkerTruthful
<1>2. CASE Manager \/ UNCHANGED vars
  <2>1. UNCHANGED <<stage, turn, first, both, step, copy, file>>
    BY <1>2 DEF vars, Manager, ManagerLock, ManagerRead, ManagerUnlock,
       NoDeadlock, RemoveQueues, Kill, Reap, planVars, fileVars
  <2> QED BY <2>1, OthersKept, MarksKept
<1> QED BY <1>1, <1>2 DEF Next

\* No update of the file is lost, whatever the order of the workers.
THEOREM FileIsTruthful == Spec => []FileTruthful
<1>1. Init => FileTruthful
  BY DEF Init, FileTruthful, MarkOf, Holds, HoldsFirst, HoldsSecond, Done,
         Blank
<1>2. Inv1 /\ FileTruthful /\ [Next]_vars => FileTruthful'
  BY NextTruthful
<1> QED BY <1>1, <1>2, Invariant1, PTL DEF Spec

-----------------------------------------------------------------------------
(* Third layer: the manager's verdict.                                     *)

\* A caught consumer has its first queue.
LEMMA CaughtHolds ==
  ASSUME Inv1, NEW w \in Workers, NEW q \in Queues, Caught(w, q)
  PROVE  Holds(w, 1 - q) /\ Queue(w) = q
BY OtherQueue DEF Caught, Holds, HoldsFirst, Queue, Inv1, TypeOK

\* Nobody leaves a deadlock: each of the two waits for what the other has.
LEMMA DeadlockStable ==
  ASSUME Inv1, Deadlock, [Next]_vars
  PROVE  Deadlock'
<1> USE DEF Inv1
<1>1. ASSUME NEW q \in Queues
      PROVE  \E w \in Consumers : Caught(w, q)'
  <2>1. PICK w \in Consumers : Caught(w, q)
    BY DEF Deadlock
  <2>2. w \in Workers /\ stage[w] = "wait" /\ step[w] = "out"
    BY <2>1 DEF Workers, Caught, Placed, InMatrix, Marking
  <2>3. qLock[q] = 0
    <3>1. PICK v \in Consumers : Caught(v, 1 - q)
      BY OtherQueue DEF Deadlock
    <3>2. v \in Workers /\ Holds(v, q)
      BY <3>1, OtherQueue, CaughtHolds DEF Workers
    <3> QED BY <3>2 DEF Ownership, QueueOwned, TypeOK
  <2>4. Queue(w) = q
    BY <2>1, <2>2, CaughtHolds
  <2>5. /\ stage \in [Workers -> Stages] /\ turn \in [Workers -> 1 .. 2]
        /\ first \in [Workers -> Queues]
    BY DEF TypeOK
  <2>6. stage'[w] = stage[w] /\ turn'[w] = turn[w] /\ first'[w] = first[w]
    <3>1. ASSUME NEW v \in Workers, Worker(v)
          PROVE  stage'[w] = stage[w] /\ turn'[w] = turn[w]
                 /\ first'[w] = first[w]
      <4>1. CASE v = w
        <5>1. Terminate(w)
          BY <2>2, <2>3, <2>4, <3>1, <4>1 DEF Worker, Choose, LockMatrix,
             ReadMatrix, WriteMatrix, UnlockMatrix, WaitQueue, Stat, Insert,
             Consume, PostQueue, At, Marking
        <5> QED BY <5>1 DEF Terminate, planVars
      <4>2. CASE v # w
        <5>1. CASE \/ Choose(v) \/ WaitQueue(v) \/ Stat(v) \/ Insert(v)
                   \/ Consume(v) \/ PostQueue(v)
          BY <2>2, <2>5, <4>2, <5>1 DEF Choose, WaitQueue, Stat, Insert,
             Consume, PostQueue, AfterUse, planVars
        <5>2. CASE UnlockMatrix(v)
          BY <2>2, <2>5, <4>2, <5>2 DEF UnlockMatrix, planVars
        <5>3. CASE \/ LockMatrix(v) \/ ReadMatrix(v) \/ WriteMatrix(v)
                   \/ Terminate(v)
          BY <2>2, <5>3 DEF LockMatrix, ReadMatrix, WriteMatrix, Terminate,
             planVars
        <5> QED BY <3>1, <5>1, <5>2, <5>3 DEF Worker
      <4> QED BY <4>1, <4>2
    <3>2. CASE Manager \/ UNCHANGED vars
      BY <3>2 DEF vars, Manager, ManagerLock, ManagerRead, ManagerUnlock,
         NoDeadlock, RemoveQueues, Kill, Reap, planVars
    <3> QED BY <3>1, <3>2 DEF Next
  <2> QED BY <2>1, <2>6 DEF Caught
<1> QED BY <1>1 DEF Deadlock

\* The file the manager reads is nobody's copy to write: what it says of two
\* consumers is where they are.
LEMMA VerdictSound ==
  ASSUME Inv1, FileTruthful, manager = "read", CheckCycle(file)
  PROVE  Deadlock
<1> USE DEF Inv1
<1>1. \A w \in Workers : step[w] = "out"
  BY DEF Ownership, MatrixOwned, InMatrix, ManagerInMatrix
<1>2. ASSUME NEW q \in Queues, NEW w \in Workers, WaitsAndHolds(file, w, q)
      PROVE  /\ Holds(w, 1 - q) /\ ~ Holds(w, q) => Caught(w, q)
             /\ Holds(w, q) => stage[w] = "have"
             /\ Holds(w, 1 - q)
  <2>1. MarkOf(w, q) = WAIT /\ MarkOf(w, 1 - q) = LOCK
    BY <1>2, OtherQueue DEF FileTruthful, WaitsAndHolds
  <2>2. ~ Done(w)
    BY <1>1 DEF Done
  <2>3. q = Queue(w) /\ stage[w] \in {"wait", "have"}
    BY <2>1, <2>2 DEF MarkOf, WAIT, LOCK, NONE
  <2>4. Holds(w, 1 - q)
    BY <2>1 DEF MarkOf, WAIT, LOCK, NONE
  <2> QED BY <2>3, <2>4, QueueType, OtherQueue
          DEF Caught, Holds, HoldsFirst, HoldsSecond, Placed
<1>3. ASSUME NEW q \in Queues
      PROVE  \E w \in Consumers : Caught(w, q)
  <2>1. PICK w \in Consumers : WaitsAndHolds(file, w, q)
    BY DEF CheckCycle
  <2>2. PICK v \in Consumers : WaitsAndHolds(file, v, 1 - q)
    BY OtherQueue DEF CheckCycle
  <2>3. v \in Workers /\ w \in Workers
    BY DEF Workers
  <2>4. Holds(v, q) /\ Holds(w, 1 - q)
    BY <1>2, <2>1, <2>2, <2>3, OtherQueue
  <2>5. v # w
    BY <2>1, <2>2, OtherQueue DEF WaitsAndHolds, WAIT, LOCK
  <2>6. ~ Holds(w, q)
    BY <2>3, <2>4, <2>5 DEF Ownership, QueueOwned
  <2> QED BY <1>2, <2>1, <2>3, <2>4, <2>6
<1> QED BY <1>3 DEF Deadlock

Phases == removed <=> manager \in {"kill", "reap", "ended", "print", "done"}

Verdict == Phases /\ FoundIsDeadlock

LEMMA NextVerdict ==
  ASSUME Inv1, FileTruthful, Verdict, [Next]_vars
  PROVE  Verdict'
<1>1. Deadlock => Deadlock'
  BY DeadlockStable
<1>2. CASE (\E w \in Workers : Worker(w)) \/ UNCHANGED vars
  <2>1. UNCHANGED <<removed, manager, found>>
    BY <1>2 DEF vars, Worker, Choose, LockMatrix, ReadMatrix, WriteMatrix,
       UnlockMatrix, WaitQueue, Stat, Insert, Consume, PostQueue, Terminate,
       managerVars
  <2> QED BY <1>1, <2>1 DEF Verdict, Phases, FoundIsDeadlock
<1>3. CASE ManagerRead
  <2>1. /\ removed' = removed /\ manager = "read" /\ manager' = "unlock"
        /\ found' = CheckCycle(file)
    BY <1>3 DEF ManagerRead, ManagerMoves
  <2>2. found' => Deadlock
    BY <2>1, VerdictSound
  <2>3. ~ removed
    BY <2>1 DEF Verdict, Phases
  <2>4. Phases'
    BY <2>1, <2>3 DEF Phases
  <2>5. FoundIsDeadlock'
    BY <1>1, <2>1, <2>2, <2>3 DEF FoundIsDeadlock
  <2> QED BY <2>4, <2>5 DEF Verdict
<1>4. CASE RemoveQueues
  <2>1. /\ removed' = TRUE /\ found /\ found' = found /\ manager' = "kill"
    BY <1>4 DEF RemoveQueues, ManagerMoves
  <2> QED BY <1>1, <2>1 DEF Verdict, Phases, FoundIsDeadlock
<1>5. CASE ManagerLock \/ ManagerUnlock \/ NoDeadlock \/ Kill \/ Reap
  <2>1. UNCHANGED <<removed, found>>
    BY <1>5 DEF ManagerLock, ManagerUnlock, NoDeadlock, Kill, Reap
  <2>2. Phases'
    BY <1>5, <2>1 DEF ManagerLock, ManagerUnlock, NoDeadlock, Kill, Reap,
       ManagerMoves, Verdict, Phases
  <2> QED BY <1>1, <2>1, <2>2 DEF Verdict, FoundIsDeadlock
<1> QED BY <1>2, <1>3, <1>4, <1>5 DEF Next, Manager

\* The copy the manager looks at, and the cycle it follows in it, say something true
\* of the workers as long as it has not decided.
THEOREM VerdictInvariant == Spec => []Verdict
<1>1. Init => Verdict
  BY DEF Init, Verdict, Phases, FoundIsDeadlock
<1>2. Inv1 /\ FileTruthful /\ Verdict /\ [Next]_vars => Verdict'
  BY NextVerdict
<1> QED BY <1>1, <1>2, Invariant1, FileIsTruthful, PTL DEF Spec

\* The workers are ended for a real deadlock only, and it lasts.
THEOREM VerdictIsSound == Spec => []FoundIsDeadlock
<1>1. Verdict => FoundIsDeadlock
  BY DEF Verdict
<1> QED BY <1>1, VerdictInvariant, PTL

\* checkCycle stores at most two entries.
THEOREM CycleIsSmall == Spec => []CycleFits
<1>1. Inv1 /\ FileTruthful => CycleFits
  <2> SUFFICES ASSUME Inv1, FileTruthful, NEW q \in Queues,
                      NEW v \in Consumers, NEW w \in Consumers,
                      WaitsAndHolds(file, v, q), WaitsAndHolds(file, w, q)
               PROVE  v = w
    BY DEF CycleFits
  <2>1. ASSUME NEW u \in Workers, WaitsAndHolds(file, u, q)
        PROVE  Holds(u, 1 - q)
    <3>1. MarkOf(u, 1 - q) = LOCK
      BY <2>1, OtherQueue DEF FileTruthful, WaitsAndHolds
    <3> QED BY <3>1 DEF MarkOf, WAIT, LOCK, NONE
  <2>2. v \in Workers /\ w \in Workers
    BY DEF Workers
  <2> QED BY <2>1, <2>2, OtherQueue DEF Inv1, Ownership, QueueOwned
<1> QED BY <1>1, Invariant1, FileIsTruthful, PTL

\* In a deadlock both queues belong to consumers that wait.
LEMMA DeadlockHolders ==
  ASSUME Inv1, Deadlock, NEW v \in Workers,
         stage[v] \in {"have", "stat", "use"}
  PROVE  FALSE
<1>1. first[v] \in Queues /\ Holds(v, first[v])
  BY QueueType DEF Inv1, Holds, HoldsFirst
<1>2. PICK w \in Consumers : Caught(w, 1 - first[v])
  BY <1>1, OtherQueue DEF Deadlock
<1>3. w \in Workers /\ Holds(w, first[v])
  BY <1>1, <1>2, CaughtHolds, OtherQueue DEF Workers
<1>4. v = w
  BY <1>1, <1>3 DEF Inv1, Ownership, QueueOwned
<1> QED BY <1>2, <1>4 DEF Caught

\* Nobody uses a queue that has been removed.
THEOREM NoLateUse == Spec => []RemovedUnused
<1>1. Inv1 /\ Verdict => RemovedUnused
  BY DeadlockHolders DEF Verdict, FoundIsDeadlock, RemovedUnused
<1> QED BY <1>1, Invariant1, VerdictInvariant, PTL

-----------------------------------------------------------------------------
(* What a worker saw, and avoidance.                                       *)

\* A worker that uses a queue has it.
LEMMA UserHolds ==
  ASSUME Inv1, NEW w \in Workers, stage[w] \in {"stat", "use"}
  PROVE  Holds(w, Queue(w)) /\ Queue(w) \in Queues
BY QueueType DEF Inv1, Placed, Holds, HoldsFirst, HoldsSecond

LEMMA NextSeen ==
  ASSUME Inv1, RemovedUnused, SeenIsSo, [Next]_vars
  PROVE  SeenIsSo'
<1> USE DEF Inv1
<1>0. /\ qnum \in [Queues -> Nat] /\ stage \in [Workers -> Stages]
      /\ turn \in [Workers -> 1 .. 2] /\ first \in [Workers -> Queues]
      /\ seen \in [Workers -> 0 .. QSize] /\ QSize \in Nat \ {0}
      /\ status \in [Workers -> {"running", "signalled", "exited", "failed"}]
  BY PCAssumption DEF TypeOK, PCAssumption
<1>1. ASSUME NEW v \in Workers, Insert(v) \/ Consume(v)
      PROVE  SeenIsSo'
  <2>1. stage[v] = "use" /\ seen[v] = qnum[Queue(v)] /\ ~ removed
    BY <1>1 DEF Insert, Consume, At, SeenIsSo, RemovedUnused
  <2>2. Holds(v, Queue(v)) /\ Queue(v) \in Queues
    BY <2>1, UserHolds
  <2>3. /\ qnum' \in [Queues -> 0 .. QSize]
        /\ \A q \in Queues : q # Queue(v) => qnum'[q] = qnum[q]
    <3>1. qnum \in [Queues -> 0 .. QSize]
      BY <1>0 DEF SeenIsSo
    <3>2. CASE Insert(v)
      <4>1. \/ qnum' = qnum
            \/ /\ qnum[Queue(v)] < QSize
               /\ qnum' = [qnum EXCEPT ![Queue(v)] = @ + 1]
        BY <1>0, <2>1, <3>2 DEF Insert
      <4> QED BY <1>0, <2>2, <3>1, <4>1
    <3>3. CASE Consume(v)
      <4>1. \/ qnum' = qnum
            \/ /\ qnum[Queue(v)] # 0
               /\ qnum' = [qnum EXCEPT ![Queue(v)] = @ - 1]
        BY <2>1, <3>3 DEF Consume
      <4> QED BY <1>0, <2>2, <3>1, <4>1
    <3> QED BY <1>1, <3>2, <3>3
  <2>4. UNCHANGED <<status, first>> /\ seen' = [seen EXCEPT ![v] = 0]
        /\ stage'[v] # "use"
        /\ \A w \in Workers : w # v => stage'[w] = stage[w]
                                       /\ turn'[w] = turn[w]
    <3>1. CASE Insert(v)
      BY <1>0, <3>1 DEF Insert, AfterUse
    <3>2. CASE Consume(v)
      <4>1. ~ (seen[v] # 0 /\ (removed \/ qnum[Queue(v)] = 0))
        BY <2>1
      <4>2. /\ AfterUse(v) /\ UNCHANGED <<status, first>>
            /\ seen' = [seen EXCEPT ![v] = 0]
        BY <3>2, <4>1 DEF Consume
      <4> QED BY <1>0, <4>2 DEF AfterUse
    <3> QED BY <1>1, <3>1, <3>2
  <2>5. ASSUME NEW w \in Workers, stage'[w] = "use"
        PROVE  seen'[w] = qnum'[Queue(w)']
    <3>1. w # v /\ stage[w] = "use" /\ Queue(w)' = Queue(w)
          /\ seen'[w] = seen[w]
      BY <1>0, <2>4, <2>5 DEF Queue
    <3>2. Holds(w, Queue(w)) /\ Queue(w) \in Queues
      BY <3>1, UserHolds
    <3>3. Queue(w) # Queue(v)
      BY <2>2, <3>1, <3>2 DEF Ownership, QueueOwned
    <3> QED BY <2>3, <3>1, <3>2, <3>3 DEF SeenIsSo
  <2> QED BY <2>3, <2>4, <2>5 DEF SeenIsSo
<1>2. ASSUME NEW v \in Workers, Stat(v)
      PROVE  SeenIsSo'
  <2>1. /\ UNCHANGED <<turn, first, status, qnum>>
        /\ seen' = [seen EXCEPT ![v] = qnum[Queue(v)]]
        /\ stage' = [stage EXCEPT ![v] = "use"]
    BY <1>2 DEF Stat, At, RemovedUnused, planVars
  <2>2. \A w \in Workers : Queue(w)' = Queue(w)
    BY <2>1 DEF Queue
  <2> QED BY <1>0, <2>1, <2>2 DEF SeenIsSo
<1>3. ASSUME NEW v \in Workers, \/ Choose(v) \/ LockMatrix(v)
                                \/ ReadMatrix(v) \/ WriteMatrix(v)
                                \/ UnlockMatrix(v) \/ WaitQueue(v)
                                \/ PostQueue(v)
      PROVE  SeenIsSo'
  <2>1. UNCHANGED <<qnum, seen, status>>
    BY <1>3 DEF Choose, LockMatrix, ReadMatrix, WriteMatrix, UnlockMatrix,
       WaitQueue, PostQueue
  <2>2. ASSUME NEW w \in Workers, stage'[w] = "use"
        PROVE  stage[w] = "use" /\ Queue(w)' = Queue(w)
    <3>1. CASE UnlockMatrix(v)
      <4>1. stage[v] \in Marking /\ stage' = [stage EXCEPT ![v] = AfterMark[stage[v]]]
            /\ UNCHANGED <<turn, first>>
        BY <3>1 DEF UnlockMatrix, Placed, InMatrix, planVars
      <4>2. AfterMark[stage[v]] # "use"
        BY <4>1 DEF Marking, AfterMark
      <4> QED BY <1>0, <2>2, <4>1, <4>2 DEF Queue
    <3>2. CASE \/ LockMatrix(v) \/ ReadMatrix(v) \/ WriteMatrix(v)
      BY <2>2, <3>2 DEF LockMatrix, ReadMatrix, WriteMatrix, planVars, Queue
    <3>3. CASE \/ Choose(v) \/ WaitQueue(v) \/ PostQueue(v)
      <4>1. v # w /\ stage'[w] = stage[w] /\ turn'[w] = turn[w]
            /\ first'[w] = first[w]
        BY <1>0, <2>2, <3>3 DEF Choose, WaitQueue, PostQueue, planVars
      <4> QED BY <2>2, <4>1 DEF Queue
    <3> QED BY <1>3, <3>1, <3>2, <3>3
  <2> QED BY <2>1, <2>2 DEF SeenIsSo
<1>4. CASE Manager \/ (\E v \in Workers : Terminate(v)) \/ UNCHANGED vars
  <2>1. UNCHANGED <<stage, turn, first, qnum, seen>>
    BY <1>4 DEF vars, Manager, ManagerLock, ManagerRead, ManagerUnlock,
       NoDeadlock, RemoveQueues, Kill, Reap, Terminate, planVars
  <2>2. \A w \in Workers : status'[w] # "failed"
    BY <1>0, <1>4 DEF vars, Manager, ManagerLock, ManagerRead, ManagerUnlock,
       NoDeadlock, RemoveQueues, Kill, Reap, Terminate, SeenIsSo
  <2>3. \A w \in Workers : Queue(w)' = Queue(w)
    BY <2>1 DEF Queue
  <2> QED BY <2>1, <2>2, <2>3 DEF SeenIsSo
<1> QED BY <1>1, <1>2, <1>3, <1>4 DEF Next, Worker

\* What msgctl said of a queue is so until the worker has acted on it.
THEOREM StatIsSo == Spec => []SeenIsSo
<1>1. Init => SeenIsSo
  BY PCAssumption DEF PCAssumption, Init, SeenIsSo
<1>2. Inv1 /\ RemovedUnused /\ SeenIsSo /\ [Next]_vars => SeenIsSo'
  BY NextSeen
<1> QED BY <1>1, <1>2, Invariant1, NoLateUse, PTL DEF Spec

\* A consumer of both queues begins with queue 0.
OrderedPlan == avoid => \A w \in Workers : both[w] => first[w] = 0

\* With avoidance consumers take the two queues in one order, so that they never
\* wait for each other in a ring, whatever their number.
THEOREM AvoidanceIsEnough == Spec => []AvoidanceWorks
<1>1. Init => OrderedPlan
  BY DEF Init, OrderedPlan
<1>2. Inv1 /\ OrderedPlan /\ [Next]_vars => OrderedPlan'
  <2> SUFFICES ASSUME Inv1, OrderedPlan, [Next]_vars
               PROVE  OrderedPlan'
    OBVIOUS
  <2>0. UNCHANGED avoid
    BY DEF Next, Worker, Manager, vars
  <2>1. ASSUME NEW v \in Workers, Choose(v)
        PROVE  OrderedPlan'
    BY <2>0, <2>1 DEF Choose, OrderedPlan, Inv1, TypeOK
  <2>2. ASSUME ~ \E v \in Workers : Choose(v)
        PROVE  UNCHANGED <<first, both>>
    BY <2>2 DEF Next, vars, Worker, LockMatrix, ReadMatrix, WriteMatrix,
       UnlockMatrix, WaitQueue, Stat, Insert, Consume, PostQueue, Terminate,
       Manager, ManagerLock, ManagerRead, ManagerUnlock, NoDeadlock,
       RemoveQueues, Kill, Reap, planVars
  <2> QED BY <2>0, <2>1, <2>2 DEF OrderedPlan
<1>3. Inv1 /\ OrderedPlan => AvoidanceWorks
  <2> SUFFICES ASSUME Inv1, OrderedPlan, avoid, Deadlock
               PROVE  FALSE
    BY DEF AvoidanceWorks
  <2>1. PICK w \in Consumers : Caught(w, 0)
    BY DEF Deadlock, Queues
  <2> QED BY <2>1 DEF Caught, OrderedPlan, Inv1, Placed, Workers
<1> QED BY <1>1, <1>2, <1>3, Invariant1, PTL DEF Spec

-----------------------------------------------------------------------------
(* The totals.  The workers the manager has waited for are Past: they have *)
(* exited, so their counts stand, and the totals are the messages counted  *)
(* by those of them that are of a kind.                                    *)

Reaped ==
  IF manager \in {"kill", "reap"} THEN victim - 1
  ELSE IF manager \in {"ended", "print", "done"} THEN Cardinality(Workers)
  ELSE 0

Past == {Order[i] : i \in 1 .. Reaped}

KindOf(k) == IF k = "inserts" THEN Producers ELSE Consumers

Books ==
  /\ manager \in {"sleep", "read", "unlock", "judge"} => victim = 1
  /\ \A w \in Past : status[w] = "exited"
  /\ \A k \in Kinds : /\ IsFiniteSet(Counted(Past \cap KindOf(k)))
                      /\ total[k] = Sum(Past \cap KindOf(k))

\* No worker has counted so much that its exit code loses high bits.
CodesFit == \A w \in Workers : count[w] < ExitModulus

\* The manager ends no worker twice.
LEMMA OrderInjective ==
  \A i, j \in 1 .. Cardinality(Workers) : Order[i] = Order[j] => i = j
<1> DEFINE n == Cardinality(Workers)
<1>1. n \in Nat /\ IsFiniteSet(Workers)
  BY OrderFacts, PCAssumption DEF PCAssumption
<1>2. IsFiniteSet(1 .. n) /\ Cardinality(1 .. n) = n
  <2>1. n \in Int /\ 1 \in Int
    BY <1>1
  <2>2. IsFiniteSet(1 .. n) /\ Cardinality(1 .. n) =
          IF 1 > n THEN 0 ELSE n - 1 + 1
    BY <2>1, FS_Interval, Zenon
  <2> HIDE DEF n
  <2> QED BY <1>1, <2>2
<1>3. Order \in Surjection(1 .. n, Workers)
  BY PCAssumption, Zenon DEF PCAssumption, Surjection
<1>4. Order \in Injection(1 .. n, Workers)
  BY <1>2, <1>3, FS_SurjSameCardinalityImpliesInj, Zenon
<1> QED BY <1>4 DEF Injection, IsInjective

\* One more worker's messages.
LEMMA CountedOneMore ==
  ASSUME NEW S, NEW w, w \notin S, count[w] \in Nat,
         IsFiniteSet(Counted(S))
  PROVE  /\ IsFiniteSet(Counted(S \cup {w}))
         /\ Sum(S \cup {w}) = Sum(S) + count[w]
<1> DEFINE C == {w} \X (1 .. count[w])
<1>1. Counted(S \cup {w}) = Counted(S) \cup C
  BY Zenon DEF Counted
<1>2. Counted(S) \cap C = {}
  BY DEF Counted
<1>3. IsFiniteSet(1 .. count[w]) /\ Cardinality(1 .. count[w]) = count[w]
  <2>1. IsFiniteSet(1 .. count[w]) /\ Cardinality(1 .. count[w]) =
          IF 1 > count[w] THEN 0 ELSE count[w] - 1 + 1
    BY FS_Interval, 1 \in Int, count[w] \in Int
  <2> QED BY <2>1
<1>4. IsFiniteSet({w}) /\ Cardinality({w}) = 1
  BY FS_Singleton, Zenon
<1>5. IsFiniteSet(C) /\ Cardinality(C) = count[w]
  <2>1. IsFiniteSet(C)
        /\ Cardinality(C) = Cardinality({w}) * Cardinality(1 .. count[w])
    BY <1>3, <1>4, FS_Product, Zenon
  <2> HIDE DEF C
  <2> QED BY <1>3, <1>4, <2>1
<1> HIDE DEF C
<1>6. IsFiniteSet(Counted(S) \cup C)
      /\ Cardinality(Counted(S) \cup C) =
           Cardinality(Counted(S)) + Cardinality(C)
             - Cardinality(Counted(S) \cap C)
  BY <1>5, FS_Union, Zenon
<1>7. Cardinality({}) = 0 /\ Cardinality(Counted(S)) \in Nat
  BY FS_EmptySet, FS_CardinalityType, Zenon
<1>8. Cardinality(Counted(S) \cap C) = 0
  BY <1>2, <1>7, Zenon
<1>9. Cardinality(Counted(S) \cup C) = Cardinality(Counted(S)) + count[w]
  BY <1>5, <1>6, <1>7, <1>8
<1> QED BY <1>1, <1>6, <1>9, Zenon DEF Sum

\* Nobody's messages.
LEMMA CountedNone == IsFiniteSet(Counted({})) /\ Sum({}) = 0
<1>1. Counted({}) = {}
  BY DEF Counted
<1> QED BY <1>1, FS_EmptySet DEF Sum

\* What a set of workers has counted depends on their counts only.
LEMMA CountedKept ==
  ASSUME NEW S, \A w \in S : count'[w] = count[w]
  PROVE  Counted(S)' = Counted(S) /\ Sum(S)' = Sum(S)
<1>1. Counted(S)' = Counted(S)
  BY DEF Counted
<1> QED BY <1>1 DEF Sum

LEMMA InitBooks == Init => Books
<1> SUFFICES ASSUME Init PROVE Books
  OBVIOUS
<1>1. manager = "sleep" /\ victim = 1
  BY DEF Init
<1>2. Past = {}
  BY <1>1 DEF Past, Reaped
<1>3. \A k \in Kinds : total[k] = 0 /\ Past \cap KindOf(k) = {}
  BY <1>2 DEF Init
<1> QED BY <1>1, <1>2, <1>3, CountedNone DEF Books

\* A worker that has exited takes no step, and what it has counted stands.
LEMMA ExitedRests ==
  ASSUME Inv1, SeenIsSo, NEW v \in Workers, Worker(v), NEW w \in Workers,
         status[w] = "exited"
  PROVE  status'[w] = "exited" /\ count'[w] = count[w]
<1>0. /\ status \in [Workers -> {"running", "signalled", "exited", "failed"}]
      /\ count \in [Workers -> Nat]
  BY DEF Inv1, TypeOK
<1>1. v # w
  <2>1. Alive(v) \/ status[v] = "signalled"
    BY DEF Worker, Choose, LockMatrix, ReadMatrix, WriteMatrix, UnlockMatrix,
       WaitQueue, Stat, Insert, Consume, PostQueue, Terminate, At
  <2> QED BY <2>1 DEF Alive
<1>2. count' = count \/ \E n : count' = [count EXCEPT ![v] = n]
  BY DEF Worker, Choose, LockMatrix, ReadMatrix, WriteMatrix, UnlockMatrix,
     WaitQueue, Stat, Insert, Consume, PostQueue, Terminate
<1>3. status' = status \/ \E s : status' = [status EXCEPT ![v] = s]
  BY DEF Worker, Choose, LockMatrix, ReadMatrix, WriteMatrix, UnlockMatrix,
     WaitQueue, Stat, Insert, Consume, PostQueue, Terminate
<1> QED BY <1>0, <1>1, <1>2, <1>3

\* The books where neither the manager's place nor a past count changes.
LEMMA BooksKept ==
  ASSUME Books, UNCHANGED <<total, victim>>, Reaped' = Reaped,
         manager' \in {"sleep", "read", "unlock", "judge"} => victim = 1,
         \A w \in Past : status'[w] = "exited" /\ count'[w] = count[w]
  PROVE  Books'
<1>1. Past' = Past
  BY DEF Past
<1>2. ASSUME NEW k \in Kinds
      PROVE  /\ IsFiniteSet(Counted(Past \cap KindOf(k)))'
             /\ total'[k] = Sum(Past \cap KindOf(k))'
  <2>1. (Past \cap KindOf(k))' = Past \cap KindOf(k)
    BY <1>1 DEF KindOf
  <2>2. /\ Counted(Past \cap KindOf(k))' = Counted(Past \cap KindOf(k))
        /\ Sum(Past \cap KindOf(k))' = Sum(Past \cap KindOf(k))
    <3>1. Counted(Past \cap KindOf(k))' = Counted(Past \cap KindOf(k))
      BY <2>1 DEF Counted
    <3> QED BY <3>1 DEF Sum
  <2> QED BY <2>2 DEF Books
<1> QED BY <1>1, <1>2 DEF Books

LEMMA PastWorkers == ASSUME Inv1 PROVE Past \subseteq Workers
<1>1. Reaped \in 0 .. Cardinality(Workers)
  BY OrderFacts DEF Reaped, Inv1, TypeOK
<1> QED BY <1>1, OrderFacts DEF Past

\* waitpid() of one more worker.
LEMMA ReapBooks ==
  ASSUME Inv1, SeenIsSo, CodesFit, Books, Reap
  PROVE  Books'
<1> USE DEF Inv1
<1> DEFINE w == Order[victim]
           k == IF w \in Producers THEN "inserts" ELSE "consumes"
           n == Cardinality(Workers)
<1>0. n \in Nat \ {0} /\ victim \in 1 .. n /\ w \in Workers
  BY OrderFacts DEF TypeOK
<1>1. /\ manager = "reap" /\ status[w] = "exited"
      /\ UNCHANGED <<count, status>>
      /\ total' = [total EXCEPT ![k] = @ + (count[w] % ExitModulus)]
  <2>1. /\ manager = "reap" /\ ~ Alive(w) /\ UNCHANGED <<count, status>>
    BY DEF Reap, ManagerMoves
  <2>2. status[w] = "exited"
    BY <1>0, <2>1 DEF Alive, SeenIsSo, TypeOK
  <2> QED BY <2>1, <2>2 DEF Reap
<1>2. count[w] \in Nat /\ count[w] % ExitModulus = count[w]
  <2>1. count[w] \in Nat /\ ExitModulus \in Nat \ {0}
        /\ count[w] < ExitModulus
    BY <1>0, PCAssumption DEF CodesFit, PCAssumption, TypeOK
  <2> HIDE DEF w
  <2> QED BY <2>1
<1>3. Reaped = victim - 1 /\ Reaped' = victim
  <2>1. Reaped = victim - 1
    BY <1>1 DEF Reaped
  <2>2. /\ victim < n => manager' = "kill" /\ victim' = victim + 1
        /\ ~ (victim < n) => manager' = "ended" /\ victim = n
    BY <1>0 DEF Reap, ManagerMoves
  <2>3. CASE victim < n
    <3>1. Reaped' = victim' - 1
      BY <2>2, <2>3 DEF Reaped
    <3> QED BY <1>0, <2>1, <2>2, <2>3, <3>1
  <2>4. CASE ~ (victim < n)
    <3>1. Reaped' = n
      BY <2>2, <2>4 DEF Reaped
    <3> QED BY <2>1, <2>2, <2>4, <3>1
  <2> QED BY <2>3, <2>4
<1>4. Past' = Past \cup {w}
  BY <1>0, <1>3 DEF Past
<1>5. w \notin Past
  BY <1>0, <1>3, OrderInjective DEF Past
<1>6. k \in Kinds /\ w \in KindOf(k)
      /\ \A j \in Kinds : j # k => w \notin KindOf(j)
  BY <1>0, PCAssumption DEF PCAssumption, Kinds, KindOf, Workers
<1>7. total \in [Kinds -> Nat]
  BY DEF TypeOK
<1> HIDE DEF w, k, n
<1>8. ASSUME NEW j \in Kinds
      PROVE  /\ IsFiniteSet(Counted(Past \cap KindOf(j)))'
             /\ total'[j] = Sum(Past \cap KindOf(j))'
  <2> DEFINE S == Past \cap KindOf(j)
             T == IF j = k THEN S \cup {w} ELSE S
  <2>1. S' = T
    BY <1>4, <1>6 DEF KindOf
  <2>2. IsFiniteSet(Counted(S)) /\ total[j] = Sum(S)
    BY DEF Books
  <2>3. total'[j] = IF j = k THEN total[j] + count[w] ELSE total[j]
    BY <1>1, <1>2, <1>6, <1>7
  <2>4. Counted(S)' = Counted(T) /\ Sum(S)' = Sum(T)
    <3>1. Counted(S)' = Counted(T)
      BY <1>1, <2>1 DEF Counted
    <3> QED BY <3>1 DEF Sum
  <2>5. w \notin S
    BY <1>5
  <2> HIDE DEF S
  <2>6. IsFiniteSet(Counted(T)) /\ Sum(T) = total'[j]
    BY <1>2, <2>2, <2>3, <2>5, CountedOneMore
  <2>7. IsFiniteSet(Counted(S)') /\ total'[j] = Sum(S)'
    BY <2>4, <2>6
  <2> QED BY <2>7 DEF S
<1>9. \A v \in Past' : status'[v] = "exited"
  BY <1>1, <1>4 DEF Books
<1>10. manager' \in {"kill", "ended"}
  BY DEF Reap, ManagerMoves
<1> QED BY <1>8, <1>9, <1>10 DEF Books

LEMMA NextBooks ==
  ASSUME Inv1, SeenIsSo, CodesFit, Books, [Next]_vars
  PROVE  Books'
<1>0. Past \subseteq Workers
  BY PastWorkers
<1>1. CASE \E v \in Workers : Worker(v)
  <2>1. UNCHANGED <<manager, victim, total>>
    BY <1>1 DEF Worker, Choose, LockMatrix, ReadMatrix, WriteMatrix,
       UnlockMatrix, WaitQueue, Stat, Insert, Consume, PostQueue, Terminate,
       managerVars
  <2>2. Reaped' = Reaped
    BY <2>1 DEF Reaped
  <2>3. \A w \in Past : status'[w] = "exited" /\ count'[w] = count[w]
    BY <1>0, <1>1, ExitedRests DEF Books
  <2> QED BY <2>1, <2>2, <2>3, BooksKept DEF Books
<1>2. CASE Reap
  BY <1>2, ReapBooks
<1>3. CASE Kill
  <2>1. /\ UNCHANGED <<victim, total, count>>
        /\ manager = "kill" /\ manager' = "reap"
        /\ status' = [status EXCEPT ![Order[victim]] =
                        IF @ = "running" THEN "signalled" ELSE @]
    BY <1>3 DEF Kill, ManagerMoves
  <2>2. Reaped' = Reaped
    BY <2>1 DEF Reaped
  <2>3. \A w \in Past : status'[w] = "exited"
    BY <1>0, <2>1 DEF Books, Inv1, TypeOK
  <2> QED BY <2>1, <2>2, <2>3, BooksKept
<1>4. CASE \/ ManagerLock \/ ManagerRead \/ ManagerUnlock \/ NoDeadlock
           \/ RemoveQueues \/ UNCHANGED vars
  <2>1. UNCHANGED <<victim, total, count, status>>
    BY <1>4 DEF vars, ManagerLock, ManagerRead, ManagerUnlock, NoDeadlock,
       RemoveQueues
  <2>2. /\ Reaped' = Reaped
        /\ manager' \in {"sleep", "read", "unlock", "judge"} => victim = 1
    <3>1. CASE UNCHANGED vars
      BY <3>1 DEF vars, Reaped, Books
    <3>2. CASE ManagerLock \/ ManagerRead \/ ManagerUnlock \/ NoDeadlock
      BY <2>1, <3>2 DEF ManagerLock, ManagerRead, ManagerUnlock, NoDeadlock,
         ManagerMoves, Reaped, Books
    <3>3. CASE RemoveQueues
      BY <2>1, <3>3 DEF RemoveQueues, ManagerMoves, Reaped, Books
    <3> QED BY <1>4, <3>1, <3>2, <3>3
  <2> QED BY <2>1, <2>2, BooksKept DEF Books
<1> QED BY <1>1, <1>2, <1>3, <1>4 DEF Next, Manager

\* The totals of the manager are the counts of all producers and of all
\* consumers, none left out, none added twice and none still growing, as
\* long as every count fits an exit code.
THEOREM TotalsAreExact == Spec /\ []CodesFit => []TotalsExact
<1>1. Inv1 /\ SeenIsSo /\ CodesFit /\ Books /\ [Next]_vars => Books'
  BY NextBooks
<1>2. Books => TotalsExact
  <2> SUFFICES ASSUME Books, manager = "done"
               PROVE  /\ total["inserts"] = Sum(Producers)
                      /\ total["consumes"] = Sum(Consumers)
    BY DEF TotalsExact
  <2>1. Past = Workers
    BY PCAssumption DEF PCAssumption, Past, Reaped
  <2>2. /\ Past \cap KindOf("inserts") = Producers
        /\ Past \cap KindOf("consumes") = Consumers
    BY <2>1 DEF KindOf, Workers
  <2> QED BY <2>2 DEF Books, Kinds
<1> QED BY <1>1, <1>2, InitBooks, Invariant1, StatIsSo, PTL DEF Spec

=============================================================================
