-------------------------- MODULE OperationProofs --------------------------
(***************************************************************************)
(* Proofs about the operation pipeline: first about OperationExecutor, for *)
(* any set of clients and any number of operations, then about OperationUi *)
(* on top of it, for any delay and any loss of messages.                   *)
(*                                                                         *)
(* The executor: IInv says that ids are queued, taken and ended in the     *)
(* order in which they were handed out, so that the four counters nextId,  *)
(* LastQueued, LastTaken and LastEnded determine the phase of every        *)
(* operation.  The properties are read off IInv.                           *)
(*                                                                         *)
(* The UI: a step of it is one of the executor or leaves it alone, so that *)
(* everything the executor guarantees carries over.  Reporting says that   *)
(* what was presented and what waits in the sink are the ids 1, 2, ..., up *)
(* to the last one the worker has reported.                                *)
(***************************************************************************)
EXTENDS OperationUi, TLAPS

(* The executor starts in a state of the invariant.                        *)
LEMMA InitIInv == Init => IInv
<1> SUFFICES ASSUME Init PROVE IInv
  OBVIOUS
<1>1. TypeOK
  <2>1. queue \in Seq(OperationIds)
    BY DEF Init
  <2>2. phase \in [OperationIds -> Phases]
    BY DEF Init, Phases
  <2>3. nextId \in 1 .. MaxOperations + 1
    BY ExecutorAssumption DEF Init
  <2>4. QED
    BY <2>1, <2>2, <2>3 DEF Init, TypeOK
<1>2. QueueShape
  BY DEF Init, QueueShape, LastEnded, LastTaken, LastQueued
<1>3. PhaseShape
  BY ExecutorAssumption
     DEF Init, PhaseShape, OperationIds, LastEnded, LastTaken, LastQueued
<1>4. WorkerShape
  BY DEF Init, WorkerShape
<1>5. StopShape
  BY DEF Init, StopShape
<1>6. QED
  BY <1>1, <1>2, <1>3, <1>4, <1>5 DEF IInv

(* The store leaves every other record alone, and keeps the type.          *)
LEMMA StoreStep ==
    ASSUME phase \in [OperationIds -> Phases], NEW id \in OperationIds
    PROVE  /\ StoreStart(id) =>
                 /\ phase' \in [OperationIds -> Phases]
                 /\ phase[id] = "Absent" => phase'[id] = "Running"
                 /\ \A i \in OperationIds : i # id => phase'[i] = phase[i]
           /\ \A result \in Terminal : StoreComplete(id, result) =>
                 /\ phase' \in [OperationIds -> Phases]
                 /\ phase[id] = "Running" => phase'[id] = result
                 /\ phase[id] # "Running" => phase'[id] = phase[id]
                 /\ \A i \in OperationIds : i # id => phase'[i] = phase[i]
  BY DEF StoreStart, CanStart, StoreComplete, Phases, Terminal

LEMMA SubmitRecordIInv ==
    ASSUME IInv, NEW c \in Clients, SubmitRecord(c)
    PROVE  IInv'
<1> USE DEF IInv
<1>0. /\ lock = Free /\ lock' = c /\ c # Free
      /\ nextId \in OperationIds /\ nextId' = nextId + 1
      /\ phase[nextId] = "Absent"
  BY ExecutorAssumption DEF SubmitRecord, TypeOK, OperationIds, PhaseShape
<1>1. /\ LastQueued' = LastQueued /\ LastTaken' = LastTaken
      /\ LastEnded' = LastEnded
  BY <1>0 DEF SubmitRecord, threadVars, TypeOK, OperationIds, LastQueued,
              LastTaken, LastEnded
<1>2. TypeOK'
  <2>1. phase' \in [OperationIds -> Phases]
    BY <1>0, StoreStep DEF SubmitRecord, TypeOK
  <2>2. nextId' \in 1 .. MaxOperations + 1
    BY <1>0, ExecutorAssumption DEF OperationIds
  <2>3. QED
    BY <1>0, <2>1, <2>2 DEF SubmitRecord, threadVars, TypeOK
<1>3. QueueShape'
  BY <1>1 DEF SubmitRecord, QueueShape
<1>4. PhaseShape'
  <2> SUFFICES ASSUME NEW i \in OperationIds
               PROVE  /\ i <= LastEnded => phase'[i] \in Terminal
                      /\ LastEnded < i /\ i < nextId + 1 => phase'[i] = "Running"
                      /\ nextId + 1 <= i => phase'[i] = "Absent"
    BY <1>0, <1>1 DEF PhaseShape
  <2>1. phase'[nextId] = "Running" /\ (i # nextId => phase'[i] = phase[i])
    BY <1>0, StoreStep DEF SubmitRecord, TypeOK
  <2>2. LastEnded < nextId /\ LastEnded \in Int
    BY <1>0 DEF TypeOK, LastEnded, LastTaken, LastQueued, OperationIds
  <2>3. CASE i = nextId
    BY <2>1, <2>2, <2>3 DEF OperationIds
  <2>4. CASE i # nextId
    BY <2>1, <2>2, <2>4, <1>0 DEF OperationIds, PhaseShape
  <2>5. QED
    BY <2>3, <2>4
<1>5. WorkerShape'
  BY <1>1 DEF SubmitRecord, threadVars, WorkerShape
<1>6. StopShape'
  BY DEF SubmitRecord, threadVars, StopShape, TypeOK
<1>7. QED
  BY <1>2, <1>3, <1>4, <1>5, <1>6

LEMMA SubmitEnqueueIInv ==
    ASSUME IInv, NEW c \in Clients, SubmitEnqueue(c)
    PROVE  IInv'
<1> USE DEF IInv
<1>0. /\ lock # Free /\ lock' = Free
      /\ nextId - 1 \in OperationIds
      /\ queue' = Append(queue, nextId - 1)
      /\ worker' = IF worker = "asleep" THEN "checking" ELSE worker
      /\ nextId' = nextId /\ phase' = phase /\ current' = current
  <2>1. lock # Free
    BY ExecutorAssumption DEF SubmitEnqueue
  <2>2. nextId - 1 >= 1
    BY <2>1 DEF TypeOK, QueueShape, LastEnded, LastTaken, LastQueued
  <2>3. nextId - 1 \in OperationIds
    BY <2>2, ExecutorAssumption DEF TypeOK, OperationIds
  <2>4. QED
    BY <2>1, <2>3 DEF SubmitEnqueue, WakeWorker, storeVars
<1>1. /\ Len(queue') = Len(queue) + 1
      /\ LastTaken' = LastTaken /\ LastEnded' = LastEnded
  BY <1>0 DEF TypeOK, LastQueued, LastTaken, LastEnded
<1>2. TypeOK'
  BY <1>0 DEF SubmitEnqueue, TypeOK
<1>3. QueueShape'
  <2> SUFFICES ASSUME NEW k \in 1 .. Len(queue) + 1
               PROVE  queue'[k] = LastTaken + k
    BY <1>1 DEF QueueShape
  <2>0. queue \in Seq(OperationIds)
    BY DEF TypeOK
  <2>1. CASE k \in 1 .. Len(queue)
    <3>1. queue'[k] = queue[k]
      BY <2>0, <2>1, <1>0
    <3>2. QED
      BY <2>1, <3>1 DEF QueueShape
  <2>2. CASE k = Len(queue) + 1
    <3>1. queue'[k] = nextId - 1
      BY <2>0, <2>2, <1>0
    <3>2. QED
      BY <2>0, <2>2, <3>1, <1>0 DEF TypeOK, LastTaken, LastQueued
  <2>3. QED
    BY <2>1, <2>2 DEF TypeOK
<1>4. PhaseShape'
  BY <1>0, <1>1 DEF PhaseShape
<1>5. WorkerShape'
  BY <1>0, <1>1 DEF WorkerShape, SubmitEnqueue, StopShape
<1>6. StopShape'
  BY <1>0 DEF SubmitEnqueue, WorkerShape, StopShape
<1>7. QED
  BY <1>2, <1>3, <1>4, <1>5, <1>6

LEMMA StopRequestIInv == IInv /\ StopRequest => IInv'
<1> SUFFICES ASSUME IInv, StopRequest PROVE IInv'
  OBVIOUS
<1> USE DEF IInv
<1>0. /\ lock' = lock /\ queue' = queue /\ nextId' = nextId /\ phase' = phase
      /\ current' = current /\ lock = Free
      /\ worker' = IF worker = "asleep" THEN "checking" ELSE worker
  BY DEF StopRequest, storeVars, WakeWorker
<1>1. /\ LastQueued' = LastQueued /\ LastTaken' = LastTaken
      /\ LastEnded' = LastEnded
  BY <1>0 DEF LastQueued, LastTaken, LastEnded
<1>2. TypeOK'
  BY <1>0 DEF StopRequest, TypeOK
<1>3. QueueShape'
  BY <1>0, <1>1 DEF QueueShape
<1>4. PhaseShape'
  BY <1>0, <1>1 DEF PhaseShape
<1>5. WorkerShape'
  BY <1>0, <1>1 DEF WorkerShape, StopRequest
<1>6. StopShape'
  BY <1>0 DEF StopRequest, StopShape, TypeOK
<1>7. QED
  BY <1>2, <1>3, <1>4, <1>5, <1>6

(* Joining changes nothing but the controller's position.                  *)
LEMMA StopJoinIInv == IInv /\ StopJoin => IInv'
<1> SUFFICES ASSUME IInv, StopJoin PROVE IInv'
  OBVIOUS
<1>1. /\ lock' = lock /\ accepting' = accepting /\ stopRequested' = stopRequested
      /\ joinable' = joinable /\ queue' = queue /\ nextId' = nextId
      /\ phase' = phase /\ worker' = worker /\ current' = current
      /\ controller = "joining" /\ controller' = "returned" /\ worker = "exited"
  BY DEF StopJoin, executorVars, storeVars
<1>2. TypeOK' /\ QueueShape' /\ PhaseShape' /\ WorkerShape'
  BY <1>1 DEF IInv, TypeOK, QueueShape, PhaseShape, WorkerShape, LastEnded,
              LastTaken, LastQueued
<1>3. StopShape'
  BY <1>1 DEF IInv, StopShape, WorkerShape
<1>4. QED
  BY <1>2, <1>3 DEF IInv

(* Steps of the worker that neither take a task nor end one.               *)
LEMMA WorkerMovesIInv ==
    IInv /\ (WorkerSleep \/ WorkerSpuriousWake \/ WorkerExit \/ WorkerNotify)
        => IInv'
<1> SUFFICES ASSUME IInv,
                    WorkerSleep \/ WorkerSpuriousWake \/ WorkerExit \/ WorkerNotify
             PROVE  IInv'
  OBVIOUS
<1>1. /\ lock' = lock /\ accepting' = accepting /\ stopRequested' = stopRequested
      /\ joinable' = joinable /\ queue' = queue /\ nextId' = nextId
      /\ phase' = phase /\ controller' = controller
      /\ worker \notin {"running", "exited"}
      /\ worker' \in {"checking", "asleep", "exited"}
      /\ current' \in {0, current}
  BY DEF WorkerSleep, WorkerSpuriousWake, WorkerExit, WorkerNotify,
         executorVars, storeVars
<1>2. TypeOK' /\ QueueShape' /\ PhaseShape'
  BY <1>1 DEF IInv, TypeOK, QueueShape, PhaseShape, LastEnded, LastTaken,
              LastQueued
<1>3. WorkerShape'
  BY <1>1 DEF IInv, WorkerShape, WorkerSleep, WorkerSpuriousWake, WorkerExit,
              WorkerNotify
<1>4. StopShape'
  BY <1>1 DEF IInv, StopShape
<1>5. QED
  BY <1>2, <1>3, <1>4 DEF IInv

LEMMA WorkerTakeIInv == IInv /\ WorkerTake => IInv'
<1> SUFFICES ASSUME IInv, WorkerTake PROVE IInv'
  OBVIOUS
<1> USE DEF IInv
<1>0. /\ lock' = lock /\ accepting' = accepting /\ stopRequested' = stopRequested
      /\ joinable' = joinable /\ nextId' = nextId /\ phase' = phase
      /\ controller' = controller /\ worker = "checking" /\ worker' = "running"
      /\ lock = Free /\ queue # << >> /\ current' = Head(queue)
      /\ queue' = Tail(queue)
  BY DEF WorkerTake, storeVars
<1>1. /\ Len(queue) >= 1
      /\ Len(queue') = Len(queue) - 1
      /\ queue' \in Seq(OperationIds)
      /\ \A k \in 1 .. Len(queue') : queue'[k] = queue[k + 1]
      /\ current' = queue[1] /\ current' \in OperationIds
  BY <1>0 DEF TypeOK
<1>2. LastTaken' = LastTaken + 1 /\ LastEnded' = LastEnded
      /\ LastTaken \in Int
  BY <1>0, <1>1 DEF TypeOK, LastQueued, LastTaken, LastEnded
<1>3. TypeOK'
  BY <1>0, <1>1 DEF TypeOK
<1>4. QueueShape'
  <2>1. LastEnded' >= 0
    BY <1>2 DEF QueueShape
  <2>2. ASSUME NEW k \in 1 .. Len(queue')
        PROVE  queue'[k] = LastTaken' + k
    <3>1. k + 1 \in 1 .. Len(queue)
      BY <1>1 DEF TypeOK
    <3>2. queue[k + 1] = LastTaken + (k + 1)
      BY <3>1 DEF QueueShape
    <3>3. QED
      BY <3>2, <1>1, <1>2
  <2>3. QED
    BY <2>1, <2>2 DEF QueueShape
<1>5. PhaseShape'
  BY <1>0, <1>2 DEF PhaseShape
<1>6. WorkerShape'
  <2>1. queue[1] = LastTaken + 1
    BY <1>1 DEF QueueShape, TypeOK
  <2>2. current' = LastTaken' /\ current' # 0
    BY <2>1, <1>1, <1>2 DEF OperationIds
  <2>3. QED
    BY <2>2, <1>0 DEF WorkerShape
<1>7. StopShape'
  BY <1>0 DEF StopShape
<1>8. QED
  BY <1>3, <1>4, <1>5, <1>6, <1>7

LEMMA WorkerCompleteIInv ==
    ASSUME IInv, NEW outcome \in Outcomes, WorkerComplete(outcome)
    PROVE  IInv'
<1> USE DEF IInv
<1> DEFINE result == ResultOf(outcome)
<1>0. /\ lock' = lock /\ accepting' = accepting /\ stopRequested' = stopRequested
      /\ joinable' = joinable /\ queue' = queue /\ nextId' = nextId
      /\ controller' = controller /\ current' = current
      /\ worker = "running" /\ worker' = "notifying"
      /\ result \in Terminal
      /\ current \in OperationIds /\ current = LastTaken
  BY DEF WorkerComplete, executorVars, ResultOf, Terminal, TypeOK, WorkerShape
<1>1. /\ LastTaken' = LastTaken
      /\ LastEnded = LastTaken - 1 /\ LastEnded' = LastTaken
      /\ LastTaken \in Int /\ LastTaken < nextId
  BY <1>0 DEF LastQueued, LastTaken, LastEnded, TypeOK, OperationIds
<1>2. phase[current] = "Running"
  BY <1>0, <1>1 DEF PhaseShape, OperationIds
<1>3. /\ phase' \in [OperationIds -> Phases]
      /\ phase'[current] \in Terminal
      /\ \A i \in OperationIds : i # current => phase'[i] = phase[i]
  <2>1. StoreComplete(current, result)
    BY DEF WorkerComplete
  <2>2. phase \in [OperationIds -> Phases]
    BY DEF TypeOK
  <2> HIDE DEF result
  <2>3. QED
    BY <1>0, <1>2, <2>1, <2>2, StoreStep
<1> HIDE DEF result
<1>4. TypeOK'
  BY <1>0, <1>3 DEF TypeOK
<1>5. QueueShape'
  BY <1>0, <1>1 DEF QueueShape
<1>6. PhaseShape'
  <2> SUFFICES ASSUME NEW i \in OperationIds
               PROVE  /\ i <= LastTaken => phase'[i] \in Terminal
                      /\ LastTaken < i /\ i < nextId => phase'[i] = "Running"
                      /\ nextId <= i => phase'[i] = "Absent"
    BY <1>0, <1>1 DEF PhaseShape
  <2>1. CASE i = current
    BY <2>1, <1>0, <1>1, <1>3 DEF TypeOK, OperationIds
  <2>2. CASE i # current
    <3>1. phase'[i] = phase[i]
      BY <2>2, <1>3
    <3>2. /\ i <= LastTaken - 1 => phase[i] \in Terminal
          /\ LastTaken - 1 < i /\ i < nextId => phase[i] = "Running"
          /\ nextId <= i => phase[i] = "Absent"
      BY <1>1 DEF PhaseShape
    <3>3. QED
      BY <2>2, <3>1, <3>2, <1>0, <1>1 DEF OperationIds
  <2>3. QED
    BY <2>1, <2>2
<1>7. WorkerShape'
  BY <1>0, <1>1 DEF WorkerShape
<1>8. StopShape'
  BY <1>0 DEF StopShape
<1>9. QED
  BY <1>4, <1>5, <1>6, <1>7, <1>8

(* A step that changes no variable keeps the invariant.                    *)
LEMMA StutterIInv == IInv /\ UNCHANGED vars => IInv'
  BY DEF vars, executorVars, storeVars, threadVars, IInv, TypeOK, QueueShape,
         PhaseShape, WorkerShape, StopShape, LastEnded, LastTaken, LastQueued

(* The inductive invariant holds in every reachable state.                 *)
THEOREM Invariance == Spec => []IInv
<1>1. IInv /\ [Next]_vars => IInv'
  <2> SUFFICES ASSUME IInv, [Next]_vars PROVE IInv'
    OBVIOUS
  <2>1. ASSUME NEW c \in Clients, SubmitRecord(c) PROVE IInv'
    BY <2>1, SubmitRecordIInv
  <2>2. ASSUME NEW c \in Clients, SubmitEnqueue(c) PROVE IInv'
    BY <2>2, SubmitEnqueueIInv
  <2>3. CASE StopRequest
    BY <2>3, StopRequestIInv
  <2>4. CASE StopJoin
    BY <2>4, StopJoinIInv
  <2>5. CASE WorkerSleep \/ WorkerSpuriousWake \/ WorkerExit \/ WorkerNotify
    BY <2>5, WorkerMovesIInv
  <2>6. CASE WorkerTake
    BY <2>6, WorkerTakeIInv
  <2>7. ASSUME NEW outcome \in Outcomes, WorkerComplete(outcome) PROVE IInv'
    BY <2>7, WorkerCompleteIInv
  <2>8. CASE UNCHANGED vars
    BY <2>8, StutterIInv
  <2>9. QED
    BY <2>1, <2>2, <2>3, <2>4, <2>5, <2>6, <2>7, <2>8 DEF Next, Worker
<1>2. QED
  BY <1>1, InitIInv, PTL DEF Spec
-----------------------------------------------------------------------------
(* Every field keeps its type.                                             *)
THEOREM TypeCorrect == Spec => []TypeOK
  BY Invariance, PTL DEF IInv

(* A record is Running exactly while its task is queued, on the worker or  *)
(* being submitted: Submit 34-55 and Run 83-134 keep the two stores equal. *)
THEOREM PendingCorrect == Spec => []RunningIffPending
<1>1. IInv => RunningIffPending
  <2> SUFFICES ASSUME IInv, NEW i \in OperationIds
               PROVE  phase[i] = "Running" <=>
                        \/ InQueue(i)
                        \/ worker = "running" /\ current = i
                        \/ lock # Free /\ i = nextId - 1
    BY DEF RunningIffPending
  <2>1. /\ Len(queue) \in Nat /\ nextId \in Int /\ i \in Int
        /\ LastQueued \in Int /\ LastTaken \in Int /\ LastEnded \in Int
    BY DEF IInv, TypeOK, OperationIds, LastQueued, LastTaken, LastEnded
  <2>2. phase[i] = "Running" <=> LastEnded < i /\ i < nextId
    BY <2>1 DEF IInv, PhaseShape, Terminal
  <2>3. InQueue(i) <=> LastTaken < i /\ i <= LastQueued
    <3>1. \A k \in 1 .. Len(queue) : queue[k] = LastTaken + k
      BY DEF IInv, QueueShape
    <3>2. LastTaken = LastQueued - Len(queue)
      BY DEF LastTaken
    <3>3. ASSUME LastTaken < i, i <= LastQueued PROVE InQueue(i)
      <4>1. i - LastTaken \in 1 .. Len(queue)
        BY <2>1, <3>2, <3>3
      <4>2. queue[i - LastTaken] = i
        BY <2>1, <3>1, <4>1
      <4>3. QED
        BY <4>1, <4>2 DEF InQueue
    <3>4. ASSUME InQueue(i) PROVE LastTaken < i /\ i <= LastQueued
      BY <2>1, <3>1, <3>2, <3>4 DEF InQueue
    <3>5. QED
      BY <3>3, <3>4
  <2>4. (worker = "running" /\ current = i) <=> (LastEnded < i /\ i <= LastTaken)
    BY <2>1 DEF IInv, WorkerShape, LastEnded
  <2>5. (lock # Free /\ i = nextId - 1) <=> (LastQueued < i /\ i < nextId)
    BY <2>1 DEF LastQueued
  <2>6. LastEnded <= LastTaken /\ LastTaken <= LastQueued /\ LastQueued < nextId
    BY <2>1 DEF LastEnded, LastTaken, LastQueued
  <2>7. QED
    BY <2>1, <2>2, <2>3, <2>4, <2>5, <2>6
<1>2. QED
  BY <1>1, Invariance, PTL

(* Operations end in the order in which they were accepted.                *)
THEOREM FifoCorrect == Spec => []FifoCompletion
<1>1. IInv => FifoCompletion
  <2> SUFFICES ASSUME IInv, NEW i \in OperationIds, NEW j \in OperationIds,
                      i < j, phase[j] \in Terminal
               PROVE  phase[i] \in Terminal
    BY DEF FifoCompletion
  <2>1. nextId \in Int /\ i \in Int /\ j \in Int /\ LastEnded \in Int
    BY DEF IInv, TypeOK, OperationIds, LastQueued, LastTaken, LastEnded
  <2>2. j <= LastEnded
    BY <2>1 DEF IInv, PhaseShape, Terminal
  <2>3. QED
    BY <2>1, <2>2 DEF IInv, PhaseShape
<1>2. QED
  BY <1>1, Invariance, PTL

(* A listener that is notified finds the result in the store.              *)
THEOREM RecordedCorrect == Spec => []RecordedBeforeNotified
<1>1. IInv => RecordedBeforeNotified
  <2> SUFFICES ASSUME IInv, worker = "notifying"
               PROVE  phase[current] \in Terminal
    BY DEF RecordedBeforeNotified
  <2>1. current \in OperationIds /\ current = LastEnded
    BY DEF IInv, TypeOK, WorkerShape, LastEnded
  <2>2. QED
    BY <2>1 DEF IInv, PhaseShape, OperationIds
<1>2. QED
  BY <1>1, Invariance, PTL

(* The worker never sleeps over a task or a stop request.                  *)
THEOREM NoLostWakeup == Spec => []AsleepMeansIdle
<1>1. IInv => AsleepMeansIdle
  BY DEF IInv, WorkerShape, AsleepMeansIdle
<1>2. QED
  BY <1>1, Invariance, PTL

(* When Stop has returned the worker is gone and nothing is left Running.  *)
THEOREM StopCorrect == Spec => []StoppedMeansDrained
<1>1. IInv => StoppedMeansDrained
  <2> SUFFICES ASSUME IInv, controller = "returned"
               PROVE  /\ worker = "exited" /\ queue = << >>
                      /\ \A i \in OperationIds : phase[i] # "Running"
    BY DEF StoppedMeansDrained
  <2>1. worker = "exited" /\ queue = << >> /\ lock = Free
    BY DEF IInv, StopShape, WorkerShape
  <2>2. LastEnded = nextId - 1
    BY <2>1 DEF LastEnded, LastTaken, LastQueued, IInv, TypeOK
  <2>3. QED
    BY <2>1, <2>2 DEF IInv, TypeOK, PhaseShape, Terminal, OperationIds
<1>2. QED
  BY <1>1, Invariance, PTL
-----------------------------------------------------------------------------
(* How a step of the executor moves the phases: only SubmitRecord and      *)
(* WorkerComplete touch them, the first on the next unused id, the second  *)
(* on the oldest running one.                                              *)
LEMMA PhaseSteps ==
    ASSUME IInv, [Next]_vars
    PROVE  \/ /\ phase' = phase
              /\ accepting' = accepting \/ (accepting /\ accepting' = FALSE)
           \/ /\ accepting /\ accepting' = accepting
              /\ nextId \in OperationIds /\ phase[nextId] = "Absent"
              /\ phase' = [phase EXCEPT ![nextId] = "Running"]
              /\ \A j \in OperationIds : j < nextId => phase[j] # "Absent"
           \/ /\ accepting' = accepting
              /\ current \in OperationIds /\ phase[current] = "Running"
              /\ \E result \in Terminal :
                    phase' = [phase EXCEPT ![current] = result]
              /\ \A j \in OperationIds : j < current => phase[j] \in Terminal
<1>1. ASSUME NEW c \in Clients, SubmitRecord(c)
      PROVE  /\ accepting /\ accepting' = accepting
             /\ nextId \in OperationIds /\ phase[nextId] = "Absent"
             /\ phase' = [phase EXCEPT ![nextId] = "Running"]
             /\ \A j \in OperationIds : j < nextId => phase[j] # "Absent"
  <2>1. nextId \in OperationIds /\ accepting /\ accepting' = accepting
    BY <1>1, ExecutorAssumption DEF SubmitRecord, IInv, TypeOK, OperationIds
  <2>2. phase[nextId] = "Absent"
    BY <2>1 DEF IInv, PhaseShape, OperationIds
  <2>3. \A j \in OperationIds : j < nextId => phase[j] # "Absent"
    <3>1. LastEnded \in Int /\ nextId \in Int
      BY DEF IInv, TypeOK, LastQueued, LastTaken, LastEnded
    <3>2. QED
      BY <3>1 DEF IInv, PhaseShape, OperationIds, Terminal
  <2>4. QED
    BY <1>1, <2>1, <2>2, <2>3 DEF SubmitRecord, StoreStart, CanStart
<1>2. ASSUME NEW outcome \in Outcomes, WorkerComplete(outcome)
      PROVE  /\ accepting' = accepting
             /\ current \in OperationIds /\ phase[current] = "Running"
             /\ \E result \in Terminal :
                   phase' = [phase EXCEPT ![current] = result]
             /\ \A j \in OperationIds : j < current => phase[j] \in Terminal
  <2>1. /\ worker = "running" /\ current \in OperationIds
        /\ current = LastEnded + 1 /\ current < nextId
        /\ LastEnded \in Int
    BY <1>2 DEF WorkerComplete, IInv, TypeOK, WorkerShape, OperationIds,
                LastQueued, LastTaken, LastEnded
  <2>2. phase[current] = "Running"
    BY <2>1 DEF IInv, PhaseShape, OperationIds
  <2>3. \A j \in OperationIds : j < current => phase[j] \in Terminal
    BY <2>1 DEF IInv, PhaseShape, OperationIds
  <2>4. ResultOf(outcome) \in Terminal
    BY DEF ResultOf, Terminal
  <2>5. phase' = [phase EXCEPT ![current] = ResultOf(outcome)]
    BY <1>2, <2>2 DEF WorkerComplete, StoreComplete
  <2>6. accepting' = accepting
    BY <1>2 DEF WorkerComplete, executorVars
  <2>7. QED
    BY <2>1, <2>2, <2>3, <2>4, <2>5, <2>6
<1>3. CASE StopRequest
  BY <1>3 DEF StopRequest, storeVars, IInv, TypeOK
<1>4. ASSUME NEW c \in Clients, SubmitEnqueue(c)
      PROVE  phase' = phase /\ accepting' = accepting
  BY <1>4 DEF SubmitEnqueue, storeVars
<1>5. CASE StopJoin \/ WorkerSleep \/ WorkerSpuriousWake \/ WorkerTake
             \/ WorkerExit \/ WorkerNotify \/ UNCHANGED vars
  BY <1>5 DEF StopJoin, WorkerSleep, WorkerSpuriousWake, WorkerTake,
              WorkerExit, WorkerNotify, executorVars, storeVars, vars
<1>6. QED
  BY <1>1, <1>2, <1>3, <1>4, <1>5 DEF Next, Worker

(* A recorded result is never overwritten and never deleted.               *)
THEOREM ResultsFinal == Spec => ResultsAreFinal
<1>1. IInv /\ [Next]_vars
        => [\A i \in OperationIds : phase[i] \in Terminal => phase'[i] = phase[i]]_vars
  <2> SUFFICES ASSUME IInv, [Next]_vars, NEW i \in OperationIds,
                      phase[i] \in Terminal
               PROVE  phase'[i] = phase[i]
    OBVIOUS
  <2>1. phase \in [OperationIds -> Phases]
    BY DEF IInv, TypeOK
  <2>2. QED
    BY <2>1, PhaseSteps DEF Terminal
<1>2. QED
  BY <1>1, Invariance, PTL DEF Spec, ResultsAreFinal

(* No record appears after the stop request.                               *)
THEOREM ClosedForGood == Spec => NothingAcceptedAfterStop
<1>1. IInv /\ [Next]_vars
        => [stopRequested =>
              \A i \in OperationIds : phase[i] = "Absent" => phase'[i] = "Absent"]_vars
  <2> SUFFICES ASSUME IInv, [Next]_vars, stopRequested, NEW i \in OperationIds,
                      phase[i] = "Absent"
               PROVE  phase'[i] = "Absent"
    OBVIOUS
  <2>1. phase \in [OperationIds -> Phases] /\ ~accepting
    BY DEF IInv, TypeOK, StopShape
  <2>2. QED
    BY <2>1, PhaseSteps
<1>2. QED
  BY <1>1, Invariance, PTL DEF Spec, NothingAcceptedAfterStop

(* The executor implements OperationLifecycle: accepting the next number,  *)
(* ending the oldest operation and closing are all that a screen can see.  *)
THEOREM Refinement == Spec => ImplementsLifecycle
<1>1. Init => Lifecycle!Init
  BY DEF Init, Lifecycle!Init, OperationIds, Lifecycle!OperationIds
<1>2. IInv /\ [Next]_vars => [Lifecycle!Next]_Lifecycle!vars
  <2> SUFFICES ASSUME IInv, [Next]_vars
               PROVE  [Lifecycle!Next]_Lifecycle!vars
    OBVIOUS
  <2> USE DEF OperationIds, Lifecycle!OperationIds, Terminal, Lifecycle!Terminal
  <2>1. CASE /\ phase' = phase
             /\ accepting' = accepting \/ (accepting /\ accepting' = FALSE)
    BY <2>1 DEF Lifecycle!Next, Lifecycle!Close, Lifecycle!vars
  <2>2. CASE /\ accepting /\ accepting' = accepting
             /\ nextId \in OperationIds /\ phase[nextId] = "Absent"
             /\ phase' = [phase EXCEPT ![nextId] = "Running"]
             /\ \A j \in OperationIds : j < nextId => phase[j] # "Absent"
    <3>1. Lifecycle!Accept(nextId)
      BY <2>2 DEF Lifecycle!Accept
    <3>2. QED
      BY <2>2, <3>1 DEF Lifecycle!Next
  <2>3. CASE /\ accepting' = accepting
             /\ current \in OperationIds /\ phase[current] = "Running"
             /\ \E result \in Terminal :
                   phase' = [phase EXCEPT ![current] = result]
             /\ \A j \in OperationIds : j < current => phase[j] \in Terminal
    <3>1. PICK result \in Terminal : phase' = [phase EXCEPT ![current] = result]
      BY <2>3
    <3>2. Lifecycle!End(current, result)
      BY <2>3, <3>1 DEF Lifecycle!End
    <3>3. QED
      BY <2>3, <3>1, <3>2 DEF Lifecycle!Next
  <2>4. QED
    BY <2>1, <2>2, <2>3, PhaseSteps
<1>3. QED
  BY <1>1, <1>2, Invariance, PTL DEF Spec, ImplementsLifecycle, Lifecycle!Spec

-----------------------------------------------------------------------------

(* The last id whose end the worker has told the sink.                     *)
Reported == IF worker = "notifying" /\ ~pushed THEN LastEnded - 1 ELSE LastEnded

UiTypes ==
    /\ presented \in Seq(OperationIds)
    /\ completed \in Seq(OperationIds)
    /\ pushed \in BOOLEAN

Reporting ==
    /\ \A k \in 1 .. Len(presented) : presented[k] = k
    /\ \A k \in 1 .. Len(completed) : completed[k] = Len(presented) + k
    /\ pushed => worker = "notifying"
    /\ Len(presented) + Len(completed) <= Reported
    /\ IF controller = "returned"
       THEN completed = << >>
       ELSE Len(presented) + Len(completed) = Reported

UiInv == IInv /\ UiTypes /\ Reporting
-----------------------------------------------------------------------------
(* Each action of the UI, but for those of the sink and the screens, is    *)
(* one of the executor.                                                    *)
LEMMA StepOfExecutor == [UiNext]_allVars => [Next]_vars
<1> SUFFICES ASSUME [UiNext]_allVars PROVE [Next]_vars
  OBVIOUS
<1>1. UiThread \in Clients
  BY UiAssumption
<1>2. CASE UiSubmitRecord \/ UiSubmitEnqueue
  BY <1>1, <1>2 DEF UiSubmitRecord, UiSubmitEnqueue, Next
<1>3. CASE UiStopRequest \/ UiStopJoin
  BY <1>3 DEF UiStopRequest, UiStopJoin, Next
<1>4. CASE HandleCompleted \/ OverlayTimer \/ Tick \/ SinkPush
  BY <1>4 DEF HandleCompleted, OverlayTimer, Tick, SinkPush
<1>5. CASE WorkerRuns \/ TaskEnds \/ SpuriousWake \/ SinkPost
  BY <1>5 DEF WorkerRuns, TaskEnds, SpuriousWake, SinkPost, Next, Worker
<1>6. CASE UNCHANGED allVars
  BY <1>6 DEF allVars
<1> QED BY <1>2, <1>3, <1>4, <1>5, <1>6 DEF UiNext, WorkerThread

(* The pipeline under the UI behaves as the executor by itself, so that    *)
(* its safety properties hold here too.                                    *)
THEOREM ExecutorUnderUi == UiSpec => Spec
<1>1. UiInit => Init
  BY DEF UiInit
<1> QED BY <1>1, StepOfExecutor, PTL DEF UiSpec, Spec

(* The invariant of the executor, step by step (from the lemmas above). *)
LEMMA ExecutorStep == ASSUME IInv, [Next]_vars PROVE IInv'
<1>1. ASSUME NEW c \in Clients, SubmitRecord(c) PROVE IInv'
  BY <1>1, SubmitRecordIInv
<1>2. ASSUME NEW c \in Clients, SubmitEnqueue(c) PROVE IInv'
  BY <1>2, SubmitEnqueueIInv
<1>3. CASE StopRequest
  BY <1>3, StopRequestIInv
<1>4. CASE StopJoin
  BY <1>4, StopJoinIInv
<1>5. CASE WorkerSleep \/ WorkerSpuriousWake \/ WorkerExit \/ WorkerNotify
  BY <1>5, WorkerMovesIInv
<1>6. CASE WorkerTake
  BY <1>6, WorkerTakeIInv
<1>7. ASSUME NEW outcome \in Outcomes, WorkerComplete(outcome) PROVE IInv'
  BY <1>7, WorkerCompleteIInv
<1>8. CASE UNCHANGED vars
  BY <1>8, StutterIInv
<1> QED BY <1>1, <1>2, <1>3, <1>4, <1>5, <1>6, <1>7, <1>8 DEF Next, Worker
-----------------------------------------------------------------------------
(* Reporting is kept when the sink's part of the state does not change and *)
(* neither does how far the worker has reported.                           *)
LEMMA ReportingStays ==
    ASSUME UiTypes, Reporting, Reported' = Reported, controller' = controller,
           UNCHANGED <<presented, completed, pushed>>,
           pushed => worker' = "notifying"
    PROVE  UiTypes' /\ Reporting'
BY DEF UiTypes, Reporting

(* Steps that leave the sink alone: the worker reports nothing by them.    *)
LEMMA ReportedStays ==
    ASSUME UiInv, UNCHANGED pushed,
           \/ \E c \in Clients : SubmitRecord(c) \/ SubmitEnqueue(c)
           \/ StopRequest \/ StopJoin
           \/ WorkerSleep \/ WorkerTake \/ WorkerExit \/ WorkerSpuriousWake
           \/ \E outcome \in Outcomes : WorkerComplete(outcome)
    PROVE  Reported' = Reported /\ (pushed => worker' = "notifying")
<1>0. /\ queue \in Seq(OperationIds) /\ Len(queue) \in Nat
      /\ nextId \in Int /\ Len(queue') \in Nat
  <2>1. queue \in Seq(OperationIds) /\ nextId \in Int
    BY ExecutorAssumption DEF UiInv, IInv, TypeOK
  <2> QED BY <2>1
<1>1. ASSUME NEW c \in Clients, SubmitRecord(c)
      PROVE  Reported' = Reported /\ (pushed => worker' = "notifying")
  BY <1>0, <1>1, ExecutorAssumption
     DEF SubmitRecord, threadVars, UiInv, Reporting, Reported, LastEnded,
         LastTaken, LastQueued
<1>2. ASSUME NEW c \in Clients, SubmitEnqueue(c)
      PROVE  Reported' = Reported /\ (pushed => worker' = "notifying")
  <2>1. Len(queue') = Len(queue) + 1 /\ nextId' = nextId
    BY <1>0, <1>2 DEF SubmitEnqueue
  <2>2. LastTaken' = LastTaken
    BY <1>0, <1>2, <2>1, ExecutorAssumption
       DEF SubmitEnqueue, LastTaken, LastQueued
  <2> QED BY <1>2, <2>2 DEF SubmitEnqueue, WakeWorker, UiInv, Reporting,
                            Reported, LastEnded
<1>3. CASE StopRequest \/ StopJoin \/ WorkerSleep \/ WorkerExit
           \/ WorkerSpuriousWake
  BY <1>3 DEF StopRequest, StopJoin, WorkerSleep, WorkerExit,
              WorkerSpuriousWake, WakeWorker, executorVars, UiInv, Reporting,
              Reported, LastEnded, LastTaken, LastQueued
<1>4. CASE WorkerTake
  <2>1. Len(queue') = Len(queue) - 1
    BY <1>0, <1>4 DEF WorkerTake
  <2> QED BY <1>0, <1>4, <2>1 DEF WorkerTake, UiInv, Reporting, Reported,
                                  LastEnded, LastTaken, LastQueued
<1>5. ASSUME NEW outcome \in Outcomes, WorkerComplete(outcome)
      PROVE  Reported' = Reported /\ (pushed => worker' = "notifying")
  BY <1>5 DEF WorkerComplete, executorVars, UiInv, Reporting, Reported,
              LastEnded, LastTaken, LastQueued
<1> QED BY <1>1, <1>2, <1>3, <1>4, <1>5

(* The worker puts the id it holds behind those of the earlier operations. *)
LEMMA PushReports ==
    ASSUME UiInv, SinkPush
    PROVE  UiTypes' /\ Reporting'
<1>1. /\ worker = "notifying" /\ ~pushed /\ pushed' = TRUE
      /\ completed' = Append(completed, current)
      /\ presented' = presented /\ UNCHANGED vars
  BY DEF SinkPush, historyVars
<1>2. /\ current = LastEnded /\ current \in OperationIds
      /\ controller # "returned" /\ Reported = current - 1
  BY <1>1 DEF UiInv, IInv, TypeOK, WorkerShape, StopShape, LastEnded, Reported
<1>3. /\ Reported' = current /\ worker' = worker /\ controller' = controller
  BY <1>1, <1>2 DEF vars, executorVars, threadVars, Reported, LastEnded,
                    LastTaken, LastQueued
<1>4. /\ completed \in Seq(OperationIds) /\ presented \in Seq(OperationIds)
      /\ Len(presented) + Len(completed) = current - 1
  BY <1>2 DEF UiInv, UiTypes, Reporting
<1>5. /\ completed' \in Seq(OperationIds)
      /\ Len(completed') = Len(completed) + 1
      /\ \A k \in 1 .. Len(completed) : completed'[k] = completed[k]
      /\ completed'[Len(completed) + 1] = current
  BY <1>1, <1>2, <1>4
<1>6. current \in Int /\ Len(presented) \in Nat /\ Len(completed) \in Nat
  BY <1>2, <1>4, ExecutorAssumption DEF OperationIds
<1>7. \A k \in 1 .. Len(completed') : completed'[k] = Len(presented) + k
  <2> SUFFICES ASSUME NEW k \in 1 .. Len(completed')
               PROVE  completed'[k] = Len(presented) + k
    OBVIOUS
  <2>1. CASE k \in 1 .. Len(completed)
    BY <1>5, <2>1 DEF UiInv, Reporting
  <2>2. CASE k = Len(completed) + 1
    BY <1>4, <1>5, <1>6, <2>2
  <2> QED BY <1>5, <1>6, <2>1, <2>2
<1>8. Len(presented) + Len(completed') = Reported'
  BY <1>3, <1>4, <1>5, <1>6
<1> QED BY <1>1, <1>2, <1>3, <1>4, <1>5, <1>6, <1>7, <1>8
        DEF UiTypes, Reporting, UiInv

(* The window empties the list, and presents it if it is still bound.      *)
LEMMA DrainReports ==
    ASSUME UiInv, HandleCompleted
    PROVE  UiTypes' /\ Reporting'
<1>1. /\ completed' = << >> /\ pushed' = pushed /\ UNCHANGED vars
      /\ presented' = IF Bound THEN presented \o completed ELSE presented
  BY DEF HandleCompleted
<1>2. /\ Reported' = Reported /\ worker' = worker /\ controller' = controller
  BY <1>1 DEF vars, executorVars, threadVars, Reported, LastEnded, LastTaken,
              LastQueued
<1>3. /\ completed \in Seq(OperationIds) /\ presented \in Seq(OperationIds)
      /\ Len(presented) \in Nat /\ Len(completed) \in Nat
  BY DEF UiInv, UiTypes
<1>4. CASE ~Bound
  <2>1. presented' = presented /\ completed' = completed
    BY <1>1, <1>4 DEF UiInv, Reporting, Bound
  <2> QED BY <1>1, <1>2, <2>1 DEF UiInv, UiTypes, Reporting
<1>5. CASE Bound
  <2>1. /\ presented' \in Seq(OperationIds)
        /\ Len(presented') = Len(presented) + Len(completed)
        /\ \A k \in 1 .. Len(presented) : presented'[k] = presented[k]
        /\ \A k \in 1 .. Len(completed) :
              presented'[Len(presented) + k] = completed[k]
    BY <1>1, <1>3, <1>5
  <2>2. \A k \in 1 .. Len(presented') : presented'[k] = k
    <3> SUFFICES ASSUME NEW k \in 1 .. Len(presented')
                 PROVE  presented'[k] = k
      OBVIOUS
    <3>1. CASE k <= Len(presented)
      BY <2>1, <3>1 DEF UiInv, Reporting
    <3>2. CASE k > Len(presented)
      <4>1. /\ k - Len(presented) \in 1 .. Len(completed)
            /\ k = Len(presented) + (k - Len(presented))
        BY <1>3, <2>1, <3>2
      <4> QED BY <2>1, <4>1 DEF UiInv, Reporting
    <3> QED BY <1>3, <2>1, <3>1, <3>2
  <2>3. Len(completed') = 0 /\ completed' \in Seq(OperationIds)
    BY <1>1
  <2>4. Len(presented') + Len(completed') = Reported'
    BY <1>2, <1>3, <1>5, <2>1, <2>3 DEF UiInv, Reporting, Bound
  <2> QED BY <1>1, <1>2, <1>3, <2>1, <2>2, <2>3, <2>4
          DEF UiInv, UiTypes, Reporting
<1> QED BY <1>4, <1>5

(* When Stop returns, what the window has not drained is dropped.          *)
LEMMA JoinReports ==
    ASSUME UiInv, UiStopJoin
    PROVE  UiTypes' /\ Reporting'
<1>1. /\ completed' = << >> /\ controller' = "returned"
      /\ UNCHANGED <<presented, pushed>> /\ StopJoin
  BY DEF UiStopJoin, StopJoin, historyVars
<1>2. Reported' = Reported /\ (pushed => worker' = "notifying")
  BY <1>1, ReportedStays
<1>3. /\ completed' \in Seq(OperationIds) /\ Len(completed') = 0
      /\ Len(presented) \in Nat /\ Len(completed) \in Nat
  BY <1>1 DEF UiInv, UiTypes
<1> QED BY <1>1, <1>2, <1>3 DEF UiInv, UiTypes, Reporting
-----------------------------------------------------------------------------
(* The worker waits or reports, or the UI acts: UiInv is kept.             *)
LEMMA UiInvStep == ASSUME UiInv, [UiNext]_allVars PROVE UiInv'
<1>0. IInv'
  BY StepOfExecutor, ExecutorStep DEF UiInv
<1>1. CASE UiSubmitRecord \/ UiSubmitEnqueue
  <2>1. /\ \E c \in Clients : SubmitRecord(c) \/ SubmitEnqueue(c)
        /\ UNCHANGED <<presented, completed, pushed, controller>>
    BY <1>1, UiAssumption
       DEF UiSubmitRecord, UiSubmitEnqueue, uiVars, historyVars, SubmitRecord,
           SubmitEnqueue, threadVars
  <2> QED BY <1>0, <2>1, ReportedStays, ReportingStays DEF UiInv
<1>2. CASE UiStopRequest
  <2>1. StopRequest /\ UNCHANGED <<presented, completed, pushed>>
    BY <1>2 DEF UiStopRequest, uiVars, historyVars
  <2>2. Reported' = Reported /\ (pushed => worker' = "notifying")
    BY <2>1, ReportedStays
  <2>3. controller' = "returned" <=> controller = "returned"
    BY <2>1 DEF StopRequest, UiInv, IInv, StopShape
  <2> QED BY <1>0, <2>1, <2>2, <2>3 DEF UiInv, UiTypes, Reporting
<1>3. CASE UiStopJoin
  BY <1>0, <1>3, JoinReports DEF UiInv
<1>4. CASE HandleCompleted
  BY <1>0, <1>4, DrainReports DEF UiInv
<1>5. CASE OverlayTimer \/ Tick \/ UNCHANGED allVars
  <2>1. UNCHANGED <<vars, presented, completed, pushed>>
    BY <1>5 DEF OverlayTimer, Tick, historyVars, allVars, uiVars
  <2>2. Reported' = Reported /\ worker' = worker /\ controller' = controller
    BY <2>1 DEF vars, executorVars, threadVars, Reported, LastEnded, LastTaken,
                LastQueued
  <2> QED BY <1>0, <2>1, <2>2 DEF UiInv, UiTypes, Reporting
<1>6. CASE WorkerRuns \/ TaskEnds \/ SpuriousWake
  <2>1. /\ \/ WorkerSleep \/ WorkerTake \/ WorkerExit \/ WorkerSpuriousWake
           \/ \E outcome \in Outcomes : WorkerComplete(outcome)
        /\ UNCHANGED <<presented, completed, pushed>>
    BY <1>6 DEF WorkerRuns, TaskEnds, SpuriousWake, uiVars, historyVars
  <2>2. controller' = controller
    BY <2>1 DEF WorkerSleep, WorkerTake, WorkerExit, WorkerSpuriousWake,
                WorkerComplete
  <2> QED BY <1>0, <2>1, <2>2, ReportedStays, ReportingStays DEF UiInv
<1>7. CASE SinkPush
  BY <1>0, <1>7, PushReports DEF UiInv
<1>8. CASE SinkPost
  <2>1. /\ pushed /\ pushed' = FALSE /\ WorkerNotify
        /\ UNCHANGED <<presented, completed>>
    BY <1>8 DEF SinkPost
  <2>2. Reported' = Reported /\ controller' = controller
    BY <2>1 DEF WorkerNotify, executorVars, Reported, LastEnded, LastTaken,
                LastQueued
  <2> QED BY <1>0, <2>1, <2>2 DEF UiInv, UiTypes, Reporting
<1> QED BY <1>1, <1>2, <1>3, <1>4, <1>5, <1>6, <1>7, <1>8
        DEF UiNext, WorkerThread

(* In every reachable state the sink and the screens have had exactly the  *)
(* ids that were reported, in order.                                       *)
THEOREM UiInvariance == UiSpec => []UiInv
<1>1. UiInit => UiInv
  <2> SUFFICES ASSUME UiInit PROVE UiInv
    OBVIOUS
  <2>1. IInv /\ Init
    BY InitIInv DEF UiInit
  <2>2. presented = << >> /\ completed = << >> /\ pushed = FALSE
    BY DEF UiInit
  <2>3. Reported = 0 /\ controller # "returned"
    <3>1. /\ lock = Free /\ nextId = 1 /\ worker = "checking"
          /\ controller = "idle" /\ Len(queue) = 0
      BY <2>1 DEF Init
    <3> QED BY <3>1 DEF Reported, LastEnded, LastTaken, LastQueued
  <2>4. presented \in Seq(OperationIds) /\ completed \in Seq(OperationIds)
        /\ Len(presented) = 0 /\ Len(completed) = 0
    BY <2>2
  <2>5. UiTypes
    BY <2>2, <2>4 DEF UiTypes
  <2>6. Reporting
    <3>1. 1 .. Len(presented) = {} /\ 1 .. Len(completed) = {}
      BY <2>4
    <3> QED BY <2>2, <2>3, <2>4, <3>1 DEF Reporting
  <2> QED BY <2>1, <2>5, <2>6 DEF UiInv
<1> QED BY <1>1, UiInvStep, PTL DEF UiSpec

(* Whatever becomes of the messages, what was presented and what waits in  *)
(* the sink is 1, 2, 3, ...: every end at most once and in order.          *)
THEOREM PresentedCorrect == UiSpec => []PresentedOnceInOrder
<1>1. UiInv => PresentedOnceInOrder
  <2> SUFFICES ASSUME UiInv, NEW k \in 1 .. Len(presented \o completed)
               PROVE  (presented \o completed)[k] = k
    BY DEF PresentedOnceInOrder
  <2>1. /\ presented \in Seq(OperationIds) /\ completed \in Seq(OperationIds)
        /\ Len(presented) \in Nat /\ Len(completed) \in Nat
    BY DEF UiInv, UiTypes
  <2>2. Len(presented \o completed) = Len(presented) + Len(completed)
    BY <2>1
  <2>3. CASE k <= Len(presented)
    <3>1. k \in 1 .. Len(presented) /\ (presented \o completed)[k] = presented[k]
      BY <2>1, <2>2, <2>3
    <3> QED BY <3>1 DEF UiInv, Reporting
  <2>4. CASE k > Len(presented)
    <3>1. /\ k - Len(presented) \in 1 .. Len(completed)
          /\ (presented \o completed)[k] = completed[k - Len(presented)]
      BY <2>1, <2>2, <2>4
    <3>2. completed[k - Len(presented)] = Len(presented) + (k - Len(presented))
      BY <3>1 DEF UiInv, Reporting
    <3> QED BY <2>1, <3>1, <3>2
  <2> QED BY <2>1, <2>2, <2>3, <2>4
<1> QED BY <1>1, UiInvariance, PTL

(* A presenter that is told of an end finds it in the store.               *)
THEOREM EndedCorrect == UiSpec => []PresentedHaveEnded
<1>1. UiInv => PresentedHaveEnded
  <2> SUFFICES ASSUME UiInv, NEW k \in 1 .. Len(presented)
               PROVE  phase[presented[k]] \in Terminal
    BY DEF PresentedHaveEnded
  <2>1. presented[k] = k /\ presented[k] \in OperationIds
    BY DEF UiInv, UiTypes, Reporting
  <2>2. Len(presented) + Len(completed) <= Reported /\ Len(completed) \in Nat
        /\ Len(presented) \in Nat
    BY DEF UiInv, UiTypes, Reporting
  <2>3. LastEnded \in Int /\ Reported \in Int /\ Reported <= LastEnded
    BY ExecutorAssumption DEF UiInv, IInv, TypeOK, Reported, LastEnded,
                              LastTaken, LastQueued
  <2>4. k <= LastEnded
    BY <2>2, <2>3
  <2> QED BY <2>1, <2>4 DEF UiInv, IInv, PhaseShape
<1> QED BY <1>1, UiInvariance, PTL
=============================================================================
