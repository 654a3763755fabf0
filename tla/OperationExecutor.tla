------------------------- MODULE OperationExecutor --------------------------
(***************************************************************************)
(* OperationExecutor with the OperationStateStore it writes: client        *)
(* threads submit tasks, one worker thread runs them in FIFO order and     *)
(* records each result before it notifies, and a lifecycle controller      *)
(* stops the worker after the queue is drained.                            *)
(*                                                                         *)
(* The executor's mutex is `lock`; it is modelled because Submit holds it  *)
(* across a call into the store, which has a mutex of its own, so that the *)
(* new record is visible to readers before its task is in the queue.  The  *)
(* condition variable is modelled too: a worker that found nothing to do   *)
(* sleeps until it is notified (or wakes spuriously), so a missing         *)
(* notification is a lost wake-up.  Critical sections that touch nothing   *)
(* but the executor's own fields are one action.                           *)
(*                                                                         *)
(* A definition named Slip... is not the program: it is a mistake that its *)
(* neighbour could contain, kept to show that a property would notice.     *)
(***************************************************************************)
EXTENDS Integers, Sequences

CONSTANTS
    Clients,        \* the threads that call Submit
    Free,           \* the value of `lock` when no thread holds the mutex
    MaxOperations   \* bound on nextId, a uint64 in the code

ASSUME ExecutorAssumption ==
    /\ Free \notin Clients
    /\ MaxOperations \in Nat \ {0}

VARIABLES
    lock,           \* mutex_: Free, or the client inside Submit
    accepting,      \* accepting_
    stopRequested,  \* stopRequested_
    joinable,       \* worker_ still owns the worker thread
    queue,          \* queue_: the ids of the tasks not taken yet
    nextId,         \* nextId_
    phase,          \* OperationStateStore::records_: the phase of each id
    worker,         \* where the worker thread is in Run
    current,        \* the id of the task the worker holds, 0 when none
    controller      \* where the lifecycle controller is in Stop

storeVars    == <<phase>>
executorVars == <<lock, accepting, stopRequested, joinable, queue, nextId>>
threadVars   == <<worker, current, controller>>
vars         == <<executorVars, storeVars, threadVars>>

OperationIds == 1 .. MaxOperations
Terminal     == {"Succeeded", "Failed"}
Phases       == {"Absent", "Running"} \cup Terminal

(* What a task may do: return success, return an error, or throw.          *)
Outcomes == {"success", "error", "exception"}

(* Slip: an exception skips the recording of a result.                     *)
SlipNoCatch(outcome) ==
    CASE outcome = "success" -> "Succeeded" [] outcome = "error" -> "Failed"
      [] outcome = "exception" -> "Running"

(* Run turns an exception into a failure, like an error result.            *)
ResultOf(outcome) == IF outcome = "success" THEN "Succeeded" ELSE "Failed"
-----------------------------------------------------------------------------
(* OperationStateStore::Start: refused when the id is already recorded.    *)
CanStart(id) == phase[id] = "Absent"

StoreStart(id) ==
    phase' = IF CanStart(id) THEN [phase EXCEPT ![id] = "Running"] ELSE phase

(* OperationStateStore::Complete: only a running record is overwritten.    *)
StoreComplete(id, result) ==
    phase' = IF phase[id] = "Running" THEN [phase EXCEPT ![id] = result]
                                      ELSE phase
-----------------------------------------------------------------------------
Init ==
    /\ lock = Free
    /\ accepting = TRUE
    /\ stopRequested = FALSE
    /\ joinable = TRUE
    /\ queue = << >>
    /\ nextId = 1
    /\ phase = [i \in OperationIds |-> "Absent"]
    /\ worker = "checking"
    /\ current = 0
    /\ controller = "idle"

(* condition_.notify_one / notify_all: a sleeping worker evaluates its     *)
(* predicate again once it has the mutex.                                  *)
WakeWorker == worker' = IF worker = "asleep" THEN "checking" ELSE worker

(* Submit up to the call of Start, which it makes with the mutex held.     *)
(* A Submit that finds accepting_ false changes nothing, like one with an  *)
(* empty task, and is no step of the model.                                *)
SubmitRecord(c) ==
    /\ lock = Free
    /\ accepting
    /\ nextId <= MaxOperations
    /\ StoreStart(nextId)
    /\ nextId' = nextId + 1
    /\ lock' = c
    /\ UNCHANGED <<accepting, stopRequested, joinable, queue, threadVars>>

(* Slip: the worker is not notified.                                       *)
SlipEnqueueSilently(c) ==
    /\ lock = c
    /\ queue' = Append(queue, nextId - 1)
    /\ lock' = Free
    /\ UNCHANGED <<accepting, stopRequested, joinable, nextId, storeVars,
                   threadVars>>

(* The rest of Submit: register the task, notify, release the mutex.       *)
SubmitEnqueue(c) ==
    /\ lock = c
    /\ queue' = Append(queue, nextId - 1)
    /\ WakeWorker
    /\ lock' = Free
    /\ UNCHANGED <<accepting, stopRequested, joinable, nextId, storeVars,
                   current, controller>>

(* Slip: the worker is not notified of the stop.                           *)
SlipStopSilently ==
    /\ controller \in {"idle", "returned"}
    /\ lock = Free
    /\ accepting' = FALSE
    /\ stopRequested' = TRUE
    /\ joinable' = FALSE
    /\ controller' = IF joinable THEN "joining" ELSE "returned"
    /\ UNCHANGED <<lock, queue, nextId, storeVars, worker, current>>

(* Stop's critical section.  The first call takes the thread out of        *)
(* worker_ and joins it; a later call finds nothing to join and returns.   *)
StopRequest ==
    /\ controller \in {"idle", "returned"}
    /\ lock = Free
    /\ accepting' = FALSE
    /\ stopRequested' = TRUE
    /\ joinable' = FALSE
    /\ controller' = IF joinable THEN "joining" ELSE "returned"
    /\ WakeWorker
    /\ UNCHANGED <<lock, queue, nextId, storeVars, current>>

(* worker.join() returns, without the mutex.                               *)
StopJoin ==
    /\ controller = "joining"
    /\ worker = "exited"
    /\ controller' = "returned"
    /\ UNCHANGED <<executorVars, storeVars, worker, current>>
-----------------------------------------------------------------------------
(* condition_.wait: the predicate is false, so the worker releases the     *)
(* mutex and sleeps.                                                       *)
WorkerSleep ==
    /\ worker = "checking"
    /\ lock = Free
    /\ ~stopRequested /\ queue = << >>
    /\ worker' = "asleep"
    /\ UNCHANGED <<executorVars, storeVars, current, controller>>

(* A condition variable may wake without a notification.                   *)
WorkerSpuriousWake ==
    /\ worker = "asleep"
    /\ worker' = "checking"
    /\ UNCHANGED <<executorVars, storeVars, current, controller>>

(* Slip: the newest task is taken.                                         *)
SlipTakeLast ==
    /\ worker = "checking"
    /\ lock = Free
    /\ queue # << >>
    /\ current' = queue[Len(queue)]
    /\ queue' = SubSeq(queue, 1, Len(queue) - 1)
    /\ worker' = "running"
    /\ UNCHANGED <<lock, accepting, stopRequested, joinable, nextId, storeVars,
                   controller>>

WorkerTake ==
    /\ worker = "checking"
    /\ lock = Free
    /\ queue # << >>
    /\ current' = Head(queue)
    /\ queue' = Tail(queue)
    /\ worker' = "running"
    /\ UNCHANGED <<lock, accepting, stopRequested, joinable, nextId, storeVars,
                   controller>>

(* Slip: a stop is obeyed before the queue is drained.                     *)
SlipExitAtOnce ==
    /\ worker = "checking"
    /\ lock = Free
    /\ stopRequested
    /\ worker' = "exited"
    /\ UNCHANGED <<executorVars, storeVars, current, controller>>

(* The queue is empty and a stop was requested: Run breaks out of its loop.*)
WorkerExit ==
    /\ worker = "checking"
    /\ lock = Free
    /\ queue = << >> /\ stopRequested
    /\ worker' = "exited"
    /\ UNCHANGED <<executorVars, storeVars, current, controller>>

(* Slip: listeners are notified although nothing was recorded.             *)
SlipNotRecorded(outcome) ==
    /\ worker = "running"
    /\ worker' = "notifying"
    /\ UNCHANGED <<executorVars, storeVars, current, controller>>

(* The task has run, outside the mutex; its result goes to the store.      *)
WorkerComplete(outcome) ==
    /\ worker = "running"
    /\ StoreComplete(current, ResultOf(outcome))
    /\ worker' = "notifying"
    /\ UNCHANGED <<executorVars, current, controller>>

(* completionSink_.OnOperationCompleted: delivered or not, Run goes on.    *)
WorkerNotify ==
    /\ worker = "notifying"
    /\ worker' = "checking"
    /\ current' = 0
    /\ UNCHANGED <<executorVars, storeVars, controller>>

Worker ==
    \/ WorkerSleep
    \/ WorkerTake
    \/ WorkerExit
    \/ \E outcome \in Outcomes : WorkerComplete(outcome)
    \/ WorkerNotify

Next ==
    \/ \E c \in Clients : SubmitRecord(c) \/ SubmitEnqueue(c)
    \/ StopRequest
    \/ StopJoin
    \/ Worker
    \/ WorkerSpuriousWake

(* Threads that can run do run: the worker (its tasks are synchronous and  *)
(* end, which the type of OperationTask demands), a client inside Submit,  *)
(* and a controller whose join can return.  Nobody has to call Submit or   *)
(* Stop, and no spurious wake-up is owed.                                  *)
Fairness ==
    /\ WF_vars(Worker)
    /\ \A c \in Clients : WF_vars(SubmitEnqueue(c))
    /\ WF_vars(StopJoin)

Spec     == Init /\ [][Next]_vars
FairSpec == Spec /\ Fairness
-----------------------------------------------------------------------------
InQueue(i) == \E k \in 1 .. Len(queue) : queue[k] = i

(* Types of the fields and positions of the threads.                       *)
TypeOK ==
    /\ lock \in Clients \cup {Free}
    /\ accepting \in BOOLEAN
    /\ stopRequested \in BOOLEAN
    /\ joinable \in BOOLEAN
    /\ queue \in Seq(OperationIds)
    /\ nextId \in 1 .. MaxOperations + 1
    /\ phase \in [OperationIds -> Phases]
    /\ worker \in {"checking", "asleep", "running", "notifying", "exited"}
    /\ current \in {0} \cup OperationIds
    /\ controller \in {"idle", "joining", "returned"}

(* The store and the executor agree although they have separate mutexes:   *)
(* a record is Running exactly when its task is waiting in the queue, is   *)
(* on the worker, or is just being submitted.  A task never runs without   *)
(* its record, and no record is left Running by a task that is gone       *)
(* (Submit 34-55, Run 83-134).                                             *)
RunningIffPending ==
    \A i \in OperationIds :
        phase[i] = "Running" <=>
            \/ InQueue(i)
            \/ worker = "running" /\ current = i
            \/ lock # Free /\ i = nextId - 1

(* Results appear in acceptance order: when an operation has ended, every  *)
(* operation accepted before it has ended too (one worker, FIFO queue).    *)
FifoCompletion ==
    \A i, j \in OperationIds :
        i < j /\ phase[j] \in Terminal => phase[i] \in Terminal

(* The completion sink is called after the result is in the store, so a    *)
(* listener that looks it up finds the end of the operation (Run 122-138). *)
RecordedBeforeNotified ==
    worker = "notifying" => phase[current] \in Terminal

(* No lost wake-up: the worker never sleeps while there is a task to take  *)
(* or a stop to obey (the predicate of condition_.wait, 86-90).            *)
AsleepMeansIdle ==
    worker = "asleep" => queue = << >> /\ ~stopRequested

(* When Stop has returned, everything that was accepted has ended and the  *)
(* worker is gone: the dependencies may be destroyed (Stop 58-76).         *)
StoppedMeansDrained ==
    controller = "returned" =>
        /\ worker = "exited"
        /\ queue = << >>
        /\ \A i \in OperationIds : phase[i] # "Running"

(* A recorded result is never overwritten and never deleted                *)
(* (OperationStateStore::Complete 136-140).                                *)
ResultsAreFinal ==
    [][\A i \in OperationIds : phase[i] \in Terminal => phase'[i] = phase[i]]_vars

(* Submit after the stop request is refused, whatever is still queued: no  *)
(* record appears once Stop has closed the executor.                       *)
NothingAcceptedAfterStop ==
    [][stopRequested =>
        \A i \in OperationIds : phase[i] = "Absent" => phase'[i] = "Absent"]_vars

(* Every accepted operation ends, whether or not Stop is called meanwhile. *)
AcceptedCompletes ==
    \A i \in OperationIds : phase[i] = "Running" ~> phase[i] \in Terminal

(* Stop returns: the join does not wait for a worker that sleeps or that   *)
(* waits for the caller.                                                   *)
StopReturns == controller = "joining" ~> controller = "returned"

(* The pipeline implements the sequential contract of OperationLifecycle.  *)
Lifecycle == INSTANCE OperationLifecycle WITH open <- accepting
ImplementsLifecycle == Lifecycle!Spec
-----------------------------------------------------------------------------
(* The inductive invariant behind the properties: ids are handed out,      *)
(* queued, taken and ended in the order 1, 2, 3, ..., so every phase is    *)
(* determined by how far each of these has come.                           *)

(* The last id that has been put in the queue.                             *)
LastQueued == IF lock = Free THEN nextId - 1 ELSE nextId - 2

(* The last id that the worker has taken out of the queue.                 *)
LastTaken == LastQueued - Len(queue)

(* The last id whose result is in the store.                               *)
LastEnded == IF worker = "running" THEN LastTaken - 1 ELSE LastTaken

QueueShape ==
    /\ LastEnded >= 0
    /\ \A k \in 1 .. Len(queue) : queue[k] = LastTaken + k

PhaseShape ==
    \A i \in OperationIds :
        /\ i <= LastEnded => phase[i] \in Terminal
        /\ LastEnded < i /\ i < nextId => phase[i] = "Running"
        /\ nextId <= i => phase[i] = "Absent"

WorkerShape ==
    /\ worker \in {"running", "notifying"} => current = LastTaken /\ current # 0
    /\ worker = "asleep" => queue = << >> /\ ~stopRequested
    /\ worker = "exited" => queue = << >> /\ stopRequested

StopShape ==
    /\ accepting <=> ~stopRequested
    /\ joinable <=> ~stopRequested
    /\ controller = "idle" <=> ~stopRequested
    /\ controller = "returned" => worker = "exited"
    /\ lock # Free => ~stopRequested

IInv == TypeOK /\ QueueShape /\ PhaseShape /\ WorkerShape /\ StopShape
=============================================================================
