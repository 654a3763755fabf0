-------------------------- MODULE MachineOperations --------------------------
(***************************************************************************)
(* The two operations that change the machine, as the executor's worker    *)
(* runs them: MoveWorkpiecePriorityUseCase and                             *)
(* RequestManualTransportUseCase.  The UI thread submits an operation for  *)
(* the version of the snapshot in the store; the worker takes operations   *)
(* in order, checks each one against the store, the session and the other  *)
(* operations, writes to the machine once and reads the result back.       *)
(* Meanwhile the monitoring thread refreshes the store and the session,    *)
(* and the machine changes by itself.                                      *)
(*                                                                         *)
(* The machine is FakeMachineGateway: its state, with a version of its     *)
(* own, is replaced by the frames of a scenario and changed by accepted    *)
(* writes.  Each gateway call is one critical section of its mutex.  The   *)
(* executor is reduced to the sequential contract it implements            *)
(* (OperationLifecycle), monitoring to reads that are taken in later.      *)
(* (Slip...: see OperationExecutor.)                                       *)
(***************************************************************************)
EXTENDS Integers, Sequences, FiniteSets, MachineModelSession

CONSTANTS
    Workpieces,
    Frames,         \* contents a frame of the scenario may have
    Replies,        \* what the machine model provider may answer
    MaxFrames,      \* bound: frames of the scenario
    MaxOperations,  \* bound: operations submitted
    MaxOther        \* bound: publications of what no operation looks at

(* The machining queue: priorities are unique and count from one, and each *)
(* workpiece has one (MachiningQueue::Create).                             *)
IsQueue(priority) ==
    {priority[w] : w \in DOMAIN priority} = 1 .. Cardinality(DOMAIN priority)

Places  == {"rack", "machining", "moving", "destination"}
Healths == [mode : {"manual", "automatic", "unknown"},
            connection : {"Connected", "Degraded", "Disconnected", "Unknown"},
            error : BOOLEAN]

(* The one destination that is asked for: available, not so, or not one of *)
(* the machine's.                                                          *)
Availabilities == {"available", "unavailable", "gone"}

ASSUME OperationsAssumption ==
    /\ MaxFrames \in Nat \ {0} /\ MaxOperations \in Nat /\ MaxOther \in Nat
    /\ Replies \subseteq Answers
    /\ \A f \in Frames :
          /\ DOMAIN f.priority \subseteq Workpieces
          /\ f.priority \in [DOMAIN f.priority -> 1 .. Cardinality(Workpieces)]
          /\ IsQueue(f.priority)
          /\ f.place \in [DOMAIN f.priority -> Places]
          /\ f.destination \in Availabilities /\ f.health \in Healths

VARIABLES
    machine,    \* FakeMachineGateway::state_: content, version, frame number
    fragment,   \* what the monitoring thread has read and not taken in yet
    parts,      \* the assembler's areas, by monitoring class
    store,      \* MachineSnapshotStore::latest_
    others,     \* how often something else was published
    operations, \* the submitted operations, in order
    result,     \* OperationStateStore: "running", "success" or an error code
    job,        \* the worker: its operation, or the next; its step; the plan
    effects     \* history: the writes of each operation the machine accepted

machineVars   == <<machine>>
monitorVars   == <<fragment, parts, store, others>>
operationVars == <<operations, result, job, effects>>
vars == <<sessionVars, machineVars, monitorVars, operationVars>>

Nothing == [is |-> "nothing"]
Ids     == 1 .. MaxOperations

(* A snapshot is usable when both classes were read fresh.  A frame says   *)
(* that it is, also where the connection is only degraded.                 *)
IsConnected(health) == health.connection = "Connected"
IsFresh(health)     == health.connection \in {"Connected", "Degraded"}

Critical(m) == [health |-> m.health, fresh |-> IsFresh(m.health)]
Standard(m) == [priority |-> m.priority, place |-> m.place,
                destination |-> m.destination, fresh |-> IsFresh(m.health)]

Frame(content, version, number) ==
    [priority |-> content.priority, place |-> content.place,
     destination |-> content.destination, health |-> content.health,
     version |-> version, number |-> number]

Idle(i) == [task |-> i, step |-> "idle", plan |-> {}]

Init ==
    /\ SessionInit
    /\ \E f \in Frames : machine = Frame(f, 1, 1)
    /\ fragment = Nothing
    /\ parts = [Critical |-> Nothing, Standard |-> Nothing]
    /\ store = Nothing
    /\ others = 0
    /\ operations = << >>
    /\ result = [i \in Ids |-> "absent"]
    /\ job = Idle(1)
    /\ effects = [i \in Ids |-> 0]
-----------------------------------------------------------------------------
(* SynchronizeFrameLocked: the next frame replaces everything, the writes  *)
(* included.  Its fixture version is its number, unless the version has    *)
(* already gone as far.                                                    *)
NextVersion(number, version) == IF number <= version THEN version + 1 ELSE number

SynchronizeFrame ==
    /\ machine.number < MaxFrames
    /\ \E f \in Frames, number \in machine.number + 1 .. MaxFrames :
          machine' = Frame(f, NextVersion(number, machine.version), number)
    /\ UNCHANGED <<sessionVars, monitorVars, operationVars>>

(* The monitoring thread observes the machine model ...                    *)
ObserveMachineModel ==
    /\ \E answer \in Replies : Observe(answer)
    /\ UNCHANGED <<machineVars, monitorVars, operationVars>>

(* ... reads one class of data ...                                         *)
Read ==
    /\ fragment = Nothing
    /\ \/ fragment' = [class |-> "Critical", value |-> Critical(machine)]
       \/ fragment' = [class |-> "Standard", value |-> Standard(machine)]
    /\ UNCHANGED <<sessionVars, machineVars, parts, store, others, operationVars>>

(* ... and takes it in: a snapshot with the next version is published when *)
(* both classes are there and something has changed.                       *)
Snapshot(version, areas) ==
    [version     |-> version,
     health      |-> areas["Critical"].health,
     priority    |-> areas["Standard"].priority,
     place       |-> areas["Standard"].place,
     destination |-> areas["Standard"].destination,
     fresh       |-> areas["Critical"].fresh /\ areas["Standard"].fresh]

Publish ==
    /\ fragment # Nothing
    /\ parts' = [parts EXCEPT ![fragment.class] = fragment.value]
    /\ store' = CASE \E c \in DOMAIN parts' : parts'[c] = Nothing -> store
                  [] store = Nothing -> Snapshot(1, parts')
                  [] store = Snapshot(store.version, parts') -> store
                  [] OTHER -> Snapshot(store.version + 1, parts')
    /\ fragment' = Nothing
    /\ UNCHANGED <<sessionVars, machineVars, others, operationVars>>

(* A snapshot that differs in what no operation looks at: the detail of a  *)
(* selected workpiece, the layout, a message, the time of stale data.      *)
PublishOther ==
    /\ store # Nothing /\ others < MaxOther
    /\ others' = others + 1
    /\ store' = [store EXCEPT !.version = @ + 1]
    /\ UNCHANGED <<sessionVars, machineVars, fragment, parts, operationVars>>
-----------------------------------------------------------------------------
(* What is submitted carries the version of the snapshot the store has at  *)
(* that moment.  A selection may outlive its workpiece, so the workpiece   *)
(* need not be in the snapshot.  `seen` is history.                        *)
Submit(kind, workpiece, direction) ==
    /\ session = "Resolved" /\ store # Nothing
    /\ Len(operations) < MaxOperations
    /\ operations' = Append(operations,
          [kind |-> kind, workpiece |-> workpiece, direction |-> direction,
           version |-> store.version, seen |-> store])
    /\ result' = [result EXCEPT ![Len(operations) + 1] = "running"]
    /\ UNCHANGED <<sessionVars, machineVars, monitorVars, job, effects>>

(* MachiningQueuePresenter::SubmitMove, ManualTransportPresenter::Submit.  *)
SubmitMove(w, direction) == Submit("move", w, direction)
SubmitTransport(w)       == Submit("transport", w, "none")

(* MachiningQueue::PlanMove: the workpiece and its neighbour exchange      *)
(* their priorities.  At an end of the queue the plan is empty.            *)
PlanMove(priority, w, direction) ==
    LET target == priority[w] + (IF direction = "up" THEN -1 ELSE 1) IN
        UNION {{[workpiece |-> w, expected |-> priority[w], desired |-> target],
                [workpiece |-> v, expected |-> target, desired |-> priority[w]]}
                  : v \in {u \in DOMAIN priority : priority[u] = target}}

(* ManualTransportPolicy: why it refuses, in its order.  The status of a   *)
(* workpiece in the rack is taken to be one that may be moved.             *)
Evaluate(authorized, snapshot, w, duplicate) ==
    CASE ~authorized                           -> "PermissionDenied"
      [] snapshot.health.mode = "automatic"    -> "Rejected"
      [] snapshot.health.mode = "unknown"      -> "Unavailable"
      [] ~IsConnected(snapshot.health)         -> "Unavailable"
      [] ~snapshot.fresh                       -> "Unavailable"
      [] snapshot.place[w] # "rack"            -> "Rejected"
      [] snapshot.destination # "available"    -> "Rejected"
      [] duplicate                             -> "Conflict"
      [] OTHER                                 -> "none"
-----------------------------------------------------------------------------
(* The worker takes the operations in the order in which they came.        *)
Task    == job.task
HasTask == Task <= Len(operations)

(* RequireProfile: its error code, or "none".                              *)
ProfileError == CASE session = "Resolved"        -> "none"
                  [] session = "MismatchLatched" -> "Conflict"
                  [] session = "Unresolved"      -> "UnsupportedData"

(* Slip: the worker is not freed.                                          *)
SlipEnd(outcome) ==
    /\ result' = [result EXCEPT ![Task] = outcome]
    /\ UNCHANGED job

(* Execute returns.                                                        *)
End(outcome) ==
    /\ result' = [result EXCEPT ![Task] = outcome]
    /\ job' = Idle(Task + 1)

Proceed(step, plan) ==
    /\ job' = [task |-> Task, step |-> step, plan |-> plan]
    /\ UNCHANGED result

(* HasOtherRunningOperationFor: queued operations count, too.              *)
HasOtherRunning(i) ==
    \E j \in Ids \ {i} : /\ result[j] = "running"
                         /\ operations[j].workpiece = operations[i].workpiece

(* Why a move is refused, in the order of Execute.  The refusal of a queue *)
(* by MachiningQueue::Create does not occur, for a frame is checked before *)
(* it is taken and ApplyPriorityChange checks what it writes.              *)
MoveError(op, duplicate) ==
    CASE store.version # op.version                -> "Conflict"
      [] \/ ~IsConnected(store.health)
         \/ ~store.fresh \/ store.health.error     -> "Unavailable"
      [] duplicate                                 -> "Conflict"
      [] ~IsQueue(store.priority)                  -> "InvalidArgument"
      [] op.workpiece \notin DOMAIN store.priority -> "Conflict"
      [] OTHER                                     -> "none"

(* Why a transport is refused.                                             *)
TransportError(op, authorized, duplicate) ==
    CASE store.version # op.version                -> "Conflict"
      [] op.workpiece \notin DOMAIN store.priority -> "Conflict"
      [] store.destination = "gone"                -> "Conflict"
      [] OTHER -> Evaluate(authorized, store, op.workpiece, duplicate)

(* Execute, first: the profile.                                            *)
WorkerRequireProfile ==
    /\ HasTask /\ job.step = "idle"
    /\ IF ProfileError # "none" THEN End(ProfileError) ELSE Proceed("checking", {})
    /\ UNCHANGED <<sessionVars, machineVars, monitorVars, operations, effects>>

(* The checks against the snapshot, which is immutable, and the plan.      *)
WorkerCheck ==
    /\ job.step = "checking"
    /\ LET op == operations[Task]
           duplicate == HasOtherRunning(Task)
       IN  \/ /\ op.kind = "move"
              /\ LET error == MoveError(op, duplicate)
                     plan  == PlanMove(store.priority, op.workpiece, op.direction)
                 IN  CASE error # "none" -> End(error)
                       [] error = "none" /\ plan = {} -> End("success")
                       [] error = "none" /\ plan # {} -> Proceed("planned", plan)
           \/ /\ op.kind = "transport"
              /\ \E authorized \in BOOLEAN :
                    LET error == TransportError(op, authorized, duplicate) IN
                        IF error # "none" THEN End(error) ELSE Proceed("planned", {})
    /\ UNCHANGED <<sessionVars, machineVars, monitorVars, operations, effects>>

(* The profile again, last before the write.                               *)
WorkerRecheckProfile ==
    /\ job.step = "planned"
    /\ IF ProfileError # "none" THEN End(ProfileError)
                                ELSE Proceed("writing", job.plan)
    /\ UNCHANGED <<sessionVars, machineVars, monitorVars, operations, effects>>
-----------------------------------------------------------------------------
(* What both gateway calls check first: IsWritableLocked, the version.     *)
BaseError(op) == CASE ~IsConnected(machine.health)  -> "Unavailable"
                   [] op.version # machine.version  -> "Conflict"
                   [] OTHER                         -> "none"

Expected(plan) ==
    \A a \in plan : /\ a.workpiece \in DOMAIN machine.priority
                    /\ machine.priority[a.workpiece] = a.expected

Assigned(plan) ==
    [w \in DOMAIN machine.priority |->
        IF \E a \in plan : a.workpiece = w
        THEN (CHOOSE a \in plan : a.workpiece = w).desired
        ELSE machine.priority[w]]

(* Slip: the expected priorities are not compared.                         *)
SlipPriorityError(op, plan) ==
    IF BaseError(op) = "none" /\ ~IsQueue(Assigned(plan)) THEN "Rejected"
                                                          ELSE BaseError(op)

(* ApplyPriorityChange: all expected priorities first, the whole queue     *)
(* checked again, then all of them are written.                            *)
PriorityError(op, plan) ==
    CASE BaseError(op) # "none"        -> BaseError(op)
      [] ~Expected(plan)               -> "Conflict"
      [] ~IsQueue(Assigned(plan))      -> "Rejected"
      [] OTHER                         -> "none"

(* RequestTransport.                                                       *)
RequestError(op) ==
    CASE BaseError(op) # "none"                      -> BaseError(op)
      [] machine.destination # "available"           -> "Rejected"
      [] op.workpiece \notin DOMAIN machine.priority -> "Conflict"
      [] OTHER                                       -> "none"

(* Slip: a write leaves the version of the machine as it is.               *)
SlipWritten(op, plan) ==
    IF op.kind = "move" THEN [machine EXCEPT !.priority = Assigned(plan)]
                        ELSE [machine EXCEPT !.place[op.workpiece] = "moving"]

Written(op, plan) ==
    IF op.kind = "move"
    THEN [machine EXCEPT !.priority = Assigned(plan), !.version = @ + 1]
    ELSE [machine EXCEPT !.place[op.workpiece] = "moving", !.version = @ + 1]

WorkerWrite ==
    /\ job.step = "writing"
    /\ LET op == operations[Task]
           error == IF op.kind = "move" THEN PriorityError(op, job.plan)
                                        ELSE RequestError(op)
       IN  IF error # "none"
           THEN End(error) /\ UNCHANGED <<machineVars, effects>>
           ELSE /\ machine' = Written(op, job.plan)
                /\ effects' = [effects EXCEPT ![Task] = @ + 1]
                /\ Proceed("reading", job.plan)
    /\ UNCHANGED <<sessionVars, monitorVars, operations>>

(* Slip: the freshness of what was read back is not looked at.             *)
SlipConfirmed(op, plan) ==
    /\ op.kind = "move" =>
          \A a \in plan : /\ a.workpiece \in DOMAIN machine.priority
                          /\ machine.priority[a.workpiece] = a.desired
    /\ op.kind = "transport" =>
          /\ op.workpiece \in DOMAIN machine.priority
          /\ machine.place[op.workpiece] \in {"moving", "destination"}

(* Does the machine show what was asked for?                               *)
Confirmed(op, plan) ==
    /\ IsFresh(machine.health)
    /\ op.kind = "move" =>
          \A a \in plan : /\ a.workpiece \in DOMAIN machine.priority
                          /\ machine.priority[a.workpiece] = a.desired
    /\ op.kind = "transport" =>
          /\ op.workpiece \in DOMAIN machine.priority
          /\ machine.place[op.workpiece] \in {"moving", "destination"}

(* Slip: an operation that was not confirmed is tried again.               *)
SlipReadBack ==
    /\ job.step = "reading"
    /\ IF Confirmed(operations[Task], job.plan) THEN End("success")
                                                ELSE Proceed("writing", job.plan)
    /\ UNCHANGED <<sessionVars, machineVars, monitorVars, operations, effects>>

(* The Standard read back, which the gateway always answers.               *)
WorkerReadBack ==
    /\ job.step = "reading"
    /\ End(IF Confirmed(operations[Task], job.plan) THEN "success"
                                                    ELSE "InvalidResponse")
    /\ UNCHANGED <<sessionVars, machineVars, monitorVars, operations, effects>>

Worker ==
    \/ WorkerRequireProfile \/ WorkerCheck \/ WorkerRecheckProfile
    \/ WorkerWrite \/ WorkerReadBack

Monitoring == ObserveMachineModel \/ Read \/ Publish \/ PublishOther

Next ==
    \/ SynchronizeFrame
    \/ Monitoring
    \/ \E w \in Workpieces :
          \/ \E d \in {"up", "down"} : SubmitMove(w, d)
          \/ SubmitTransport(w)
    \/ Worker

Spec == Init /\ [][Next]_vars
-----------------------------------------------------------------------------
Codes ==
    ErrorCodes \cup {"Conflict", "InvalidArgument", "PermissionDenied", "Rejected"}

(* Types, and the shape of the data: the machine's queue stays a queue and *)
(* has a place for every workpiece, whatever is written to it; the worker  *)
(* leaves no operation behind.                                             *)
TypeOK ==
    /\ SessionTypeOK
    /\ machine = Frame(machine, machine.version, machine.number)
    /\ machine.priority \in [DOMAIN machine.priority -> Nat]
    /\ IsQueue(machine.priority)
    /\ machine.place \in [DOMAIN machine.priority -> Places]
    /\ machine.number \in Nat /\ machine.version \in Nat
    /\ machine.version >= machine.number
    /\ result \in [Ids -> Codes \cup {"absent", "running", "success"}]
    /\ \A i \in Ids : /\ result[i] = "absent" <=> i > Len(operations)
                      /\ result[i] = "running" <=> i \in Task .. Len(operations)
    /\ job.step \in {"idle", "checking", "planned", "writing", "reading"}
    /\ job.step # "idle" => HasTask

(* What an operation reports is what it did: it writes at most once; a     *)
(* success has written, unless the move had nowhere to go; an error has    *)
(* not, except InvalidResponse, which tells the operator that the machine  *)
(* took the write and did not show it (Execute of both use cases).         *)
ReportMatchesEffect ==
    \A i \in 1 .. Len(operations) :
        LET op == operations[i] IN
        /\ effects[i] \in {0, 1}
        /\ result[i] = "success" /\ effects[i] = 0 =>
              /\ op.kind = "move"
              /\ PlanMove(op.seen.priority, op.workpiece, op.direction) = {}
        /\ result[i] \in Codes => (effects[i] = 1 <=> result[i] = "InvalidResponse")

(* One picture of the machine leads to one change: of all operations       *)
(* submitted for the same version of the snapshot, at most one is          *)
(* accepted, even while the store still shows the state before it          *)
(* (the version check and Next of FakeMachineGateway).                     *)
OneWritePerVersion ==
    \A i, j \in 1 .. Len(operations) :
        i # j /\ effects[i] = 1 /\ effects[j] = 1 =>
            operations[i].version # operations[j].version

(* A priority change that is accepted moves the workpiece one position     *)
(* from where the operator saw it, and every workpiece that gives way was  *)
(* seen in the position it had (expected of PriorityAssignment,            *)
(* ApplyPriorityChange).                                                   *)
MoveChangesWhatWasSeen ==
    [][\A i \in 1 .. Len(operations) :
          LET op == operations[i]
              seen == op.seen.priority
          IN  effects'[i] # effects[i] /\ op.kind = "move" =>
                 /\ op.workpiece \in DOMAIN machine.priority
                 /\ machine'.priority[op.workpiece] =
                       seen[op.workpiece] + (IF op.direction = "up" THEN -1 ELSE 1)
                 /\ \A w \in DOMAIN machine.priority :
                       machine'.priority[w] # machine.priority[w] \/ w = op.workpiece =>
                          w \in DOMAIN seen /\ machine.priority[w] = seen[w]]_vars

(* A reported success was true of the machine when it was read back,       *)
(* even if a frame came between the write and the reading.                 *)
SuccessIsConfirmed ==
    [][\A i \in 1 .. Len(operations) :
          LET op == operations[i] IN
          result[i] = "running" /\ result'[i] = "success" /\ effects[i] = 1 =>
             /\ IsFresh(machine.health)
             /\ op.workpiece \in DOMAIN machine.priority
             /\ IF op.kind = "move"
                THEN machine.priority[op.workpiece] = op.seen.priority[op.workpiece]
                                              + (IF op.direction = "up" THEN -1 ELSE 1)
                ELSE machine.place[op.workpiece] \in {"moving", "destination"}]_vars
-----------------------------------------------------------------------------
(* The inductive invariant.  The operations before job.task have ended, the *)
(* others run and have written nothing unless the worker reads back.       *)
Progress ==
    /\ Task \in Nat \ {0} /\ Task <= Len(operations) + 1
    /\ \A i \in Ids :
          /\ i < Task => result[i] \in Codes \cup {"success"}
          /\ i >= Task => effects[i] = IF i = Task /\ job.step = "reading"
                                      THEN 1 ELSE 0
          /\ result[i] \in Codes =>
                (effects[i] = 1 <=> result[i] = "InvalidResponse")

(* The version of the machine has gone past those of all who have written. *)
WritersAreBehind ==
    \A i \in 1 .. Len(operations) :
        effects[i] # 0 => effects[i] = 1 /\ operations[i].version < machine.version

(* Two snapshots of one version are the same, so that the plan, made from  *)
(* the store, is the one for the picture the operator saw.                 *)
SeenWasPublished ==
    \A i \in 1 .. Len(operations) :
        LET op == operations[i] IN
        /\ op.version = op.seen.version
        /\ op.version <= store.version
        /\ op.version = store.version => op.seen = store

PlanIsForSeen ==
    LET op == operations[Task] IN
        job.step \in {"planned", "writing", "reading"} /\ op.kind = "move" =>
            /\ op.workpiece \in DOMAIN op.seen.priority
            /\ job.plan = PlanMove(op.seen.priority, op.workpiece, op.direction)
            /\ job.plan # {}

(* A success that wrote nothing was a move at an end of the queue.         *)
NoOpMeansEndOfQueue ==
    \A i \in 1 .. Len(operations) :
        LET op == operations[i] IN
        result[i] = "success" /\ effects[i] = 0 =>
            /\ op.kind = "move"
            /\ PlanMove(op.seen.priority, op.workpiece, op.direction) = {}

Shape ==
    /\ operations \in Seq({operations[k] : k \in 1 .. Len(operations)})
    /\ \A i \in 1 .. Len(operations) : operations[i].kind \in {"move", "transport"}
    /\ Len(operations) <= MaxOperations
    /\ effects \in [Ids -> Nat]
    /\ \A i \in 1 .. Len(operations) : operations[i].version \in Nat
    /\ store = Nothing \/ ("version" \in DOMAIN store /\ store.version \in Nat)
    /\ store = Nothing => operations = << >>

IInv ==
    /\ TypeOK /\ Shape
    /\ Progress /\ WritersAreBehind /\ SeenWasPublished
    /\ PlanIsForSeen /\ NoOpMeansEndOfQueue /\ OneWritePerVersion
=============================================================================
