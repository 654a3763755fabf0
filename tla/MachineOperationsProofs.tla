----------------------- MODULE MachineOperationsProofs -----------------------
(***************************************************************************)
(* Proofs about MachineOperations, for any sets of workpieces and frames   *)
(* and any number of operations.  The argument: the worker ends the        *)
(* operations one after the other, so only operation job.task can write;   *)
(* it writes only when its version is the machine's, and the write moves   *)
(* the machine's version past it for good.  What the worker planned is for *)
(* what the operator saw because the store never shows two different       *)
(* snapshots under one version.                                            *)
(***************************************************************************)
EXTENDS MachineOperations, MachineModelSessionProofs

(* An appended operation leaves the earlier ones in place.                 *)
LEMMA AppendKeeps ==
    ASSUME NEW s, s \in Seq({s[k] : k \in 1 .. Len(s)}), NEW x
    PROVE  LET t == Append(s, x) IN
           /\ Len(t) = Len(s) + 1 /\ Len(s) \in Nat
           /\ \A k \in 1 .. Len(s) : t[k] = s[k]
           /\ t[Len(s) + 1] = x
           /\ t \in Seq({t[k] : k \in 1 .. Len(t)})
<1> DEFINE S == {s[k] : k \in 1 .. Len(s)} \cup {x}
           t == Append(s, x)
<1>1. s \in Seq(S)
  OBVIOUS
<1>2. t \in Seq(S) /\ Len(t) = Len(s) + 1 /\ Len(s) \in Nat
  BY <1>1
<1>3. \A k \in 1 .. Len(s) : t[k] = s[k]
  BY <1>1
<1>4. t[Len(s) + 1] = x
  BY <1>1
<1>5. t \in Seq({t[k] : k \in 1 .. Len(t)})
  BY <1>2
<1>6. QED
  BY <1>2, <1>3, <1>4, <1>5

LEMMA InitIInv == Init => IInv
<1> SUFFICES ASSUME Init PROVE IInv
  OBVIOUS
<1>1. PICK f \in Frames : machine = Frame(f, 1, 1)
  BY DEF Init
<1>2. TypeOK
  BY <1>1, SessionInitOK, OperationsAssumption
     DEF Init, TypeOK, Frame, Idle, Task, HasTask, Ids, IsQueue
<1>3. Shape
  BY OperationsAssumption DEF Init, Shape, Ids
<1>4. Progress /\ WritersAreBehind /\ SeenWasPublished
  BY DEF Init, Progress, WritersAreBehind, SeenWasPublished, Idle, Task
<1>5. PlanIsForSeen /\ NoOpMeansEndOfQueue /\ OneWritePerVersion
  BY DEF Init, PlanIsForSeen, NoOpMeansEndOfQueue, OneWritePerVersion, Idle
<1>6. QED
  BY <1>2, <1>3, <1>4, <1>5 DEF IInv

(* The parts of the invariant that speak of the operations only.           *)
LEMMA OperationsKept ==
    ASSUME IInv, UNCHANGED <<operations, result, job, effects>>
    PROVE  /\ Task' = Task
           /\ Progress' /\ PlanIsForSeen' /\ NoOpMeansEndOfQueue'
           /\ OneWritePerVersion'
<1>1. Task' = Task
  BY DEF Task
<1>2. Progress'
  BY <1>1 DEF IInv, Progress
<1>3. PlanIsForSeen'
  BY <1>1 DEF IInv, PlanIsForSeen
<1>4. NoOpMeansEndOfQueue'
  BY DEF IInv, NoOpMeansEndOfQueue
<1>5. OneWritePerVersion'
  BY DEF IInv, OneWritePerVersion
<1>6. QED
  BY <1>1, <1>2, <1>3, <1>4, <1>5

(* The scenario's next frame.                                              *)
LEMMA SynchronizeFrameIInv == IInv /\ SynchronizeFrame => IInv'
<1> SUFFICES ASSUME IInv, SynchronizeFrame PROVE IInv'
  OBVIOUS
<1>0. /\ UNCHANGED <<session, profile, sessionError, store, operations, result,
                     job, effects>>
      /\ Task' = Task
  BY DEF SynchronizeFrame, sessionVars, monitorVars, operationVars, Task
<1>1. PICK f \in Frames, number \in machine.number + 1 .. MaxFrames :
         machine' = Frame(f, NextVersion(number, machine.version), number)
  BY DEF SynchronizeFrame
<1>2. /\ machine'.version \in Nat /\ machine'.number \in Nat
      /\ machine'.version > machine.version
      /\ machine'.version >= machine'.number
  BY <1>1 DEF Frame, NextVersion, IInv, TypeOK
<1>3. TypeOK'
  <2>1. SessionTypeOK'
    BY <1>0, SessionStutter DEF IInv, TypeOK, sessionVars
  <2>2. /\ machine' = Frame(machine', machine'.version, machine'.number)
        /\ machine'.priority \in [DOMAIN machine'.priority -> Nat]
        /\ IsQueue(machine'.priority)
        /\ machine'.place \in [DOMAIN machine'.priority -> Places]
    BY <1>1, OperationsAssumption DEF Frame, IsQueue
  <2>3. QED
    BY <1>0, <1>2, <2>1, <2>2 DEF IInv, TypeOK, HasTask
<1>4. Shape' /\ SeenWasPublished'
  BY <1>0 DEF IInv, Shape, SeenWasPublished
<1>5. WritersAreBehind'
  <2> SUFFICES ASSUME NEW i \in 1 .. Len(operations), effects[i] # 0
               PROVE  effects[i] = 1 /\ operations[i].version < machine'.version
    BY <1>0 DEF WritersAreBehind
  <2>1. effects[i] = 1 /\ operations[i].version < machine.version
    BY DEF IInv, WritersAreBehind
  <2>2. operations[i].version \in Nat
    BY DEF IInv, SeenWasPublished, Shape, TypeOK
  <2>3. QED
    BY <1>2, <2>1, <2>2 DEF IInv, TypeOK
<1>6. QED
  BY <1>0, <1>3, <1>4, <1>5, OperationsKept DEF IInv

(* An observation touches the session only.                                *)
LEMMA ObserveIInv == IInv /\ ObserveMachineModel => IInv'
<1> SUFFICES ASSUME IInv, ObserveMachineModel PROVE IInv'
  OBVIOUS
<1>0. /\ UNCHANGED <<machine, store, operations, result, job, effects>>
      /\ Task' = Task
  BY DEF ObserveMachineModel, machineVars, monitorVars, operationVars, Task
<1>1. SessionTypeOK'
  BY ObserveStep, OperationsAssumption DEF ObserveMachineModel, IInv, TypeOK
<1>2. TypeOK'
  BY <1>0, <1>1 DEF IInv, TypeOK, HasTask
<1>3. Shape' /\ SeenWasPublished' /\ WritersAreBehind'
  BY <1>0 DEF IInv, Shape, SeenWasPublished, WritersAreBehind
<1>4. QED
  BY <1>0, <1>2, <1>3, OperationsKept DEF IInv

(* A snapshot replaces the one before it under a higher version.           *)
LEMMA StoreStep ==
    ASSUME IInv, Read \/ Publish \/ PublishOther
    PROVE  \/ store' = store
           \/ /\ "version" \in DOMAIN store' /\ store'.version \in Nat
              /\ store' # Nothing
              /\ store # Nothing => store'.version > store.version
<1>1. CASE Read
  BY <1>1 DEF Read
<1>2. CASE Publish
  <2>1. \A n : Snapshot(n, parts') # Nothing
    <3>1. \A n : DOMAIN Snapshot(n, parts') # DOMAIN Nothing
      BY DEF Snapshot, Nothing
    <3>2. QED
      BY <3>1
  <2>2. \/ store' = store
        \/ store = Nothing /\ store' = Snapshot(1, parts')
        \/ store # Nothing /\ store' = Snapshot(store.version + 1, parts')
    BY <1>2 DEF Publish
  <2>3. store # Nothing => store.version \in Nat
    BY DEF IInv, Shape
  <2>4. QED
    BY <2>1, <2>2, <2>3 DEF Snapshot
<1>3. CASE PublishOther
  <2>1. store # Nothing /\ "version" \in DOMAIN store /\ store.version \in Nat
    BY <1>3 DEF PublishOther, IInv, Shape
  <2>2. store' = [store EXCEPT !.version = @ + 1]
    BY <1>3 DEF PublishOther
  <2>3. "version" \in DOMAIN store' /\ store'.version = store.version + 1
    BY <2>1, <2>2
  <2>4. "version" \notin DOMAIN Nothing
    BY DEF Nothing
  <2>5. QED
    BY <2>1, <2>3, <2>4
<1>4. QED
  BY <1>1, <1>2, <1>3

LEMMA StoreIInv == IInv /\ (Read \/ Publish \/ PublishOther) => IInv'
<1> SUFFICES ASSUME IInv, Read \/ Publish \/ PublishOther PROVE IInv'
  OBVIOUS
<1>0. /\ UNCHANGED <<session, profile, sessionError, machine, operations, result,
                     job, effects>>
      /\ Task' = Task
  BY DEF Read, Publish, PublishOther, sessionVars, machineVars, operationVars, Task
<1>1. TypeOK'
  <2>1. SessionTypeOK'
    BY <1>0, SessionStutter DEF IInv, TypeOK, sessionVars
  <2>2. QED
    BY <1>0, <2>1 DEF IInv, TypeOK, HasTask
<1>2. Shape'
  BY <1>0, StoreStep DEF IInv, Shape
<1>3. WritersAreBehind'
  BY <1>0 DEF IInv, WritersAreBehind
<1>4. SeenWasPublished'
  <2> SUFFICES ASSUME NEW i \in 1 .. Len(operations)
               PROVE  LET op == operations[i] IN
                      /\ op.version = op.seen.version
                      /\ op.version <= store'.version
                      /\ op.version = store'.version => op.seen = store'
    BY <1>0 DEF SeenWasPublished
  <2>1. /\ operations[i].version = operations[i].seen.version
        /\ operations[i].version <= store.version
        /\ operations[i].version = store.version => operations[i].seen = store
    BY DEF IInv, SeenWasPublished
  <2>2. store # Nothing /\ store.version \in Nat
    BY DEF IInv, Shape
  <2>3. operations[i].version \in Nat
    BY DEF IInv, Shape
  <2>4. QED
    BY <2>1, <2>2, <2>3, StoreStep
<1>5. QED
  BY <1>0, <1>1, <1>2, <1>3, <1>4, OperationsKept DEF IInv

(* A submitted operation is behind all others and has written nothing.     *)
LEMMA SubmitIInv ==
    ASSUME IInv, NEW kind \in {"move", "transport"}, NEW w, NEW d,
           Submit(kind, w, d)
    PROVE  IInv'
<1> DEFINE n  == Len(operations) + 1
           op == [kind |-> kind, workpiece |-> w, direction |-> d,
                  version |-> store.version, seen |-> store]
<1>0. /\ UNCHANGED <<session, profile, sessionError, machine, store, job, effects>>
      /\ Task' = Task
      /\ store # Nothing /\ Len(operations) < MaxOperations
      /\ result' = [result EXCEPT ![n] = "running"]
      /\ operations' = Append(operations, op)
  BY DEF Submit, sessionVars, machineVars, monitorVars, Task
<1>1. /\ Len(operations') = n /\ Len(operations) \in Nat /\ n \in Ids
      /\ \A k \in 1 .. Len(operations) : operations'[k] = operations[k]
      /\ operations'[n] = op
      /\ operations' \in Seq({operations'[k] : k \in 1 .. Len(operations')})
  <2>1. operations \in Seq({operations[k] : k \in 1 .. Len(operations)})
    BY DEF IInv, Shape
  <2> HIDE DEF op
  <2> DEFINE t == Append(operations, op)
  <2>2. /\ Len(t) = Len(operations) + 1 /\ Len(operations) \in Nat
        /\ \A k \in 1 .. Len(operations) : t[k] = operations[k]
        /\ t[Len(operations) + 1] = op
        /\ t \in Seq({t[k] : k \in 1 .. Len(t)})
    BY <2>1, AppendKeeps
  <2>3. operations' = t
    BY <1>0
  <2> HIDE DEF t
  <2>4. QED
    BY <1>0, <2>2, <2>3, OperationsAssumption DEF Ids
<1>2. /\ op.kind = kind /\ op.version = store.version /\ op.seen = store
      /\ store.version \in Nat
  BY <1>0 DEF IInv, Shape
<1> HIDE DEF op
<1>3. TypeOK'
  <2>1. SessionTypeOK'
    BY <1>0, SessionStutter DEF IInv, TypeOK, sessionVars
  <2>2. \A i \in Ids : /\ result'[i] = "absent" <=> i > n
                       /\ result'[i] = "running" <=> i \in Task .. n
    BY <1>0, <1>1 DEF IInv, TypeOK, Ids, Progress
  <2>3. QED
    BY <1>0, <1>1, <2>1, <2>2 DEF IInv, TypeOK, HasTask
<1>4. Shape'
  <2>1. ASSUME NEW i \in 1 .. n
        PROVE  /\ operations'[i].kind \in {"move", "transport"}
               /\ operations'[i].version \in Nat
    <3>1. CASE i = n
      BY <1>1, <1>2, <3>1
    <3>2. CASE i # n
      <4>1. i \in 1 .. Len(operations) /\ operations'[i] = operations[i]
        BY <1>1, <3>2
      <4>2. QED
        BY <4>1 DEF IInv, Shape
    <3>3. QED
      BY <3>1, <3>2
  <2>2. Len(operations') <= MaxOperations
    BY <1>1, OperationsAssumption DEF Ids
  <2> HIDE DEF n
  <2>3. QED
    BY <1>0, <1>1, <2>1, <2>2 DEF IInv, Shape
<1>5. Progress'
  BY <1>0, <1>1 DEF IInv, TypeOK, Progress, Ids, Codes, ErrorCodes, HasTask
<1>6. WritersAreBehind' /\ OneWritePerVersion'
  <2>1. effects[n] = 0
    BY <1>1 DEF IInv, TypeOK, Progress, HasTask, Ids
  <2>2. /\ effects' = effects
        /\ \A i \in 1 .. Len(operations') :
              effects'[i] # 0 => i \in 1 .. Len(operations)
        /\ \A i \in 1 .. Len(operations) : operations'[i] = operations[i]
    BY <1>0, <1>1, <2>1
  <2>3. WritersAreBehind'
    BY <1>0, <2>2 DEF IInv, WritersAreBehind
  <2>4. OneWritePerVersion'
    BY <2>2 DEF IInv, OneWritePerVersion
  <2>5. QED
    BY <2>3, <2>4
<1>7. SeenWasPublished'
  BY <1>0, <1>1, <1>2 DEF IInv, SeenWasPublished
<1>8. PlanIsForSeen'
  <2>1. job.step \in {"planned", "writing", "reading"} => operations'[Task] = operations[Task]
    BY <1>1 DEF IInv, TypeOK, HasTask, Progress
  <2>2. QED
    BY <1>0, <2>1 DEF IInv, PlanIsForSeen
<1>9. NoOpMeansEndOfQueue'
  <2> SUFFICES ASSUME NEW i \in 1 .. n, result'[i] = "success", effects[i] = 0
               PROVE  /\ operations'[i].kind = "move"
                      /\ PlanMove(operations'[i].seen.priority,
                                  operations'[i].workpiece,
                                  operations'[i].direction) = {}
    BY <1>0, <1>1 DEF NoOpMeansEndOfQueue
  <2>1. i \in 1 .. Len(operations) /\ result[i] = "success"
    BY <1>0, <1>1 DEF IInv, TypeOK
  <2>2. QED
    BY <1>1, <2>1 DEF IInv, NoOpMeansEndOfQueue
<1>10. QED
  BY <1>3, <1>4, <1>5, <1>6, <1>7, <1>8, <1>9 DEF IInv
-----------------------------------------------------------------------------
(* The worker.  The operation it works on is one of the submitted ones.    *)
LEMMA TaskIsSubmitted ==
    ASSUME IInv, HasTask
    PROVE  /\ Task \in 1 .. Len(operations) /\ Task \in Ids
           /\ Len(operations) \in Nat
           /\ result[Task] = "running"
           /\ effects[Task] = IF job.step = "reading" THEN 1 ELSE 0
<1>1. Len(operations) \in Nat
  BY DEF IInv, Shape
<1>2. Task \in 1 .. Len(operations) /\ Task \in Ids
  BY <1>1, OperationsAssumption DEF IInv, Shape, Progress, HasTask, Ids
<1>3. QED
  BY <1>1, <1>2 DEF IInv, TypeOK, Progress

(* The parts that speak of the store and the machine, when only the worker *)
(* moves on.                                                               *)
LEMMA WorldKept ==
    ASSUME IInv, UNCHANGED <<machine, store, operations, effects>>
    PROVE  Shape' /\ SeenWasPublished' /\ WritersAreBehind' /\ OneWritePerVersion'
<1>1. Shape'
  BY DEF IInv, Shape
<1>2. SeenWasPublished'
  BY DEF IInv, SeenWasPublished
<1>3. WritersAreBehind'
  BY DEF IInv, WritersAreBehind
<1>4. OneWritePerVersion'
  BY DEF IInv, OneWritePerVersion
<1>5. QED
  BY <1>1, <1>2, <1>3, <1>4

(* Ending the operation keeps the invariant if what it reports matches     *)
(* what it wrote.                                                          *)
LEMMA EndIInv ==
    ASSUME IInv, HasTask, NEW outcome \in Codes \cup {"success"}, End(outcome),
           UNCHANGED <<sessionVars, machineVars, monitorVars, operations, effects>>,
           outcome \in Codes =>
               (job.step = "reading" <=> outcome = "InvalidResponse"),
           outcome = "success" /\ job.step # "reading" =>
               /\ operations[Task].kind = "move"
               /\ PlanMove(operations[Task].seen.priority, operations[Task].workpiece,
                           operations[Task].direction) = {}
    PROVE  IInv'
<1>0. /\ UNCHANGED <<session, profile, sessionError, machine, store, operations,
                     effects>>
      /\ job' = Idle(Task + 1) /\ Task' = Task + 1
      /\ result' = [result EXCEPT ![Task] = outcome]
  BY DEF End, sessionVars, machineVars, monitorVars, Idle, Task
<1>1. /\ Task \in 1 .. Len(operations) /\ Task \in Ids /\ Task \in Nat
      /\ effects[Task] = IF job.step = "reading" THEN 1 ELSE 0
      /\ Len(operations) \in Nat
  BY TaskIsSubmitted
<1>2. job'.step = "idle"
  BY <1>0 DEF Idle
<1>3. outcome \notin {"absent", "running"}
  BY DEF Codes, ErrorCodes
<1>4. TypeOK'
  <2>1. SessionTypeOK'
    BY <1>0, SessionStutter DEF IInv, TypeOK, sessionVars
  <2>2. \A i \in Ids : /\ result'[i] = "absent" <=> i > Len(operations)
                       /\ result'[i] = "running" <=> i \in Task + 1 .. Len(operations)
    BY <1>0, <1>1, <1>3 DEF IInv, TypeOK, Ids
  <2>3. result' \in [Ids -> Codes \cup {"absent", "running", "success"}]
    BY <1>0 DEF IInv, TypeOK
  <2>4. QED
    BY <1>0, <1>2, <2>1, <2>2, <2>3 DEF IInv, TypeOK
<1>5. Shape' /\ SeenWasPublished' /\ WritersAreBehind' /\ OneWritePerVersion'
  BY <1>0, WorldKept
<1>6. Progress'
  <2> SUFFICES ASSUME NEW i \in Ids
               PROVE  /\ i < Task + 1 => result'[i] \in Codes \cup {"success"}
                      /\ i >= Task + 1 => effects[i] = 0
                      /\ result'[i] \in Codes =>
                            (effects[i] = 1 <=> result'[i] = "InvalidResponse")
    BY <1>0, <1>1, <1>2 DEF Progress, Ids, IInv, Shape
  <2>1. i = Task => result'[i] = outcome
    BY <1>0, <1>1 DEF IInv, TypeOK
  <2>2. i # Task => result'[i] = result[i]
    BY <1>0 DEF IInv, TypeOK
  <2>3. QED
    BY <1>1, <2>1, <2>2 DEF IInv, Progress, Ids
<1>7. PlanIsForSeen'
  BY <1>2 DEF PlanIsForSeen
<1>8. NoOpMeansEndOfQueue'
  <2> SUFFICES ASSUME NEW i \in 1 .. Len(operations),
                      result'[i] = "success", effects[i] = 0
               PROVE  /\ operations[i].kind = "move"
                      /\ PlanMove(operations[i].seen.priority,
                                  operations[i].workpiece,
                                  operations[i].direction) = {}
    BY <1>0 DEF NoOpMeansEndOfQueue
  <2>1. CASE i = Task
    BY <1>0, <1>1, <2>1 DEF IInv, TypeOK, Codes, ErrorCodes
  <2>2. CASE i # Task
    <3>1. result[i] = "success"
      BY <1>0, <2>2 DEF IInv, TypeOK, Shape, Ids
    <3>2. QED
      BY <3>1 DEF IInv, NoOpMeansEndOfQueue
  <2>3. QED
    BY <2>1, <2>2
<1>9. QED
  BY <1>4, <1>5, <1>6, <1>7, <1>8 DEF IInv

(* A step on the way to the write keeps it if the plan is right.           *)
LEMMA ProceedIInv ==
    ASSUME IInv, HasTask, NEW step \in {"checking", "planned", "writing"}, NEW plan,
           Proceed(step, plan), job.step # "reading",
           UNCHANGED <<sessionVars, machineVars, monitorVars, operations, effects>>,
           step # "checking" /\ operations[Task].kind = "move" =>
               /\ operations[Task].workpiece \in DOMAIN operations[Task].seen.priority
               /\ plan = PlanMove(operations[Task].seen.priority,
                                  operations[Task].workpiece,
                                  operations[Task].direction)
               /\ plan # {}
    PROVE  IInv'
<1>0. /\ UNCHANGED <<session, profile, sessionError, machine, store, operations,
                     result, effects>>
      /\ job' = [task |-> Task, step |-> step, plan |-> plan]
  BY DEF Proceed, sessionVars, machineVars, monitorVars
<1>1. Task' = Task /\ job'.step = step /\ job'.plan = plan
  BY <1>0 DEF Task
<1>2. TypeOK'
  <2>1. SessionTypeOK'
    BY <1>0, SessionStutter DEF IInv, TypeOK, sessionVars
  <2>2. QED
    BY <1>0, <1>1, <2>1 DEF IInv, TypeOK, HasTask
<1>3. Shape' /\ SeenWasPublished' /\ WritersAreBehind' /\ OneWritePerVersion'
  BY <1>0, WorldKept
<1>4. Progress'
  BY <1>0, <1>1 DEF IInv, Progress
<1>5. PlanIsForSeen'
  BY <1>0, <1>1 DEF PlanIsForSeen
<1>6. NoOpMeansEndOfQueue'
  BY <1>0 DEF IInv, NoOpMeansEndOfQueue
<1>7. QED
  BY <1>2, <1>3, <1>4, <1>5, <1>6 DEF IInv

LEMMA ProfileErrorType ==
    ASSUME SessionTypeOK
    PROVE  ProfileError \in {"none", "Conflict", "UnsupportedData"}
  BY DEF SessionTypeOK, ProfileError

LEMMA RequireProfileIInv ==
    IInv /\ (WorkerRequireProfile \/ WorkerRecheckProfile) => IInv'
<1> SUFFICES ASSUME IInv, WorkerRequireProfile \/ WorkerRecheckProfile
             PROVE  IInv'
  OBVIOUS
<1>0. /\ HasTask /\ job.step \in {"idle", "planned"}
      /\ UNCHANGED <<sessionVars, machineVars, monitorVars, operations, effects>>
      /\ ProfileError \in {"none", "Conflict", "UnsupportedData"}
  BY ProfileErrorType DEF WorkerRequireProfile, WorkerRecheckProfile, IInv, TypeOK
<1>1. CASE ProfileError # "none"
  <2>1. End(ProfileError) /\ ProfileError \in Codes
        /\ ProfileError \notin {"success", "InvalidResponse"}
    BY <1>0, <1>1 DEF WorkerRequireProfile, WorkerRecheckProfile, Codes, ErrorCodes
  <2>2. QED
    BY <1>0, <2>1, EndIInv
<1>2. CASE ProfileError = "none" /\ WorkerRequireProfile
  <2>1. Proceed("checking", {}) /\ job.step = "idle"
    BY <1>2 DEF WorkerRequireProfile
  <2>2. QED
    BY <1>0, <2>1, ProceedIInv
<1>3. CASE ProfileError = "none" /\ WorkerRecheckProfile
  <2>1. Proceed("writing", job.plan) /\ job.step = "planned"
    BY <1>3 DEF WorkerRecheckProfile
  <2>2. operations[Task].kind = "move" =>
            /\ operations[Task].workpiece \in DOMAIN operations[Task].seen.priority
            /\ job.plan = PlanMove(operations[Task].seen.priority,
                                   operations[Task].workpiece,
                                   operations[Task].direction)
            /\ job.plan # {}
    BY <2>1 DEF IInv, PlanIsForSeen
  <2>3. QED
    BY <1>0, <2>1, <2>2, ProceedIInv
<1>4. QED
  BY <1>1, <1>2, <1>3

LEMMA CheckIInv == IInv /\ WorkerCheck => IInv'
<1> SUFFICES ASSUME IInv, WorkerCheck PROVE IInv'
  OBVIOUS
<1> DEFINE op        == operations[Task]
           duplicate == HasOtherRunning(Task)
           plan      == PlanMove(store.priority, op.workpiece, op.direction)
<1>0. /\ job.step = "checking" /\ HasTask
      /\ UNCHANGED <<sessionVars, machineVars, monitorVars, operations, effects>>
  BY DEF WorkerCheck, IInv, TypeOK
(* A check that does not find the operation outdated finds it in the store *)
(* the operator looked at.                                                 *)
<1>1. store.version = op.version => op.seen = store
  BY <1>0, TaskIsSubmitted DEF IInv, SeenWasPublished
<1>2. MoveError(op, duplicate)
         \in {"none", "Conflict", "Unavailable", "InvalidArgument"}
      /\ (MoveError(op, duplicate) = "none" =>
             store.version = op.version /\ op.workpiece \in DOMAIN store.priority)
  BY DEF MoveError
<1>3. \A authorized \in BOOLEAN :
         TransportError(op, authorized, duplicate)
            \in {"none", "Conflict", "Unavailable", "Rejected", "PermissionDenied"}
  BY DEF TransportError, Evaluate
<1>4. \A error \in {"Conflict", "Unavailable", "InvalidArgument", "Rejected",
                     "PermissionDenied"} :
         End(error) => IInv'
  <2> SUFFICES ASSUME NEW error \in {"Conflict", "Unavailable", "InvalidArgument",
                                     "Rejected", "PermissionDenied"},
                      End(error)
               PROVE  IInv'
    OBVIOUS
  <2>1. error \in Codes /\ error \notin {"success", "InvalidResponse"}
    BY DEF Codes, ErrorCodes
  <2>2. QED
    BY <1>0, <2>1, EndIInv
<1>5. CASE /\ op.kind = "move"
           /\ MoveError(op, duplicate) # "none" => End(MoveError(op, duplicate))
           /\ MoveError(op, duplicate) = "none" /\ plan = {} => End("success")
           /\ MoveError(op, duplicate) = "none" /\ plan # {} =>
                 Proceed("planned", plan)
  <2>1. CASE MoveError(op, duplicate) # "none"
    BY <1>2, <1>4, <1>5, <2>1
  <2>2. CASE MoveError(op, duplicate) = "none" /\ plan = {}
    <3>1. op.seen = store
      BY <1>1, <1>2, <2>2
    <3>2. End("success") /\ PlanMove(op.seen.priority, op.workpiece, op.direction) = {}
      BY <1>5, <2>2, <3>1
    <3>3. "success" \notin Codes
      BY DEF Codes, ErrorCodes
    <3>4. QED
      BY <1>0, <1>5, <3>2, <3>3, EndIInv
  <2>3. CASE MoveError(op, duplicate) = "none" /\ plan # {}
    <3>1. op.seen = store
      BY <1>1, <1>2, <2>3
    <3>2. Proceed("planned", plan)
      BY <1>5, <2>3
    <3>3. QED
      BY <1>0, <1>2, <2>3, <3>1, <3>2, ProceedIInv
  <2>4. QED
    BY <2>1, <2>2, <2>3
<1>6. CASE /\ op.kind = "transport"
           /\ \E authorized \in BOOLEAN :
                 /\ TransportError(op, authorized, duplicate) # "none" =>
                       End(TransportError(op, authorized, duplicate))
                 /\ TransportError(op, authorized, duplicate) = "none" =>
                       Proceed("planned", {})
  <2>1. PICK authorized \in BOOLEAN :
           /\ TransportError(op, authorized, duplicate) # "none" =>
                 End(TransportError(op, authorized, duplicate))
           /\ TransportError(op, authorized, duplicate) = "none" =>
                 Proceed("planned", {})
    BY <1>6
  <2>2. CASE TransportError(op, authorized, duplicate) # "none"
    BY <1>3, <1>4, <2>1, <2>2
  <2>3. CASE TransportError(op, authorized, duplicate) = "none"
    BY <1>0, <1>6, <2>1, <2>3, ProceedIInv
  <2>4. QED
    BY <2>2, <2>3
<1>7. QED
  BY <1>5, <1>6 DEF WorkerCheck

(* What a gateway refuses with, and what it takes.                         *)
LEMMA GatewayErrors ==
    ASSUME NEW op, NEW plan
    PROVE  /\ PriorityError(op, plan) \in {"none", "Conflict", "Unavailable", "Rejected"}
           /\ RequestError(op) \in {"none", "Conflict", "Unavailable", "Rejected"}
           /\ PriorityError(op, plan) = "none" =>
                 /\ op.version = machine.version
                 /\ Expected(plan) /\ IsQueue(Assigned(plan))
           /\ RequestError(op) = "none" =>
                 /\ op.version = machine.version
                 /\ op.workpiece \in DOMAIN machine.priority
  BY DEF PriorityError, RequestError, BaseError

(* An accepted write keeps the machine well formed and moves its version.  *)
LEMMA WrittenType ==
    ASSUME TypeOK, NEW op, NEW plan, machine' = Written(op, plan),
           op.kind = "move" => IsQueue(Assigned(plan)),
           op.kind # "move" => op.workpiece \in DOMAIN machine.priority
    PROVE  /\ machine' = Frame(machine', machine'.version, machine'.number)
           /\ machine'.priority \in [DOMAIN machine'.priority -> Nat]
           /\ IsQueue(machine'.priority)
           /\ machine'.place \in [DOMAIN machine'.priority -> Places]
           /\ machine'.number \in Nat /\ machine'.version \in Nat
           /\ machine'.version >= machine'.number
           /\ machine'.version = machine.version + 1
<1>0. /\ machine = Frame(machine, machine.version, machine.number)
      /\ machine.version \in Nat /\ machine.number \in Nat
      /\ machine.version >= machine.number
  BY DEF TypeOK
<1>1. CASE op.kind = "move"
  <2>1. /\ machine'.priority = Assigned(plan) /\ machine'.place = machine.place
        /\ machine'.number = machine.number
        /\ machine'.version = machine.version + 1
        /\ machine' = Frame(machine', machine'.version, machine'.number)
    BY <1>0, <1>1 DEF Written, Frame
  <2>2. DOMAIN Assigned(plan) = DOMAIN machine.priority
    BY DEF Assigned
  <2>3. \A w \in DOMAIN Assigned(plan) : Assigned(plan)[w] \in Nat
    BY <1>1 DEF IsQueue
  <2>4. Assigned(plan) \in [DOMAIN Assigned(plan) -> Nat]
    BY <2>3 DEF Assigned
  <2>5. QED
    BY <1>0, <1>1, <2>1, <2>2, <2>4 DEF TypeOK
<1>2. CASE op.kind # "move"
  <2>1. /\ machine'.priority = machine.priority
        /\ machine'.place = [machine.place EXCEPT ![op.workpiece] = "moving"]
        /\ machine'.number = machine.number
        /\ machine'.version = machine.version + 1
        /\ machine' = Frame(machine', machine'.version, machine'.number)
    BY <1>0, <1>2 DEF Written, Frame
  <2>2. QED
    BY <1>0, <1>2, <2>1 DEF TypeOK, Places
<1>3. QED
  BY <1>1, <1>2

(* The write itself.                                                       *)
LEMMA WriteIInv == IInv /\ WorkerWrite => IInv'
<1> SUFFICES ASSUME IInv, WorkerWrite PROVE IInv'
  OBVIOUS
<1> DEFINE op    == operations[Task]
           error == IF op.kind = "move" THEN PriorityError(op, job.plan)
                                        ELSE RequestError(op)
<1>0. /\ job.step = "writing" /\ HasTask
      /\ UNCHANGED <<sessionVars, monitorVars, operations>>
      /\ error # "none" => End(error) /\ UNCHANGED <<machineVars, effects>>
      /\ error = "none" => /\ machine' = Written(op, job.plan)
                           /\ effects' = [effects EXCEPT ![Task] = @ + 1]
                           /\ Proceed("reading", job.plan)
  BY DEF WorkerWrite, IInv, TypeOK
<1>1. error \in {"none", "Conflict", "Unavailable", "Rejected"}
  BY GatewayErrors
<1>2. error = "none" => /\ op.version = machine.version
                        /\ op.kind = "move" => IsQueue(Assigned(job.plan))
                        /\ op.kind # "move" => op.workpiece \in DOMAIN machine.priority
  BY GatewayErrors
<1> HIDE DEF error
<1>3. CASE error # "none"
  <2>1. error \in Codes /\ error \notin {"success", "InvalidResponse"}
    BY <1>1, <1>3 DEF Codes, ErrorCodes
  <2>2. QED
    BY <1>0, <1>3, <2>1, EndIInv
<1>4. CASE error = "none"
  <2>0. /\ UNCHANGED <<session, profile, sessionError, store, operations, result>>
        /\ machine' = Written(op, job.plan)
        /\ effects' = [effects EXCEPT ![Task] = @ + 1]
        /\ job' = [task |-> Task, step |-> "reading", plan |-> job.plan]
        /\ job'.step = "reading" /\ Task' = Task /\ job'.plan = job.plan
    BY <1>0, <1>4 DEF Proceed, sessionVars, monitorVars, Task
  <2>1. /\ Task \in 1 .. Len(operations) /\ Task \in Ids
        /\ result[Task] = "running" /\ effects[Task] = 0
    BY <1>0, TaskIsSubmitted
  <2>2. effects' \in [Ids -> Nat] /\ effects'[Task] = 1
        /\ \A i \in Ids : i # Task => effects'[i] = effects[i]
    BY <2>0, <2>1 DEF IInv, Shape
  <2>3. TypeOK' /\ machine'.version = machine.version + 1
    <3>1. SessionTypeOK'
      BY <2>0, SessionStutter DEF IInv, TypeOK, sessionVars
    <3>2. QED
      BY <1>0, <1>2, <1>4, <2>0, <3>1, WrittenType DEF IInv, TypeOK, HasTask
  <2>4. Shape'
    BY <2>0, <2>2 DEF IInv, Shape
  <2>5. Progress'
    BY <1>0, <2>0, <2>1, <2>2 DEF IInv, Progress, Codes, ErrorCodes
  <2>6. WritersAreBehind'
    <3> SUFFICES ASSUME NEW i \in 1 .. Len(operations), effects'[i] # 0
                 PROVE  /\ effects'[i] = 1
                        /\ operations[i].version < machine'.version
      BY <2>0 DEF WritersAreBehind
    <3>0. i \in Ids /\ operations[i].version \in Nat /\ machine.version \in Nat
      BY OperationsAssumption DEF IInv, TypeOK, Shape, Ids
    <3>1. CASE i = Task
      BY <1>2, <1>4, <2>2, <2>3, <3>0, <3>1
    <3>2. CASE i # Task
      <4>1. effects[i] = 1 /\ operations[i].version < machine.version
        BY <2>2, <3>0, <3>2 DEF IInv, WritersAreBehind
      <4>2. QED
        BY <2>2, <2>3, <3>0, <3>2, <4>1
    <3>3. QED
      BY <3>1, <3>2
  <2>7. OneWritePerVersion'
    <3> SUFFICES ASSUME NEW i \in 1 .. Len(operations),
                        NEW j \in 1 .. Len(operations),
                        i # j, effects'[i] = 1, effects'[j] = 1
                 PROVE  operations[i].version # operations[j].version
      BY <2>0 DEF OneWritePerVersion
    <3>0. MaxOperations \in Nat /\ Len(operations) <= MaxOperations
      BY OperationsAssumption DEF IInv, Shape
    <3>1. i \in Ids /\ j \in Ids /\ operations[i].version \in Nat
          /\ operations[j].version \in Nat /\ machine.version \in Nat
      BY <3>0 DEF IInv, TypeOK, Shape, Ids
    <3>2. \A k \in 1 .. Len(operations) : effects[k] = 1 =>
             operations[k].version < machine.version
      BY DEF IInv, WritersAreBehind
    <3>3. operations[Task].version = machine.version
      BY <1>2, <1>4
    <3>4. CASE i = Task
      BY <2>2, <3>1, <3>2, <3>3, <3>4
    <3>5. CASE j = Task
      BY <2>2, <3>1, <3>2, <3>3, <3>5
    <3>6. CASE i # Task /\ j # Task
      BY <2>2, <3>1, <3>6 DEF IInv, OneWritePerVersion
    <3>7. QED
      BY <3>4, <3>5, <3>6
  <2>8. SeenWasPublished'
    BY <2>0 DEF IInv, SeenWasPublished
  <2>9. PlanIsForSeen'
    BY <1>0, <2>0 DEF IInv, PlanIsForSeen
  <2>10. NoOpMeansEndOfQueue'
    <3> SUFFICES ASSUME NEW i \in 1 .. Len(operations),
                        result[i] = "success", effects'[i] = 0
                 PROVE  /\ operations[i].kind = "move"
                        /\ PlanMove(operations[i].seen.priority,
                                    operations[i].workpiece,
                                    operations[i].direction) = {}
      BY <2>0 DEF NoOpMeansEndOfQueue
    <3>1. i \in Ids
      BY OperationsAssumption DEF IInv, Shape, Ids
    <3>2. effects[i] = 0
      BY <2>2, <3>1
    <3>3. QED
      BY <3>2 DEF IInv, NoOpMeansEndOfQueue
  <2>11. QED
    BY <2>3, <2>4, <2>5, <2>6, <2>7, <2>8, <2>9, <2>10 DEF IInv
<1>5. QED
  BY <1>3, <1>4

(* The reading back.                                                       *)
LEMMA ReadBackIInv == IInv /\ WorkerReadBack => IInv'
<1> SUFFICES ASSUME IInv, WorkerReadBack PROVE IInv'
  OBVIOUS
<1> DEFINE outcome == IF Confirmed(operations[Task], job.plan) THEN "success"
                                                               ELSE "InvalidResponse"
<1>1. /\ job.step = "reading" /\ HasTask /\ End(outcome)
      /\ UNCHANGED <<sessionVars, machineVars, monitorVars, operations, effects>>
  BY DEF WorkerReadBack, IInv, TypeOK
<1>2. outcome \in Codes \cup {"success"}
      /\ (outcome \in Codes => outcome = "InvalidResponse")
  BY DEF Codes, ErrorCodes
<1> HIDE DEF outcome
<1>3. QED
  BY <1>1, <1>2, EndIInv DEF Codes, ErrorCodes

LEMMA StutterIInv == IInv /\ UNCHANGED vars => IInv'
<1> SUFFICES ASSUME IInv, UNCHANGED vars PROVE IInv'
  OBVIOUS
<1>1. UNCHANGED <<session, profile, sessionError, machine, store, operations,
                  result, job, effects>>
  BY DEF vars, sessionVars, machineVars, monitorVars, operationVars
<1>2. SessionTypeOK'
  BY <1>1, SessionStutter DEF IInv, TypeOK, sessionVars
<1>3. TypeOK'
  BY <1>1, <1>2, OperationsKept DEF IInv, TypeOK, HasTask
<1>4. QED
  BY <1>1, <1>3, OperationsKept, WorldKept DEF IInv

LEMMA NextIInv == IInv /\ [Next]_vars => IInv'
<1> SUFFICES ASSUME IInv, [Next]_vars PROVE IInv'
  OBVIOUS
<1>1. CASE SynchronizeFrame
  BY <1>1, SynchronizeFrameIInv
<1>2. CASE Monitoring
  BY <1>2, ObserveIInv, StoreIInv DEF Monitoring
<1>3. ASSUME NEW w \in Workpieces, NEW d \in {"up", "down"}, Submit("move", w, d)
      PROVE  IInv'
  BY <1>3, SubmitIInv
<1>4. ASSUME NEW w \in Workpieces, Submit("transport", w, "none")
      PROVE  IInv'
  BY <1>4, SubmitIInv
<1>5. CASE Worker
  BY <1>5, RequireProfileIInv, CheckIInv, WriteIInv, ReadBackIInv DEF Worker
<1>6. CASE UNCHANGED vars
  BY <1>6, StutterIInv
<1>7. QED
  BY <1>1, <1>2, <1>3, <1>4, <1>5, <1>6 DEF Next, SubmitMove, SubmitTransport

(* The inductive invariant holds in every reachable state.                 *)
THEOREM Invariance == Spec => []IInv
  BY InitIInv, NextIInv, PTL DEF Spec
-----------------------------------------------------------------------------
(* The types; in particular, a write never breaks the machine's queue.     *)
THEOREM TypeCorrect == Spec => []TypeOK
  BY Invariance, PTL DEF IInv

(* Of all operations submitted for one version of the snapshot at most one *)
(* is accepted (the version check and Next of FakeMachineGateway).         *)
THEOREM OneWriteCorrect == Spec => []OneWritePerVersion
  BY Invariance, PTL DEF IInv

(* What an operation reports is what it did (Execute of both use cases).   *)
THEOREM ReportCorrect == Spec => []ReportMatchesEffect
<1>1. IInv => ReportMatchesEffect
  <2> SUFFICES ASSUME IInv, NEW i \in 1 .. Len(operations)
               PROVE  LET op == operations[i] IN
                      /\ effects[i] \in {0, 1}
                      /\ result[i] = "success" /\ effects[i] = 0 =>
                            /\ op.kind = "move"
                            /\ PlanMove(op.seen.priority, op.workpiece,
                                        op.direction) = {}
                      /\ result[i] \in Codes =>
                            (effects[i] = 1 <=> result[i] = "InvalidResponse")
    BY DEF ReportMatchesEffect
  <2>1. i \in Ids
    BY OperationsAssumption DEF IInv, Shape, Ids
  <2>2. effects[i] \in {0, 1}
    BY DEF IInv, WritersAreBehind
  <2>3. result[i] \in Codes => (effects[i] = 1 <=> result[i] = "InvalidResponse")
    BY <2>1 DEF IInv, Progress
  <2>4. QED
    BY <2>2, <2>3 DEF IInv, NoOpMeansEndOfQueue
<1>2. QED
  BY <1>1, Invariance, PTL

(* Only the operation on the worker ends, and only by reading back once it *)
(* has written.                                                            *)
LEMMA SuccessSteps ==
    ASSUME IInv, [Next]_vars, NEW i \in 1 .. Len(operations),
           result[i] = "running", result'[i] = "success", effects[i] = 1
    PROVE  i = Task /\ Confirmed(operations[Task], job.plan)
<1>0. /\ i \in Ids
      /\ effects[i] = IF i = Task /\ job.step = "reading" THEN 1 ELSE 0
  <2>1. i \in Ids
    BY OperationsAssumption DEF IInv, Shape, Ids
  <2>2. i >= Task
    BY <2>1 DEF IInv, TypeOK, Progress, Shape
  <2>3. QED
    BY <2>1, <2>2 DEF IInv, Progress
<1>1. i = Task /\ job.step = "reading"
  BY <1>0
<1>2. CASE SynchronizeFrame \/ Monitoring \/ UNCHANGED vars
  BY <1>2 DEF SynchronizeFrame, Monitoring, ObserveMachineModel, Read, Publish,
              PublishOther, vars, operationVars
<1>3. ASSUME NEW k, NEW w, NEW d, Submit(k, w, d)
      PROVE  FALSE
  <2>1. result' = [result EXCEPT ![Len(operations) + 1] = "running"]
    BY <1>3 DEF Submit
  <2>2. i # Len(operations) + 1
    BY DEF IInv, Shape
  <2>3. QED
    BY <1>0, <2>1, <2>2 DEF IInv, TypeOK
<1>4. CASE Worker
  <2>1. WorkerReadBack
    BY <1>1, <1>4 DEF Worker, WorkerRequireProfile, WorkerCheck,
                      WorkerRecheckProfile, WorkerWrite
  <2>2. End(IF Confirmed(operations[Task], job.plan) THEN "success"
                                                     ELSE "InvalidResponse")
    BY <2>1 DEF WorkerReadBack
  <2>3. QED
    BY <1>0, <1>1, <2>2 DEF End, IInv, TypeOK
<1>5. QED
  BY <1>1, <1>2, <1>3, <1>4 DEF Next, SubmitMove, SubmitTransport

(* A reported success was true of the machine when it was read back.       *)
THEOREM SuccessCorrect == Spec => SuccessIsConfirmed
<1> DEFINE A == \A i \in 1 .. Len(operations) :
                   LET op == operations[i] IN
                   result[i] = "running" /\ result'[i] = "success" /\ effects[i] = 1 =>
                      /\ IsFresh(machine.health)
                      /\ op.workpiece \in DOMAIN machine.priority
                      /\ IF op.kind = "move"
                         THEN machine.priority[op.workpiece] =
                                 op.seen.priority[op.workpiece]
                                    + (IF op.direction = "up" THEN -1 ELSE 1)
                         ELSE machine.place[op.workpiece] \in {"moving", "destination"}
<1>1. IInv /\ [Next]_vars => [A]_vars
  <2> SUFFICES ASSUME IInv, [Next]_vars, NEW i \in 1 .. Len(operations),
                      result[i] = "running", result'[i] = "success", effects[i] = 1
               PROVE  LET op == operations[i] IN
                      /\ IsFresh(machine.health)
                      /\ op.workpiece \in DOMAIN machine.priority
                      /\ IF op.kind = "move"
                         THEN machine.priority[op.workpiece] =
                                 op.seen.priority[op.workpiece]
                                    + (IF op.direction = "up" THEN -1 ELSE 1)
                         ELSE machine.place[op.workpiece] \in {"moving", "destination"}
    OBVIOUS
  <2> DEFINE op == operations[i]
  <2>1. i = Task /\ Confirmed(op, job.plan)
    BY SuccessSteps
  <2>2. job.step = "reading"
    <3>1. i \in Ids /\ i >= Task
      BY <2>1, OperationsAssumption DEF IInv, Shape, Ids, Progress
    <3>2. QED
      BY <3>1 DEF IInv, Progress
  <2>3. op.kind \in {"move", "transport"}
    BY DEF IInv, Shape
  <2>4. CASE op.kind = "move"
    <3>1. /\ job.plan = PlanMove(op.seen.priority, op.workpiece, op.direction)
          /\ job.plan # {}
      BY <2>1, <2>2, <2>4 DEF IInv, PlanIsForSeen
    <3> DEFINE seen   == op.seen.priority
               target == seen[op.workpiece] + (IF op.direction = "up" THEN -1 ELSE 1)
               own    == [workpiece |-> op.workpiece,
                          expected |-> seen[op.workpiece], desired |-> target]
    <3>2. own \in job.plan
      BY <3>1 DEF PlanMove
    <3>3. own.workpiece = op.workpiece /\ own.desired = target
      OBVIOUS
    <3>4. own.workpiece \in DOMAIN machine.priority
          /\ machine.priority[own.workpiece] = own.desired
      BY <2>1, <2>4, <3>2 DEF Confirmed
    <3>5. QED
      BY <2>1, <2>4, <3>3, <3>4 DEF Confirmed
  <2>5. CASE op.kind = "transport"
    BY <2>1, <2>5 DEF Confirmed
  <2>6. QED
    BY <2>3, <2>4, <2>5
<1>2. QED
  BY <1>1, Invariance, PTL DEF Spec, SuccessIsConfirmed

(* Only the operation on the worker writes, and what it writes.            *)
LEMMA WriteSteps ==
    ASSUME IInv, [Next]_vars, NEW i \in 1 .. Len(operations),
           effects'[i] # effects[i]
    PROVE  /\ i = Task /\ job.step = "writing"
           /\ machine' = Written(operations[i], job.plan)
           /\ operations[i].kind = "move" => Expected(job.plan)
<1>1. CASE \/ SynchronizeFrame \/ Monitoring \/ UNCHANGED vars
           \/ WorkerRequireProfile \/ WorkerCheck \/ WorkerRecheckProfile
           \/ WorkerReadBack
  BY <1>1 DEF SynchronizeFrame, Monitoring, ObserveMachineModel, Read, Publish,
              PublishOther, vars, operationVars, WorkerRequireProfile, WorkerCheck,
              WorkerRecheckProfile, WorkerReadBack
<1>2. ASSUME NEW k, NEW w, NEW d, Submit(k, w, d)
      PROVE  FALSE
  BY <1>2 DEF Submit
<1>3. CASE WorkerWrite
  <2> DEFINE op    == operations[Task]
             error == IF op.kind = "move" THEN PriorityError(op, job.plan)
                                          ELSE RequestError(op)
  <2>1. /\ job.step = "writing"
        /\ error # "none" => UNCHANGED effects
        /\ error = "none" => /\ machine' = Written(op, job.plan)
                             /\ effects' = [effects EXCEPT ![Task] = @ + 1]
    BY <1>3 DEF WorkerWrite
  <2>2. error = "none"
    BY <2>1
  <2>3. op.kind = "move" => Expected(job.plan)
    BY <2>2, GatewayErrors
  <2> HIDE DEF error
  <2>4. i = Task
    <3>1. effects \in [Ids -> Nat] /\ i \in Ids
      BY OperationsAssumption DEF IInv, Shape, Ids
    <3>2. QED
      BY <2>1, <2>2, <3>1
  <2>5. QED
    BY <2>1, <2>2, <2>3, <2>4
<1>4. QED
  BY <1>1, <1>2, <1>3 DEF Next, Worker, SubmitMove, SubmitTransport

(* The assignments of a plan are about what was seen.                      *)
LEMMA PlanOfSeen ==
    ASSUME NEW seen, NEW w, NEW direction, NEW a \in PlanMove(seen, w, direction)
    PROVE  LET target == seen[w] + (IF direction = "up" THEN -1 ELSE 1) IN
           \/ a = [workpiece |-> w, expected |-> seen[w], desired |-> target]
           \/ /\ a.workpiece \in DOMAIN seen /\ seen[a.workpiece] = target
              /\ a.expected = target
  BY DEF PlanMove

(* A move changes only what the operator saw where it is, and moves the    *)
(* workpiece one position (expected of PriorityAssignment).                *)
THEOREM MoveCorrect == Spec => MoveChangesWhatWasSeen
<1> DEFINE Moved(i) ==
        LET op == operations[i]
            seen == op.seen.priority
        IN  effects'[i] # effects[i] /\ op.kind = "move" =>
               /\ op.workpiece \in DOMAIN machine.priority
               /\ machine'.priority[op.workpiece] =
                     seen[op.workpiece] + (IF op.direction = "up" THEN -1 ELSE 1)
               /\ \A w \in DOMAIN machine.priority :
                     machine'.priority[w] # machine.priority[w] \/ w = op.workpiece =>
                        w \in DOMAIN seen /\ machine.priority[w] = seen[w]
<1>1. IInv /\ [Next]_vars => [\A i \in 1 .. Len(operations) : Moved(i)]_vars
  <2> SUFFICES ASSUME IInv, [Next]_vars, NEW i \in 1 .. Len(operations),
                      effects'[i] # effects[i], operations[i].kind = "move"
               PROVE  Moved(i)
    OBVIOUS
  <2> DEFINE op     == operations[i]
             seen   == op.seen.priority
             target == seen[op.workpiece] + (IF op.direction = "up" THEN -1 ELSE 1)
             plan   == PlanMove(seen, op.workpiece, op.direction)
             own    == [workpiece |-> op.workpiece,
                        expected |-> seen[op.workpiece], desired |-> target]
  <2>1. /\ machine' = Written(op, plan) /\ Expected(plan) /\ plan # {}
        /\ machine = Frame(machine, machine.version, machine.number)
        /\ machine.priority \in [DOMAIN machine.priority -> Nat]
    BY WriteSteps DEF IInv, TypeOK, PlanIsForSeen
  <2>2. machine'.priority = Assigned(plan)
    BY <2>1 DEF Written, Frame
  <2>3. own \in plan /\ own.workpiece = op.workpiece /\ own.desired = target
        /\ own.expected = seen[op.workpiece]
    BY <2>1 DEF PlanMove
  <2>4. op.workpiece \in DOMAIN machine.priority
        /\ machine.priority[op.workpiece] = seen[op.workpiece]
    BY <2>1, <2>3 DEF Expected
  <2>5. seen[op.workpiece] \in Nat /\ target # seen[op.workpiece]
    BY <2>1, <2>4
  <2>6. \A a \in plan : a.workpiece = op.workpiece => a.desired = target
    BY <2>3, <2>5, PlanOfSeen
  <2>7. Assigned(plan)[op.workpiece] = target
    BY <2>3, <2>4, <2>6 DEF Assigned
  <2>8. op.workpiece \in DOMAIN seen
    BY WriteSteps DEF IInv, PlanIsForSeen
  <2>9. ASSUME NEW w \in DOMAIN machine.priority,
               Assigned(plan)[w] # machine.priority[w] \/ w = op.workpiece
        PROVE  w \in DOMAIN seen /\ machine.priority[w] = seen[w]
    <3>1. CASE w = op.workpiece
      BY <2>4, <2>8, <3>1
    <3>2. CASE w # op.workpiece
      <4>1. PICK a \in plan : a.workpiece = w
        BY <2>9, <3>2 DEF Assigned
      <4>2. machine.priority[w] = a.expected
        BY <2>1, <4>1 DEF Expected
      <4>3. QED
        BY <2>3, <3>2, <4>1, <4>2, PlanOfSeen
    <3>3. QED
      BY <3>1, <3>2
  <2>10. QED
    BY <2>2, <2>4, <2>7, <2>9
<1>2. QED
  BY <1>1, Invariance, PTL DEF Spec, MoveChangesWhatWasSeen
=============================================================================
