---------------------------- MODULE Composition -----------------------------
(***************************************************************************)
(* The life of the process: CmfcappApp creates the frame and lets          *)
(* AppCompositionRoot::Start build every object, hand pointers to the      *)
(* shell window and start the threads; a failure at any step is rolled     *)
(* back by the same Stop that closing the frame runs.  Between its steps   *)
(* the two worker threads go on, and whenever the UI thread is in a        *)
(* message loop (the application's, or that of the error box) posted       *)
(* messages and timers reach the window.                                   *)
(*                                                                         *)
(* Objects are known by name, and of each object it is only kept whether   *)
(* it exists and which others it holds a reference to.  What the threads   *)
(* do with them is the subject of the other modules.                       *)
(*                                                                         *)
(* Definitions named Slip... are mistakes for the mutants.                 *)
(***************************************************************************)
EXTENDS Naturals, Sequences, FiniteSets

CONSTANTS
    CommandLines,  \* the command lines: sequences of arguments
    Scenarios,     \* what CsvScenarioLoader::Load makes of the file
    MaxUint,       \* the largest UINT
    MaxTasks       \* bound on the operations submitted

ASSUME CompositionAssumption ==
    /\ Scenarios \subseteq {"loaded", "refused", "throws"}
    /\ MaxUint \in Nat \ {0}
    /\ MaxTasks \in Nat

VARIABLES
    ui,         \* where the UI thread is
    step,       \* its position in a list of objects or bindings
    after,      \* where it goes when Stop is done
    root,       \* compositionRoot_ exists
    alive,      \* the objects that exist, the shell window among them
    shellRef,   \* impl_->shell_ is set
    bound,      \* what the shell and its views point to
    running,    \* impl_->running_
    worker,     \* the operation worker: a task's presenter, or where it is
    tasks,      \* the executor's queue, as the presenters of the tasks
    submitted,  \* number of tasks submitted so far
    monitor,    \* the monitoring thread
    stopping,   \* the threads that have been told to stop
    messages,   \* window messages not handled yet, by kind
    timers,     \* window timers that are set
    args,       \* the command line
    scenario    \* what loading the scenario comes to

threadVars == <<worker, tasks, submitted, monitor, stopping>>
inputVars  == <<args, scenario>>
vars == <<ui, step, after, root, alive, shellRef, bound, running, threadVars,
          messages, timers, inputVars>>
-----------------------------------------------------------------------------
(* The objects in the order in which Start makes them.                     *)
BuildOrder ==
    <<"clock", "gateway", "authorization", "machineModelSession",
      "snapshotStore", "operationStateStore", "assembler", "monitoringPlan",
      "snapshotSink", "machineModelStateSink", "operationCompletionSink",
      "rawQueuePriorityCheckApi", "queuePriorityCheckGateway",
      "queuePriorityRequestFactory", "checkAndAdjustUseCase",
      "movePriorityUseCase", "manualTransportUseCase", "operationExecutor",
      "coordinator", "monitoringWorker", "machineStatusPresenter",
      "visualRackPresenter", "machiningQueuePresenter",
      "manualTransportPresenter">>

(* Slip: the executor is destroyed last but one, as it was built early.    *)
SlipResetOrder ==
    <<"manualTransportPresenter", "machiningQueuePresenter",
      "visualRackPresenter", "machineStatusPresenter", "monitoringWorker",
      "coordinator", "manualTransportUseCase", "movePriorityUseCase",
      "checkAndAdjustUseCase", "queuePriorityRequestFactory",
      "queuePriorityCheckGateway", "rawQueuePriorityCheckApi",
      "operationCompletionSink", "operationExecutor", "machineModelStateSink",
      "snapshotSink", "monitoringPlan", "assembler", "operationStateStore",
      "snapshotStore", "machineModelSession", "authorization", "gateway",
      "clock">>

(* The order in which Stop destroys them.                                  *)
ResetOrder ==
    <<"manualTransportPresenter", "machiningQueuePresenter",
      "visualRackPresenter", "machineStatusPresenter", "operationExecutor",
      "monitoringWorker", "coordinator", "manualTransportUseCase",
      "movePriorityUseCase", "checkAndAdjustUseCase",
      "queuePriorityRequestFactory", "queuePriorityCheckGateway",
      "rawQueuePriorityCheckApi", "operationCompletionSink",
      "machineModelStateSink", "snapshotSink", "monitoringPlan", "assembler",
      "operationStateStore", "snapshotStore", "machineModelSession",
      "authorization", "gateway", "clock">>

(* The references each object is constructed with.                         *)
Uses ==
    [clock |-> {}, gateway |-> {"clock"}, authorization |-> {},
     machineModelSession |-> {}, snapshotStore |-> {},
     operationStateStore |-> {}, assembler |-> {}, monitoringPlan |-> {},
     snapshotSink |-> {"shell"}, machineModelStateSink |-> {"shell"},
     operationCompletionSink |-> {"shell"},
     rawQueuePriorityCheckApi |-> {},
     queuePriorityCheckGateway |->
        {"rawQueuePriorityCheckApi", "machineModelSession"},
     queuePriorityRequestFactory |-> {"machineModelSession"},
     checkAndAdjustUseCase |->
        {"snapshotStore", "queuePriorityCheckGateway", "gateway",
         "machineModelSession"},
     movePriorityUseCase |->
        {"snapshotStore", "gateway", "operationStateStore",
         "machineModelSession"},
     manualTransportUseCase |->
        {"snapshotStore", "authorization", "gateway", "operationStateStore",
         "machineModelSession"},
     operationExecutor |->
        {"clock", "operationStateStore", "operationCompletionSink"},
     coordinator |->
        {"clock", "gateway", "monitoringPlan", "assembler", "snapshotStore",
         "snapshotSink", "machineModelSession", "machineModelStateSink"},
     monitoringWorker |-> {"coordinator"},
     machineStatusPresenter |->
        {"shell", "snapshotStore", "clock", "machineModelSession"},
     visualRackPresenter |-> {"shell", "snapshotStore", "coordinator"},
     machiningQueuePresenter |->
        {"shell", "snapshotStore", "coordinator", "operationStateStore",
         "operationExecutor", "movePriorityUseCase", "machineModelSession"},
     manualTransportPresenter |->
        {"shell", "snapshotStore", "authorization", "operationStateStore",
         "operationExecutor", "manualTransportUseCase",
         "machineModelSession"},
     shell |-> {}]

Objects == DOMAIN Uses

(* The presenters that are activated, in the order of their activation;    *)
(* the last two submit operations, whose tasks refer back to them.         *)
Presenters ==
    <<"machineStatusPresenter", "visualRackPresenter",
      "machiningQueuePresenter", "manualTransportPresenter">>

Submitters == {"machiningQueuePresenter", "manualTransportPresenter"}

OperationServices == {"operationCompletionSink", "operationStateStore", "clock"}

(* What the calls of Bind... hand to the shell, and the order in which     *)
(* Stop takes it back.                                                     *)
BindOrder ==
    <<{"machineStatusPresenter"}, {"visualRackPresenter"},
      {"machiningQueuePresenter"}, {"manualTransportPresenter"},
      OperationServices>>

UnbindOrder ==
    <<OperationServices, {"manualTransportPresenter"},
      {"machiningQueuePresenter"}, {"visualRackPresenter"},
      {"machineStatusPresenter"}>>
-----------------------------------------------------------------------------
(* ParsePositiveUint: digit by digit, given up as soon as the value is too *)
(* large, so that the 64-bit accumulator cannot overflow.                  *)
ParsesPositiveUint(digits) ==
    LET value[i \in 0 .. Len(digits)] ==
            IF i = 0 THEN 0 ELSE value[i - 1] * 10 + digits[i]
    IN  /\ digits # << >>
        /\ \A i \in DOMAIN digits : digits[i] \in 0 .. 9 /\ value[i] <= MaxUint
        /\ value[Len(digits)] > 0

(* The arguments ParseStartupOptions takes.                                *)
KnownArgument(arg) ==
    \/ arg.name \in {"--fake", "--fake-authorized"}
    \/ arg.name = "--mock-csv" /\ arg.digits # << >>
    \/ arg.name = "--smoke-exit-ms" /\ ParsesPositiveUint(arg.digits)

ParseStartupOptions(line) == \A i \in DOMAIN line : KnownArgument(line[i])

(* Slip: only the first argument is looked at.                             *)
SlipSmokeRequested ==
    args # << >> /\ args[1].name = "--smoke-exit-ms"

(* options.smokeExitMilliseconds has a value.                              *)
SmokeRequested ==
    \E i \in DOMAIN args : args[i].name = "--smoke-exit-ms"
-----------------------------------------------------------------------------
Init ==
    /\ ui = "init"
    /\ step = 1
    /\ after = "box"
    /\ root = FALSE
    /\ alive = {}
    /\ shellRef = FALSE
    /\ bound = {}
    /\ running = FALSE
    /\ worker = "none"
    /\ tasks = << >>
    /\ submitted = 0
    /\ monitor = "none"
    /\ stopping = {}
    /\ messages = {}
    /\ timers = {}
    /\ args \in CommandLines
    /\ scenario \in Scenarios

(* InitInstance: the frame with its shell, then the composition root.      *)
CreateFrame ==
    /\ ui = "init"
    /\ \/ /\ ui' = "ended"
          /\ UNCHANGED <<alive, root>>
       \/ /\ ui' = "options"
          /\ alive' = {"shell"}
          /\ root' = TRUE
    /\ UNCHANGED <<step, after, shellRef, bound, running, threadVars, messages,
                   timers, inputVars>>

(* Start, before its try block: a refusal makes nothing.  What the loader  *)
(* throws is caught neither here nor in InitInstance.                      *)
ReadInputs ==
    /\ ui = "options"
    /\ ui' = IF ~ParseStartupOptions(args) \/ scenario = "refused" THEN "box"
             ELSE IF scenario = "throws" THEN "terminated" ELSE "build"
    /\ step' = 1
    /\ shellRef' = (ui' = "build")
    /\ UNCHANGED <<after, root, alive, bound, running, threadVars, messages,
                   timers, inputVars>>

(* The try block of Start: a make_unique, which may throw.                 *)
Construct ==
    /\ ui = "build"
    /\ alive' = alive \cup {BuildOrder[step]}
    /\ worker' = IF BuildOrder[step] = "operationExecutor" THEN "idle" ELSE worker
    /\ IF step < Len(BuildOrder)
       THEN step' = step + 1 /\ ui' = ui
       ELSE step' = 1 /\ ui' = "bind"
    /\ UNCHANGED <<after, root, shellRef, bound, running, tasks, submitted,
                   monitor, stopping, messages, timers, inputVars>>

(* Bind...Presenter and BindOperationServices, which sets the overlay's    *)
(* timer; that this may fail is ignored.                                   *)
Bind ==
    /\ ui = "bind"
    /\ bound' = bound \cup BindOrder[step]
    /\ IF BindOrder[step] = OperationServices
       THEN timers' \in {timers, timers \cup {"overlay"}}
       ELSE timers' = timers
    /\ IF step < Len(BindOrder)
       THEN step' = step + 1 /\ ui' = ui
       ELSE step' = 1 /\ ui' = "activate"
    /\ UNCHANGED <<after, root, alive, shellRef, running, threadVars, messages,
                   inputVars>>

(* Presenter::Activate draws once; nothing else changes.                   *)
ActivatePresenter ==
    /\ ui = "activate"
    /\ IF step < Len(Presenters)
       THEN step' = step + 1 /\ ui' = ui
       ELSE step' = 1 /\ ui' = "launch"
    /\ UNCHANGED <<after, root, alive, shellRef, bound, running, threadVars,
                   messages, timers, inputVars>>

(* Monitoring begins last.                                                 *)
Launch ==
    /\ ui = "launch"
    /\ monitor' = "running"
    /\ running' = TRUE
    /\ ui' = "smoke"
    /\ UNCHANGED <<step, after, root, alive, shellRef, bound, worker, tasks,
                   submitted, stopping, messages, timers, inputVars>>

(* The beginning of Impl::Stop, wherever it is called from.                *)
BeginStop(next) ==
    /\ ui' = "stopExecutor"
    /\ after' = next
    /\ step' = 1

(* ScheduleSmokeExit when it was asked for; a timer that cannot be set     *)
(* undoes the start.  InitInstance then shows the frame and returns.       *)
FinishStart ==
    /\ ui = "smoke"
    /\ \/ /\ ui' = "loop"
          /\ timers' = IF SmokeRequested THEN timers \cup {"smoke"} ELSE timers
          /\ UNCHANGED <<step, after>>
       \/ /\ SmokeRequested
          /\ BeginStop("box")
          /\ UNCHANGED timers
    /\ UNCHANGED <<root, alive, shellRef, bound, running, threadVars, messages,
                   inputVars>>

(* An exception inside the try block.                                      *)
StartThrows ==
    /\ ui \in {"build", "activate", "launch"}
    /\ BeginStop("box")
    /\ UNCHANGED <<root, alive, shellRef, bound, running, threadVars, messages,
                   timers, inputVars>>
-----------------------------------------------------------------------------
(* The threads.  A message is posted to a window that exists, and each     *)
(* kind is counted once: the handlers read the newest state.               *)
Post(kinds) == messages' = IF "shell" \in alive THEN messages \cup kinds
                                                ELSE messages

MonitorTick ==
    /\ monitor = "running"
    /\ \E kinds \in SUBSET {"snapshot", "model"} : Post(kinds)
    /\ UNCHANGED <<ui, step, after, root, alive, shellRef, bound, running,
                   threadVars, timers, inputVars>>

MonitorExit ==
    /\ monitor = "running"
    /\ "monitor" \in stopping
    /\ monitor' = "gone"
    /\ UNCHANGED <<ui, step, after, root, alive, shellRef, bound, running, worker,
                   tasks, submitted, stopping, messages, timers, inputVars>>

WorkerTake ==
    /\ worker = "idle"
    /\ tasks # << >>
    /\ worker' = Head(tasks)
    /\ tasks' = Tail(tasks)
    /\ UNCHANGED <<ui, step, after, root, alive, shellRef, bound, running,
                   submitted, monitor, stopping, messages, timers, inputVars>>

(* The task returns; its result is recorded and reported.                  *)
WorkerComplete ==
    /\ worker \in Submitters
    /\ worker' = "idle"
    /\ Post({"completed"})
    /\ UNCHANGED <<ui, step, after, root, alive, shellRef, bound, running, tasks,
                   submitted, monitor, stopping, timers, inputVars>>

WorkerExit ==
    /\ worker = "idle"
    /\ tasks = << >>
    /\ "worker" \in stopping
    /\ worker' = "gone"
    /\ UNCHANGED <<ui, step, after, root, alive, shellRef, bound, running, tasks,
                   submitted, monitor, stopping, messages, timers, inputVars>>
-----------------------------------------------------------------------------
(* The message loop of the application, and that of the error box.         *)
HandlesMessages == ui \in {"loop", "box"}

(* The handlers follow the pointers that are set, and change nothing here. *)
HandleMessage ==
    /\ HandlesMessages
    /\ \E m \in messages \ {"close"} : messages' = messages \ {m}
    /\ UNCHANGED <<ui, step, after, root, alive, shellRef, bound, running,
                   threadVars, timers, inputVars>>

(* An input handler of a view calls the presenter it is bound to.          *)
Submit(presenter) ==
    /\ ui = "loop"
    /\ presenter \in bound
    /\ submitted < MaxTasks
    /\ tasks' = Append(tasks, presenter)
    /\ submitted' = submitted + 1
    /\ UNCHANGED <<ui, step, after, root, alive, shellRef, bound, running, worker,
                   monitor, stopping, messages, timers, inputVars>>

(* OnTimer: the smoke timer fires once and asks the frame to close.        *)
SmokeTimer ==
    /\ ui = "loop"
    /\ "smoke" \in timers
    /\ timers' = timers \ {"smoke"}
    /\ messages' = messages \cup {"close"}
    /\ UNCHANGED <<ui, step, after, root, alive, shellRef, bound, running,
                   threadVars, inputVars>>

(* CMainFrame::OnClose, for the operator or for the posted message: Stop   *)
(* first, then the window goes.                                            *)
OnClose ==
    /\ ui = "loop"
    /\ BeginStop("destroy")
    /\ messages' = messages \ {"close"}
    /\ UNCHANGED <<root, alive, shellRef, bound, running, threadVars, timers,
                   inputVars>>

(* The error box is closed; the root is destroyed before the frame.        *)
DismissBox ==
    /\ ui = "box"
    /\ BeginStop("destroy")
    /\ root' = FALSE
    /\ UNCHANGED <<alive, shellRef, bound, running, threadVars, messages, timers,
                   inputVars>>

(* DestroyWindow with CAppShellView::OnDestroy; posted messages go too.    *)
DestroyWindow ==
    /\ ui = "destroy"
    /\ alive' = alive \ {"shell"}
    /\ bound' = {}
    /\ timers' = {}
    /\ messages' = {}
    /\ ui' = "exit"
    /\ UNCHANGED <<step, after, root, shellRef, running, threadVars, inputVars>>

(* ExitInstance: StopComposition once more, then the root's destructor,    *)
(* which calls it a third time.                                            *)
ExitInstance ==
    /\ ui = "exit"
    /\ IF root THEN BeginStop(IF after = "destroy" THEN "exit" ELSE "ended")
               ELSE ui' = "ended" /\ UNCHANGED <<after, step>>
    /\ root' = (root /\ after = "destroy")
    /\ UNCHANGED <<alive, shellRef, bound, running, threadVars, messages, timers,
                   inputVars>>
-----------------------------------------------------------------------------
(* Slips: monitoring is told to stop too; the executor is not told.       *)
SlipStopBoth ==
    /\ ui = "stopExecutor"
    /\ stopping' = IF monitor = "none" THEN stopping \cup {"worker"}
                   ELSE stopping \cup {"worker", "monitor"}
    /\ ui' = "joinExecutor"
    /\ UNCHANGED <<step, after, root, alive, shellRef, bound, running, worker,
                   tasks, submitted, monitor, messages, timers, inputVars>>

SlipStopNone ==
    /\ ui = "stopExecutor"
    /\ ui' = "joinExecutor"
    /\ UNCHANGED <<step, after, root, alive, shellRef, bound, running,
                   threadVars, messages, timers, inputVars>>

(* Impl::Stop, one call after the other; the UI thread handles no message  *)
(* in between.  Each object is stopped only if it exists.                  *)
StopExecutor ==
    /\ ui = "stopExecutor"
    /\ stopping' = IF "operationExecutor" \in alive THEN stopping \cup {"worker"}
                                                     ELSE stopping
    /\ ui' = "joinExecutor"
    /\ UNCHANGED <<step, after, root, alive, shellRef, bound, running, worker,
                   tasks, submitted, monitor, messages, timers, inputVars>>

JoinExecutor ==
    /\ ui = "joinExecutor"
    /\ worker \in {"none", "gone"}
    /\ ui' = "stopMonitoring"
    /\ UNCHANGED <<step, after, root, alive, shellRef, bound, running, threadVars,
                   messages, timers, inputVars>>

StopMonitoring ==
    /\ ui = "stopMonitoring"
    /\ stopping' = IF monitor = "running" THEN stopping \cup {"monitor"}
                                           ELSE stopping
    /\ ui' = "joinMonitoring"
    /\ UNCHANGED <<step, after, root, alive, shellRef, bound, running, worker,
                   tasks, submitted, monitor, messages, timers, inputVars>>

JoinMonitoring ==
    /\ ui = "joinMonitoring"
    /\ monitor \in {"none", "gone"}
    /\ ui' = IF shellRef THEN "unbind" ELSE "reset"
    /\ UNCHANGED <<step, after, root, alive, shellRef, bound, running, threadVars,
                   messages, timers, inputVars>>

(* Slip: the status presenter stays bound.                                 *)
SlipUnbind ==
    /\ ui = "unbind"
    /\ bound' = bound \ (UnbindOrder[step] \ {"machineStatusPresenter"})
    /\ timers' = IF UnbindOrder[step] = OperationServices
                 THEN timers \ {"overlay"} ELSE timers
    /\ IF step < Len(UnbindOrder)
       THEN step' = step + 1 /\ ui' = ui
       ELSE step' = 1 /\ ui' = "reset"
    /\ UNCHANGED <<after, root, alive, shellRef, running, threadVars, messages,
                   inputVars>>

(* The Bind... calls with null; the first also kills the overlay's timer.  *)
Unbind ==
    /\ ui = "unbind"
    /\ bound' = bound \ UnbindOrder[step]
    /\ timers' = IF UnbindOrder[step] = OperationServices
                 THEN timers \ {"overlay"} ELSE timers
    /\ IF step < Len(UnbindOrder)
       THEN step' = step + 1 /\ ui' = ui
       ELSE step' = 1 /\ ui' = "reset"
    /\ UNCHANGED <<after, root, alive, shellRef, running, threadVars, messages,
                   inputVars>>

(* reset() of each owner, then back to the caller.                         *)
Reset ==
    /\ ui = "reset"
    /\ alive' = alive \ {ResetOrder[step]}
    /\ IF step < Len(ResetOrder)
       THEN step' = step + 1 /\ UNCHANGED <<ui, shellRef, running>>
       ELSE /\ step' = 1
            /\ ui' = after
            /\ shellRef' = FALSE
            /\ running' = FALSE
    /\ UNCHANGED <<after, root, bound, threadVars, messages, timers, inputVars>>
-----------------------------------------------------------------------------
(* The process is over, or was ended by an exception nobody caught.        *)
Rest ==
    /\ ui \in {"ended", "terminated"}
    /\ UNCHANGED vars

Starting == CreateFrame \/ ReadInputs \/ Construct \/ Bind
            \/ ActivatePresenter \/ Launch \/ FinishStart

Stopping == StopExecutor \/ JoinExecutor \/ StopMonitoring \/ JoinMonitoring
            \/ Unbind \/ Reset \/ DestroyWindow \/ ExitInstance

Threads == MonitorExit \/ WorkerTake \/ WorkerComplete \/ WorkerExit

Next ==
    \/ Starting
    \/ StartThrows
    \/ Stopping
    \/ Threads
    \/ MonitorTick
    \/ HandleMessage
    \/ \E presenter \in Submitters : Submit(presenter)
    \/ SmokeTimer
    \/ OnClose
    \/ DismissBox
    \/ Rest

Spec == Init /\ [][Next]_vars

(* The UI thread and the two workers are scheduled, tasks return, timers   *)
(* and the posted close message arrive.  Nobody has to dismiss the box.    *)
FairSpec ==
    /\ Spec
    /\ WF_vars(Starting)
    /\ WF_vars(Stopping)
    /\ WF_vars(WorkerTake \/ WorkerComplete \/ WorkerExit)
    /\ WF_vars(MonitorExit)
    /\ WF_vars(SmokeTimer)
    /\ WF_vars("close" \in messages /\ OnClose)
-----------------------------------------------------------------------------
(* Each variable has the values its comment says.                          *)
UiPlaces ==
    {"init", "options", "build", "bind", "activate", "launch", "smoke", "box",
     "loop", "stopExecutor", "joinExecutor", "stopMonitoring",
     "joinMonitoring", "unbind", "reset", "destroy", "exit", "ended",
     "terminated"}

CompositionTypeOK ==
    /\ ui \in UiPlaces
    /\ step \in 1 .. Len(BuildOrder)
    /\ after \in {"box", "destroy", "exit", "ended"}
    /\ root \in BOOLEAN /\ shellRef \in BOOLEAN /\ running \in BOOLEAN
    /\ alive \subseteq Objects
    /\ bound \subseteq Objects
    /\ worker \in {"none", "idle", "gone"} \cup Submitters
    /\ tasks \in Seq(Submitters)
    /\ submitted \in 0 .. MaxTasks
    /\ monitor \in {"none", "running", "gone"}
    /\ stopping \subseteq {"worker", "monitor"}
    /\ messages \subseteq {"snapshot", "model", "completed", "close"}
    /\ timers \subseteq {"overlay", "smoke"}

(* What the rest of the program can reach without asking the root: through *)
(* the shell's pointers, from the threads, from queued and running tasks.  *)
Held ==
    bound
    \cup (IF worker \in {"none", "gone"} THEN {} ELSE {"operationExecutor"})
    \cup (IF monitor = "running" THEN {"monitoringWorker"} ELSE {})
    \cup (IF worker \in Submitters THEN {worker} ELSE {})
    \cup {tasks[i] : i \in DOMAIN tasks}

(* Nothing is reached after it was destroyed or before it was made, at no  *)
(* step of starting, of rolling back or of stopping: what the shell, a     *)
(* thread or a task holds exists, and what an object refers to exists.     *)
NothingDangles ==
    /\ Held \subseteq alive
    /\ \A o \in alive : Uses[o] \subseteq alive
    /\ shellRef => "shell" \in alive

(* AppCompositionRoot.h: a start that failed on its way releases what it   *)
(* made and leaves no reference in the shell; and at the end of the        *)
(* process no thread, object or window is left.                            *)
NothingIsLeftBehind ==
    /\ ui = "box" =>
        /\ alive = {"shell"} /\ bound = {} /\ timers = {}
        /\ worker # "idle" /\ monitor # "running" /\ ~running
    /\ ui = "ended" =>
        /\ alive = {} /\ timers = {} /\ ~root
        /\ worker # "idle" /\ monitor # "running" /\ tasks = << >>

(* Operations that were accepted are carried out while monitoring still    *)
(* runs, so that they see a snapshot that is kept up to date: closing      *)
(* drains the executor before it stops monitoring.                         *)
TasksRunUnderMonitoring ==
    tasks # << >> \/ worker \in Submitters
        => monitor = "running" /\ "monitor" \notin stopping

(* Every Stop returns to where it was called from.                         *)
StopReturns == ui = "stopExecutor" ~> ui \in {"box", "destroy", "exit", "ended"}

(* Started with --smoke-exit-ms, the process ends by itself.               *)
SmokeExitEnds ==
    (ui = "loop" /\ \E i \in DOMAIN args : args[i].name = "--smoke-exit-ms")
        ~> ui = "ended"
=============================================================================
