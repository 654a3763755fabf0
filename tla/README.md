# ShelfManager in TLA+

ShelfManager is an MFC desktop application that watches an automatic workpiece
rack in front of a machine tool, and lets an operator change the machining
order and ask for transports. This directory holds a formal model of its core:
the life of the process and its threads, the stores they share, the machine model
session, the monitoring cycle, the two operations that change the machine, the
screens they are started from, the mock machine and its file, and the check of
the queue by an external system. TLC checks the models on
small instances, and TLAPS proves the main invariants for every instance.

Source paths are relative to the repository root (`src/src/...` in
`PROJECT.json`). `App` is `src/ShelfManager.Application`, `Dom` is
`src/ShelfManager.Domain`, `Fake` is `src/ShelfManager.Infrastructure.Fake`,
`Com` is `src/ShelfManager.Infrastructure.Com`, `Pres` is
`src/ShelfManager.Presentation.Core`.

## 1. Inventory

### Threads

| thread | runs | started, stopped by |
|---|---|---|
| UI thread | message loop, presenters, views; also the lifecycle controller of both others | the application |
| monitoring thread | `MonitoringWorker`: `MonitoringCoordinator::Tick` every 5 ms | `Start`, `Stop` (joins) |
| operation worker | `OperationExecutor::Run`: one task after the other | constructor, `Stop` (drains, joins) |

On closing, `AppCompositionRoot::Impl::Stop` runs on the UI thread: it drains and
joins the operation worker first, then stops and joins the monitoring thread,
then takes the window's pointers back and destroys the objects. No message is
handled meanwhile.

### Components

| component | state | operations | must hold |
|---|---|---|---|
| `OperationExecutor` (App) | queue, next id, accepting, stop flag, worker | `Submit`, `Stop`, `Run` | FIFO; what is accepted is carried out, also during `Stop`; nothing is accepted afterwards; no lost wake-up |
| `OperationStateStore` (App) | one record per operation, own mutex | `Start`, `CompleteSuccess/Failure`, queries | Running exactly while pending; a result is final |
| `OperationCompletionMessageSink`, `CAppShellView` (mfcapp) | list of ids; overlay flag | push and post; drain; timer | every end is presented once, in order, after its result; the overlay comes and goes |
| `MachineModelSession` (App) | state, profile, last error | `Observe`, `ObserveFailure`, `RequireProfile` | one profile per run; a mismatch is latched; every visible change is reported |
| `MonitoringPlanBuilder` (App) | next due times, in-flight flags, on-demand request | `Due`, `MarkComplete`, `RequestOnDemand` | at most one read per class; no class stops for good; the last selection wins |
| `MachineSnapshotAssembler` (App) | last values and freshness per class, last snapshot | `AcceptSuccess`, `AcceptFailure` | old values are marked stale; a new version only for news |
| `MonitoringCoordinator`, `MonitoringWorker`, `MachineSnapshotStore` (App) | the running tick; latest snapshot | `Tick`, `Start`, `Stop`, `Publish` | the store says what the last reads said; `Stop` returns |
| notification sinks, status presenter (mfcapp, Pres) | what the status bar was built from | window messages, redraw | the status bar converges |
| rack, queue and transport presenters and their views, `UiStateStore`, screen router (Pres, mfcapp) | visible screen, selection, last messages, what the controls show | activation, clicks, buttons, redraw on each message | at rest the visible screen is current; nothing is submitted that is not selected on the screen; one operation per workpiece |
| `AppCompositionRoot`, `CmfcappApp`, `CMainFrame` (mfcapp) | the objects, `running_`, pointers in the shell, timers | `InitInstance`, `Start`, `Stop`, smoke exit, closing | nothing dangles at any step; a failed start leaves nothing; every `Stop` returns |
| `MoveWorkpiecePriorityUseCase`, `RequestManualTransportUseCase` (App), `MachiningQueue`, `ManualTransportPolicy` (Dom) | none of their own | `Execute` | at most one write; the report tells what happened; only what was seen is changed |
| `FakeMachineGateway`, `FakeScenario` (Fake) | the machine's state, version, frame | `Read`, `ApplyPriorityChange`, `RequestTransport` | a conditional write; the queue stays valid |
| `CheckAndAdjustQueuePriorityUseCase`, `QueuePriorityAdjustmentPolicy`, `ComQueuePriorityCheckGateway`, JSON codec | none of their own | one external check, one write | the answer belongs to the request and the profile; the queue follows it; at most one write |
| `CsvScenarioLoader` (Fake) | rows, cumulative responses | `Load`: read, group by time, build frames | each frame is what the file says for its time, and consistent; versions and times grow |
| value types (Dom), painting, tests, tools | widgets | layout, DPI, formats | not modelled, see section 5 |

### Interactions

The UI thread reads the snapshot store and the session, submits tasks to the
executor and details to the plan. The monitoring thread writes the session and
the snapshot store and posts two kinds of messages. The operation worker reads
the snapshot store, the session and the operation store, writes to the gateway,
records its result and posts a message. Every shared object has a mutex of its
own (the snapshot store an atomic pointer); no call holds two of them, except
`Submit`, which holds the executor's while it enters the operation store's. So
consistency *between* objects is a matter of the order of steps, and this is
what the models are about.

### What is hard

`PROJECT.json` lists the hazards at their lines. In short: values read, checked
and used later (version, profile, snapshot); two series of version numbers; a
write whose confirmation fails; window messages that are refused; joins from the
thread that receives the messages; reservations that have to be released on
every path; freshness that has to be combined from two classes of reads; some
thirty steps of starting, any of which may fail; one selection shared by three
screens that are redrawn one after the other; and responses of a file that are
right one by one and wrong together.

## 2. Modules

```
OperationLifecycle          what the pipeline promises (abstract)
  ^ implements
OperationExecutor  <-- OperationUi            + sink, window, overlay, clock
                                   <-- OperationProofs (of both)

MachineModelSession   <-- MachineModelSessionProofs
MachineModelSession      }
MonitoringPlan           } <-- Monitoring <-- MCMonitoring
MachineSnapshotAssembler }                <-- MonitoringUi <-- MCMonitoringUi
                                                 <-- MonitoringProofs (of both)

MachineModelSession <-- MachineOperations <-- MCMachineOperations
                                          <-- MachineOperationsProofs

MachineOperations   } <-- QueuePriorityAdjustment <-- MCQueuePriorityAdjustment
QueuePriorityCheck  }                           <-- QueuePriorityAdjustmentProofs

Composition     <-- MCComposition      Composition <-- CompositionProofs
Screens         <-- MCScreens          Screens     <-- ScreensProofs
ScenarioLoader  <-- MCScenarioLoader   ScenarioLoader <-- ScenarioLoaderProofs
```

The last three stand beside the others rather than on top of them: each looks at
the same program at another grain. `Composition` keeps of each object only that
it exists and what it refers to, `Screens` of a snapshot only what the screens
tell apart, and `ScenarioLoader` shows what `MachineOperations` assumes of the
frames of its machine (`FramesAreConsistent`).

**OperationLifecycle.** Each operation goes from absent to running to one of two
ends, is accepted only while the pipeline is open, and ends in order of
acceptance.

**OperationExecutor.** `lock` is the executor's mutex; `Submit` is two actions
(`SubmitRecord`, `SubmitEnqueue`) because the record becomes visible to other
threads between them. `Stop` is the flag (`StopRequest`) and the join
(`StopJoin`). The worker's loop is `WorkerSleep`, `WorkerTake`, `WorkerExit`,
`WorkerComplete` (the task and its result, including exceptions, which become
failures) and `WorkerNotify`. The condition variable is modelled: a sleeping
worker only moves when it is notified or wakes spuriously. A `Submit` that is
refused changes nothing and is no step. The record that `Start` refuses because
the id exists cannot occur, since ids are never reused; `CanStart` stands for
that check. The header allows one lifecycle controller only.

**OperationUi.** The UI thread is the client and the controller. `SinkPush` and
`SinkPost` are the two halves of `OnOperationCompleted`; a post may be refused.
`HandleCompleted` drains the list and refreshes the overlay, `OverlayTimer`
refreshes it every period, `Tick` is the clock. Screens are disabled under the
overlay, so nothing is submitted then; the frame can still be closed.

**MachineModelSession.** One action per observation. Error codes are kept,
because transient ones are treated differently; `Reports` is the return value.

**MonitoringPlan.** The absolute `nextDue` is held as the time left until it,
which keeps the state finite. `Due` reserves, `MarkComplete` releases.

**MachineSnapshotAssembler.** The fragment of a class is one value: the health,
the set of workpieces (for the four Standard areas), the workpiece whose detail
was read. `FreshnessEquivalent`, `CombinedFreshness` and `MarkFailed` are
translated as they are; `capturedAt` and the change flags are left out, since no
consumer decides on them.

**Monitoring.** The monitoring thread, step by step: due, read, observe, report,
accept (with the release), publish, notify. The machine side may be up, down
(the read fails) or held (the read succeeds and says that it is old). A read hands
out the freshness of the machine's frame as it is, so the time in it is that of the
frame, or of the last good one (`Stamped`), and not that of the read; a frame may
differ from the one before it in its time only. Time and
machine change only where the code looks at them next; any other place gives
the same behaviours. `Publish` refuses a version that is not newer; with one
publisher this branch is never taken. `MonitoringWorker` can be started again
after `Stop`; the application never does, and the model does not either.

**MonitoringUi.** Adds the posted messages as counters, what the status bar was
last built from (`RedrawStatus`), and the selection, which the presenters of the
screens drop (`DropSelection`). A message about the model is not for the rack, which
makes no difference to the selection. Message contents are hints in the code and
are not carried.

**MachineOperations.** The two use cases against the gateway. The worker's steps
are the points where another thread can come between: `RequireProfile`, the
checks on an immutable snapshot, the second `RequireProfile`, the gateway call,
the reading back. `SynchronizeFrame` is a step of its own: the gateway adopts a
due frame at the start of every call, so this is the same as adopting it just
before. A frame holds a queue (valid, as `CsvScenarioLoader::BuildFrame`
demands), places, one destination, which may be unavailable or gone, and a health;
whether the data is fresh follows from the connection, as in `BuildFrame`: data is
fresh over a degraded connection as well, though nothing can be written then. A
workpiece's status is folded into its place. `MoveError` has the refusal of an invalid
queue for completeness, but no such queue gets there. Authorisation is a free choice. Monitoring is `Read` (a fragment
is in hand) and `Publish` (it is taken in later); `PublishOther` is a
publication of something the operations do not look at, such as a detail.
Presenters submit from whatever selection and snapshot there are at the time;
that buttons are disabled for some of them is not assumed, as the code calls
the use case "the last safety boundary".

**QueuePriorityCheck.** No state: which requests the factory and the codec
accept (`RequestErrors`), which answers the codec and the validator take
(`Parses`, `ContractError`), and the plan that follows
(`Reordered`, which puts one `Group` before the other, and `Assignments`). A tool
is a name, and `UsableTools` says which have the format of a model's profile;
`MaxUsage` stands for the largest `uint64`. Where the code reports the first of
several defects, any of them may be reported.

**QueuePriorityAdjustment.** `CheckAndAdjustQueuePriorityUseCase::Execute` with
`ComQueuePriorityCheckGateway::Check` inside, one action between two points at
which another thread can come in: four reads of the profile around the call, the
two reads of the snapshot store, the call of the external system, the write, the
reading back. `check` holds the local variables. Nothing in this commit calls the
use case. The caller follows the headers: it makes a request from a snapshot with
the factory, and submits it later for the version it sees then; the check runs on
the operation worker, so no operation runs at the same time, while monitoring and
the machine go on (`Others`). The write goes through the same gateway as a move
(`CheckOperation`). The external system (`Documents`) answers correctly with any
set of executable workpieces, in any of two orders, or wrongly in one respect;
text and encodings are left out.

**Composition.** The UI thread's `ui` walks through `InitInstance`, `Start` and
`Stop`; `step` is its place in the lists of objects to make (`BuildOrder`), to hand
to the shell (`BindOrder`), to take back (`UnbindOrder`) and to destroy
(`ResetOrder`). `Uses` are the references an object holds. `StartThrows` is an
exception at any place of the try block, and `BeginStop` the one `Stop` that
rolling back, closing and `ExitInstance` share. The error box of a failed start has
a message loop of its own, so posted messages reach the window there as well.
Option parsing is `ParseStartupOptions` over the kinds of arguments; a number is
its digits, and `MaxUint` the largest `UINT`. An exception of the loader is caught
by nobody (`"terminated"`). The two threads do here only what matters to
lifetimes: post, take a task, end.

**Screens.** A snapshot is what the presenters distinguish (`Content`). `RackView`,
`QueueView` and `TransportView` are the three `BuildViewModel` together with
`Render`; hidden screens are not kept, for `Activate` draws them anew. The handler
of a message leaves its calls to the presenters in `todo`, and `Draw` carries out
one of them, since the other threads can change the stores between two. A click
first changes the control (`view`), then is looked up in the newest snapshot, which
may ignore it. `DeselectRow` is the click that takes the highlighting of the queue's
list away: `OnQueueSelectionChanged` returns early, so the shared selection, the
instructions and the buttons stay, and Up or Down then moves a workpiece that is no
longer highlighted. The properties of the screens allow for that and nothing more.
A detail that was asked for may arrive whatever has been selected since
(`requested`). `Submit` checks again only what the code checks again.
`ScreensAssumption` asks of a snapshot that what `IsTransportable` allows is in a
slot of the rack, which is the first thing `IsTransportable` looks at, and that the
rack lists the workpieces that are in a slot, which is how the loader makes it
(`CsvScenarioLoader.cpp` 885-901).

**ScenarioLoader.** `ReadLine` takes one line of the file, `EndOfFile` looks for
duplicates and for the machine model, and `BuildFrame` merges the rows of a time into
the cumulative responses, the earliest first, and applies the checks of `BuildFrame` in the code's order
(`Checks`; `Verdict` is the first that fails, and one of them throws).
`CreateScenario` is `FakeScenario::Create`; `Tick`, `Read` and `Write` play it with
`FrameIndexAt` and the gateway's own version. Splitting a line into fields is
left out: a line is malformed or not. A row is known by its line, and those that
are not yet in a frame are a set (`rows`): the sort by time in `Parse` shows only in
`BuildFrame` taking the earliest time left.

Definitions named `Slip...` are no part of the program. Each is a plausible
mistake next to the definition it would replace; the mutants in `PROJECT.json`
use them to show that each property notices a mistake.

## 3. Runs

| run | instance | states | shows |
|---|---|---|---|
| `executor` | 2 clients, 4 operations | 511 | order, drain, finality, liveness, refinement |
| `operation_ui` | 3 operations, delay 2, clock to 3 | 65 thousand | completions presented once, in order, in the end all of them, with lost messages; the overlay comes and goes |
| `monitoring` | 2 models, 1 unknown, 1 workpiece, 2 healths, 2 changes | 1.1 million | publication, freshness, versions, reservations, profile |
| `monitoring_ui` | 1 change, 1 selection | 0.3 million | the status bar converges, stopping returns |
| `selection` | 2 selections, 1 change | 0.2 million | the last selection gets its detail |
| `operations` | 2 workpieces, 2 operations, 2 frames of 4 contents, 1 other publication | 2.4 million | what is written and reported |
| `priority_check` | 2 models, 3 workpieces, 1 operation, 2 frames of 3 contents, 5 sets of instructions | 1.7 million | which answers are used, what is written, what is reported |
| `composition` | 73 command lines, 3 outcomes of loading, 2 tasks | 46 thousand | nothing dangles or is left behind; tasks run under monitoring; `Stop` returns; the smoke mode ends |
| `screens` | 2 workpieces, 2 destinations, 2 snapshots of 3 contents, 2 operations | 3.0 million | the visible screen is current; what is submitted; what is said |
| `scenario_loader` | every choice of up to 3 of 32 edits of a file, at both ends | 0.3 million | frames follow the file, are consistent, and grow in version and time |

Two runs are expected to fail. Each states what a comment or a document says and
shows how the code departs from it (`findings`):

* `stale_age` (`ScenarioLoader`): the time of the last good read of a mock frame is
  counted from the beginning of the scenario, and the status bar subtracts it from a
  clock that is counted from the start of the host.
* `queue_disabled` (`Screens`): the documents let the operator go on selecting in
  the machining queue while the machine model is not certain; the list is disabled
  together with its buttons, and also as long as nothing is selected.

Five more departures from what one might expect were met while modelling. They are
part of the models, and the properties are stated so as to allow them:

* A snapshot message that could not be posted is not made up for until something
  else changes (`SnapshotMessageSink.cpp` 22; `UiConverges` assumes what it must).
* The assembler's versions and the gateway's are two series. A write to an
  unchanged machine can be refused as a conflict; and a transport for a workpiece
  that has moved meanwhile can be accepted when the two agree by chance. For a move
  the expected priorities prevent this (`MoveChangesWhatWasSeen`).
* A mismatch can be latched between the second `RequireProfile` and the gateway
  call; `NothingBegunOnceLatched` covers the way up to that call.
* A click beside the rows of the queue, or with Ctrl on the row, takes the
  highlighting away and nothing else (`MachiningQueueView.cpp` 168-171); Up and Down
  stay enabled, for the workpiece selected before. `VisibleScreenIsCurrent` and
  `SubmitsNothingElse` name this one exception.
* A count in a file that is in the range of its type but larger than a vector can
  hold makes the loader throw; nothing up to `InitInstance` catches it
  (`"terminated"` in `Composition`, `"threw"` in `ScenarioLoader`).

### Bounds

* `MaxOperations` bounds `nextId`, an unsigned 64-bit counter that does not wrap
  in practice. Two are enough for any property of two operations; four let both
  clients queue behind a running task and meet `Stop`.
* `MaxTime` bounds the clock. In `Monitoring` the clock stays at its bound;
  `wait` goes on, so reads are still due. The order of two good reads is all
  that properties ask of times.
* `MaxChanges` and `MaxSelects` bound what the environment does, not what the
  program does. With two changes a link can fail and come back, or fail while
  the model changes.
* `MaxFrames = 2` is one change of the machine; `MaxOther = 1` is enough to move
  the two version series apart, or back together.
* In `priority_check` three workpieces are the fewest for which a stable partition
  differs from an exchange. One other operation can come before the check or
  wait behind it. `Recipes` reaches the bound of the sum exactly, exceeds it, and
  breaks each rule of a request once; only the answer that finds all executable
  is also given in spoiled forms, since no check looks at which those are.
* `composition`: two tasks are one on the worker and one queued. The command lines
  are all of up to two arguments of eight kinds, among them the largest number and
  the one after it; the third argument would be treated like the second.
* `screens`: two snapshots are one change, which is enough for every race of a
  change with a click, a message or an operation. The second either loses the
  selected workpiece and shifts the destinations, or is refused and stale.
* `scenario_loader`: three edits can break a file in one row and repair it in
  another. `Max32` and `MaxElements` are small enough that counts exceed either;
  `MaxMs` is 8 so that conversion to ticks and a time at the limit occur. The
  smallest clock that can lie is `BootTicks = 1`.
* `operations`: the contents of a frame are a first picture; one over a degraded
  connection, in an unknown mode, with a workpiece at the destination; one where a
  workpiece and the destination are gone; and one without connection.
* `MCMonitoring` uses symmetry over models, workpieces and healths, and
  `MCQueuePriorityAdjustment` over models, of which only equality is asked; no run with liveness uses symmetry. The periods are 1
  and 2 ticks, in place of 16.7 ms and 66.7 ms, which keeps that Critical is
  due more often.
* Deadlock is checked wherever the system is meant to run on. In `Monitoring`
  a stopped system rests (`Rest`), and so does a process that has ended in
  `Composition`. `MachineOperations` and `Screens` come to an end when all their
  bounds are used up, and have no shutdown, so their configurations switch the
  check off.

### Fairness

* The operation worker and the monitoring thread are weakly fair as one action
  each: the operating system runs them. A task is assumed to return, for the code
  has no cancellation and documents that `Stop` waits; but how long it takes is
  open, so the overlay appears and goes away again.
* A `Submit` that has begun ends, and a join whose worker has exited returns.
* In `Composition` also the UI thread goes on inside `Start` and `Stop`, the smoke
  timer fires and the posted close message is handled. Nobody has to dismiss the
  error box, and no operator closes the window.
* The message loop handles each kind of posted message and the timer. Nothing is
  assumed about operators, about the machine, or about the delivery of messages.
* Mutexes need no strong fairness: the number of calls of `Submit` is bounded,
  and no other thread keeps a mutex.

## 4. Proofs

All theorems hold for every value of the constants that satisfies the named
assumptions (`ExecutorAssumption`, `SessionAssumption`, `PlanAssumption`,
`MonitoringAssumption`, `OperationsAssumption`, `CompositionAssumption`,
`ScreensAssumption`, `LoaderAssumption`, `UsageAssumption`, `CheckAssumption` and the
`UiAssumption`s of `OperationUi` and `MonitoringUi`),
which TLC also evaluates.

**OperationProofs, the executor.** `IInv` adds three facts to the types: the queue
holds consecutive ids (`QueueShape`); the ids fall into ended, running, absent
at two boundaries given by the queue and the worker (`PhaseShape`); and where the
worker and the controller can be for the state of the flags (`WorkerShape`,
`StopShape`). `FifoCompletion` alone is not inductive, since it says nothing of
the order in the queue. From `IInv` follow `PendingCorrect`, `FifoCorrect`,
`StopCorrect`, `NoLostWakeup`, `RecordedCorrect`, `ResultsFinal`, `ClosedForGood`
and, step by step, `Refinement`.

**OperationProofs, the UI.** A step of the UI is a step of the executor or leaves it alone,
so `UiSpec` implements `Spec` (`ExecutorUnderUi`) and all that is proved of the
executor holds here. `Reporting` says that what was presented followed by what
waits in the sink is 1, 2, 3, ..., up to the last id the worker has reported;
`PresentedOnceInOrder` alone does not say what waits. Lost messages do not appear
in the argument, since no id travels in a message.

**MachineModelSessionProofs.** The step lemma `ObserveStep` is stated for one
observation, so that modules composing the session can cite it.

**MonitoringProofs.** The invariant comes in two layers. `IInv` says where the
running tick is: what is left of it is at most one request per class
(`RequestShape`) and exactly what is reserved (`InFlightIsRunning`, which is
inductive only with the former); the reply in hand is one to the request in hand
(`ReplyShape`); and the store has the assembler's snapshot, or the one before it
while that is being published (`StoreShape`). `EveryVersionIsNews` follows,
and so does `ProfileIsFixed`, with `ObserveStep` of the session. On top of it
`AssembledShape` ties the assembler's fields to the replies taken in so far
(`Known`) and its snapshot to the fields; `PublishedIsLatest` is both layers
together. `MonitoringAssumption` says of `Nothing` only that it is no value, no
freshness and no snapshot, so that an empty optional can be told from a full one.

`MonitoringObserves` shows that monitoring, seen from the session, is the session's
own specification. A step of the UI thread leaves what the monitoring sees alone, so
`UiSpec` implements `Spec` (`MonitoringUnderUi`), and what is proved of `Monitoring`
holds with the screens. `ScreensAreCurrent` is the safety half of `UiConverges`: when
no message waits, the last one was not lost and the thread is not about to post one
(`NothingUnderway`), the screens show the store and the session. It needs that an
observation that is not reported changes nothing that is shown
(`UnreportedChangesNothing`); messages lost earlier do not matter, since any later one
redraws everything.

**MachineOperationsProofs.** `IInv` relates the worker's step to the report and
to the writes (`Progress`), says that the machine's version has passed those of
all operations that wrote (`WritersAreBehind`), that two snapshots of one
version are one snapshot (`SeenWasPublished`), and that the plan on the worker
was made from what the operator saw (`PlanIsForSeen`). `OneWritePerVersion`
needs `WritersAreBehind`: an accepted write has the machine's version, which no
earlier writer has. That the queue stays valid follows from the gateway's own
check. `ReportCorrect`, `SuccessCorrect` and `MoveCorrect` follow from `IInv`.

**CompositionProofs.** For any command lines, any number of tasks. `IInv` says for
each place of the UI thread which objects exist (`ObjectsFit`), which pointers the
shell may have and that `Stop` will take them back (`PointersFit`), which timers are
set (`TimersFit`) and where the threads can be (`ThreadsFit`). The orders are data of
the code, so the facts about them (what is made before what, and destroyed after
what) are lemmas by expansion; the invariant only uses that each prefix is closed
under `Uses`. `NothingDangles`, `NothingIsLeftBehind` and `TasksRunUnderMonitoring`
follow.

**ScreensProofs.** For any workpieces, places and sequence of snapshots. A change of
what a screen shows is either followed by a message or leaves a call of its presenter
in `todo`, so a screen for which nothing is on its way (`Quiet`) is current
(`VisibleIsCurrent`). The delicate part is the shared selection, which a presenter
of another screen may drop after the visible one was drawn. `SelectionKept` and
`RackFirst` rule this out: a selection that can be dropped has not been met by the
rack's presenter yet, and that one is called first. `ButtonsFit` says that a button
is enabled only on its own screen and for a workpiece without an operation, or is
about to be redrawn; with `UiIdle` in the guard of a press this gives
`OneOperationPerWorkpiece`. `HighlightFits` is what `SubmitsNothingElse` needs: the
queue highlights the shared selection or nothing, the other screens show it exactly.
It holds under less than `Quiet`, because messages about the model and about
completions may still be waiting. The same exception for the queue is in
`VisibleIsCurrent` (`MayShow`), since a deselection is followed by no drawing.

**ScenarioLoaderProofs.** For any files, whatever the order of their lines. `RowsFit`
splits the rows of a file: those that are left are later than all that were taken,
and at each address the responses hold the value of the latest row taken. A frame is
a function of the responses, so it shows what the file says for its time, and later
rows do not change that (`FramesFit`). `FramesFollowTheFile` alone says nothing of
the responses, from which the next frame is made. A frame that is built has passed
every check of `BuildFrame`, which gives `FramesAreConsistent`; `LastReadFits` ties
the loader's own `lastRead` to the frames. `AcceptedCorrect` goes beyond the runs:
`FakeScenario::Create` never refuses what `Parse` has built, so that its two checks
of the times are never the reason of a failure.

**QueuePriorityAdjustmentProofs.** For any workpieces, recipes and answers. The check
touches the machine in one step only, so the invariant of `MachineOperations` is
shown again for that step alone (`CheckWriteIInv`) and holds with the check among the
writers. `CheckIsOneOfTheWriters` extends `OneWritePerVersion` to the check by the
same argument: an accepted write has the machine's version, which is then gone.
`OneProfile` says that the call is made, read and written for one profile, that of
the session; so the comparison in `ConfirmSameProfile` never finds another profile,
and what stops a call is the latched mismatch.

A second invariant, `AnswerInv`, is about the data: the request has the workpiece of
priority p at position p, its tools are tools of the profile, and once an answer is
used it has passed the contract and the plan is the one that follows. Three arguments
lead from there to the properties. The contract says that each workpiece asked about
has a result, while `AnswerIsAboutRequest` also says that each result was asked for:
there are as many results as workpieces, no workpiece has two, and a one-to-one
function on 1 .. n reaches every number (`OneToOneIsOnto`). `Group`, the loop of
`push_back`s, is a recursive function over positions. The prover has no induction over
data, so that such a function exists is shown by looking at the least number it does
not reach (`CountingUp`); each group is then described by how many chosen positions
there are up to one of them (`GroupCollects`). With that, `PartitionedPlaces` gives
each workpiece its place, `PositionIsPlace` finds the same number by counting who comes
before, as the properties do, and `PlanEntries` says that the plan moves exactly those
whose place is another one. `CheckReportMatchesEffect` and `QueueFollowsAnswer` follow,
the latter with the gateway's comparison of the expected priorities.
`CheckAssumption`, that there are finitely many workpieces, only serves to make the
caller's lists finite. `MaxUsage` is any number; of the sums themselves nothing is
used but that they are compared.

**Only model-checked.** Everything under fairness and `ENABLED`, that is
`AcceptedCompletes`, `StopReturns` (executor and composition), `SmokeExitEnds`,
`OverlayAppears`, `OverlayGoesAway`, `EveryEndIsPresented`, `UiConverges`,
`MonitoringStops` and `SelectionIsDetailed`; and the two refuted sentences. The
prover has no liveness rules here. All the safety properties of the runs are proved.

## 5. Plan

Done: the operation pipeline and its UI, the session, plan, assembler and monitoring
cycle, the two operations, the priority check, the composition root, the screens,
the scenario file, and the proofs of section 4.

Next: what the sums of `Total` are (`MapThenSumSet` is a fold, which asks for
induction over a set), and a refinement of the check as a whole by an abstract
"one request, at most one reordering".

Not modelled, and why:

* `ResolveApplicationPath` and reading the file: I/O. Splitting a line of the file
  and a JSON document into their parts (`ParseCsvFields`, the codec's text): no
  state, and a matter of single characters. COM strings and allocation failures.
* Painting, layout, fonts, DPI, the About box and menus: no consumer decides on them.
* `WM_ENDSESSION`: the framework ends the process; the code has no handler.
* What a combo box of the transport screen shows while it is open, such as the way
  back to the old entry with Esc: the control's own. A choice is modelled as made.
* The overlay inside `Screens`: it only blocks input, and `OperationUi` has it.
* A second `Start` after `Stop` of the monitoring worker: the application does not.
* Formats of tool identifiers, comparison operators of values, `UserMessageMapper`.
* Test programs, source checks, build files.

## 6. Running

    tlc -config OperationExecutor.cfg OperationExecutor
    tlc -config MachineOperations_safety.cfg MCMachineOperations
    tlc -config Screens.cfg MCScreens
    tlapm MachineOperationsProofs.tla

`PROJECT.json` names module, configuration and properties of every run, the
source lines of every definition, and a mutant for every property.
