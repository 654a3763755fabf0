------------------------------ MODULE Screens ------------------------------
(***************************************************************************)
(* The three screens of the shell, their presenters and what they share:   *)
(* the newest snapshot, the machine model session, the operations and the  *)
(* selection in UiStateStore.  One screen is visible; what a hidden one    *)
(* displays is forgotten, for it is drawn when it is shown.  The           *)
(* monitoring thread and the operation worker change the shared state and  *)
(* post a message; each presenter then builds its view anew from whatever  *)
(* is newest.                                                              *)
(*                                                                         *)
(* The UI thread handles one message or input at a time, but the other     *)
(* threads go on between the presenters it calls: `todo' holds the calls   *)
(* the current handler has left.  The executor accepts throughout, since   *)
(* it is stopped only after the message loop; the operation overlay, which *)
(* only blocks input, is left out.                                         *)
(*                                                                         *)
(* Definitions named Slip... are mistakes for the mutants.                 *)
(***************************************************************************)
EXTENDS Naturals, Sequences, FiniteSets

CONSTANTS
    Workpieces,     \* ids of workpieces
    Nobody,         \* no workpiece
    Places,         \* transport destinations
    Nowhere,        \* no destination
    Contents,       \* what the first, the second ... snapshot may contain
    Authorized,     \* what IAuthorizationPort::Authorize answers
    MaxOperations   \* bound on the operations submitted

Content ==
    [queue : Seq(Workpieces),          \* the workpieces by priority
     valid : BOOLEAN,                  \* does MachiningQueue::Create accept it?
     rack : SUBSET Workpieces,         \* those in a slot of the rack
     movable : SUBSET Workpieces,      \* those IsTransportable
     destinations : Seq([place : Places, available : BOOLEAN]),
     live : BOOLEAN,                   \* Connected and Fresh
     error : BOOLEAN,                  \* health.errorActive
     manual : BOOLEAN]                 \* the mode allows manual transport

ElementsOf(s) == {s[i] : i \in DOMAIN s}

(* Only what is in a slot of the rack IsTransportable, and the rack and    *)
(* the workpieces of a snapshot are read together.                         *)
MovableIsOnRack(c) == c.movable \subseteq c.rack \cap ElementsOf(c.queue)

ASSUME ScreensAssumption ==
    /\ Nobody \notin Workpieces
    /\ Nowhere \notin Places
    /\ Contents \in Seq(SUBSET Content)
    /\ \A k \in DOMAIN Contents : \A c \in Contents[k] : MovableIsOnRack(c)
    /\ Authorized \in BOOLEAN
    /\ MaxOperations \in Nat

VARIABLES
    version, content, detail,  \* MachineSnapshotStore: the newest snapshot
    session,      \* MachineModelSession
    operations,   \* OperationStateStore, by OperationId
    completed,    \* ids in OperationCompletionMessageSink
    messages,     \* kinds of messages posted and not handled
    screen,       \* UiStateStore::activeScreen_
    selected,     \* UiStateStore::selectedWorkpiece_
    destination,  \* UiStateStore::selectedDestination_
    requested,    \* the workpieces whose detail was asked for
    lastMessage,  \* lastMessage_ of the presenters that submit
    view,         \* what the views display
    todo          \* calls left of the handler the UI thread is in

storeVars     == <<version, content, detail, session>>
operationVars == <<operations, completed>>
uiState       == <<screen, selected, destination, requested>>
vars == <<storeVars, operationVars, messages, uiState, lastMessage, view, todo>>

ScreenIds == {"rack", "queue", "transport"}
Submitters == {"queue", "transport"}

(* The summary of a workpiece is found in the newest snapshot.             *)
Listed(w) == w \in ElementsOf(content.queue)

(* OperationStateStore::HasRunningOperationFor.                            *)
HasRunningOperationFor(w) ==
    \E i \in DOMAIN operations :
        operations[i].workpiece = w /\ operations[i].phase = "Running"

(* IsInteractive and IsMachineModelSafe.                                   *)
IsInteractive == content.live /\ ~content.error
IsMachineModelSafe == session = "Resolved"
-----------------------------------------------------------------------------
(* BuildViewModel of the presenters, for a selection that is in the        *)
(* snapshot, with what Render makes of it.                                 *)

(* Slots with a workpiece are shown as buttons; the selected one is down.  *)
RackView(w) ==
    [slots   |-> content.rack \cap ElementsOf(content.queue),
     enabled |-> IsInteractive,
     down    |-> {w} \cap content.rack]

EmptyQueue(text) ==
    [rows |-> << >>, selected |-> Nobody, enabled |-> FALSE, up |-> FALSE,
     down |-> FALSE, instructions |-> Nobody, text |-> text]

(* The list itself is enabled only when its buttons could be.              *)
QueueView(w, last) ==
    LET enabled == /\ w # Nobody /\ IsInteractive /\ IsMachineModelSafe
                   /\ ~HasRunningOperationFor(w)
        message == IF IsMachineModelSafe THEN last ELSE "denied"
    IN  IF version = 0 THEN EmptyQueue("synchronizing")
        ELSE IF ~content.valid THEN EmptyQueue("invalid")
        ELSE [rows         |-> content.queue,
              selected     |-> w,
              enabled      |-> enabled,
              up           |-> enabled /\ content.queue[1] # w,
              down         |-> enabled /\ content.queue[Len(content.queue)] # w,
              instructions |-> IF detail = w THEN w ELSE Nobody,
              text         |-> IF w # Nobody /\ detail # w /\ message = ""
                               THEN "detail" ELSE message]

(* The destination found in the newest snapshot, and whether it is free.   *)
Found(place) == \E i \in DOMAIN content.destinations :
                    content.destinations[i].place = place

Free(place) == \E i \in DOMAIN content.destinations :
                   content.destinations[i] = [place |-> place, available |-> TRUE]

(* ManualTransportPolicy::Evaluate.                                        *)
Allowed(w, place) ==
    /\ Authorized /\ content.manual /\ content.live
    /\ w \in content.movable
    /\ Free(place)
    /\ ~HasRunningOperationFor(w)

TransportView(w, place, last) ==
    LET options == content.rack \cap ElementsOf(content.queue)
    IN  [workpieces   |-> options,
         destinations |-> content.destinations,
         workpiece    |-> IF w \in options THEN w ELSE Nobody,
         destination  |-> place,
         enabled      |-> /\ IsMachineModelSafe
                          /\ w # Nobody /\ place # Nowhere
                          /\ Allowed(w, place),
         text         |-> IF version = 0 THEN "synchronizing" ELSE last]

ViewOf(s, w, place, last) ==
    CASE s = "rack"      -> RackView(w)
      [] s = "queue"     -> QueueView(w, last["queue"])
      [] s = "transport" -> TransportView(w, place, last["transport"])
-----------------------------------------------------------------------------
(* What the views display before they are first drawn.                     *)
Blank ==
    [rack      |-> [slots |-> {}, enabled |-> FALSE, down |-> {}],
     queue     |-> EmptyQueue("synchronizing"),
     transport |-> [workpieces |-> {}, destinations |-> << >>,
                    workpiece |-> Nobody, destination |-> Nowhere,
                    enabled |-> FALSE, text |-> "synchronizing"]]

NoContent ==
    [queue |-> << >>, valid |-> TRUE, rack |-> {}, movable |-> {},
     destinations |-> << >>, live |-> FALSE, error |-> FALSE, manual |-> FALSE]

Init ==
    /\ version = 0 /\ content = NoContent /\ detail = Nobody
    /\ session = "Unresolved"
    /\ operations = << >> /\ completed = << >>
    /\ messages = {}
    /\ screen = "rack" /\ selected = Nobody /\ destination = Nowhere
    /\ requested = {}
    /\ lastMessage = [s \in Submitters |-> ""]
    /\ view = Blank
    /\ todo = << >>
-----------------------------------------------------------------------------
(* The monitoring thread changes what is shared, then posts.  The message  *)
(* may be handled at any later time, so that the two are one step; so are  *)
(* the two of the worker below.                                            *)
PublishSnapshot ==
    /\ version < Len(Contents)
    /\ version' = version + 1
    /\ content' \in Contents[version']
    /\ detail' \in {detail} \cup requested
    /\ messages' = messages \cup {"snapshot"}
    /\ UNCHANGED <<session, operationVars, uiState, lastMessage, view, todo>>

ChangeSession ==
    /\ session' = IF session = "Unresolved" THEN "Resolved" ELSE "MismatchLatched"
    /\ session' # session
    /\ messages' = messages \cup {"model"}
    /\ UNCHANGED <<version, content, detail, operationVars, uiState, lastMessage,
                   view, todo>>

(* The operation worker: one operation after the other.  Its result is     *)
(* recorded, its id put in the sink's list and a message posted.           *)
CompleteOperation ==
    /\ \E i \in DOMAIN operations :
          /\ operations[i].phase = "Running"
          /\ \A j \in 1 .. (i - 1) : operations[j].phase # "Running"
          /\ \E phase \in {"Succeeded", "Failed"} :
                operations' = [operations EXCEPT ![i].phase = phase]
          /\ completed' = Append(completed, i)
    /\ messages' = messages \cup {"completed"}
    /\ UNCHANGED <<storeVars, uiState, lastMessage, view, todo>>
-----------------------------------------------------------------------------
(* The UI thread between two messages or inputs.                           *)
UiIdle == todo = << >>

Call(s) == [screen |-> s, id |-> 0]

(* Slip: the screen shown is not drawn again.                              *)
SlipActivate(s) ==
    /\ UiIdle
    /\ screen' = s
    /\ view' = [Blank EXCEPT ![s] = view[s]]
    /\ UNCHANGED <<storeVars, operationVars, messages, selected, destination,
                   requested, lastMessage, todo>>

(* CAppShellView::Activate through ScreenRouter: shown, then drawn.        *)
Activate(s) ==
    /\ UiIdle
    /\ screen' = s
    /\ view' = [Blank EXCEPT ![s] = view[s]]
    /\ todo' = <<Call(s)>>
    /\ UNCHANGED <<storeVars, operationVars, messages, selected, destination,
                   requested, lastMessage>>

(* Slip: the queue and the transport screen are not told.                  *)
SlipOnSnapshotChanged ==
    /\ UiIdle
    /\ "snapshot" \in messages
    /\ messages' = messages \ {"snapshot"}
    /\ todo' = <<Call("rack")>>
    /\ UNCHANGED <<storeVars, operationVars, uiState, lastMessage, view>>

(* The handlers of the posted messages.                                    *)
OnSnapshotChanged ==
    /\ UiIdle
    /\ "snapshot" \in messages
    /\ messages' = messages \ {"snapshot"}
    /\ todo' = <<Call("rack"), Call("queue"), Call("transport")>>
    /\ UNCHANGED <<storeVars, operationVars, uiState, lastMessage, view>>

OnMachineModelStateChanged ==
    /\ UiIdle
    /\ "model" \in messages
    /\ messages' = messages \ {"model"}
    /\ todo' = <<Call("queue"), Call("transport")>>
    /\ UNCHANGED <<storeVars, operationVars, uiState, lastMessage, view>>

OnOperationCompleted ==
    /\ UiIdle
    /\ "completed" \in messages
    /\ messages' = messages \ {"completed"}
    /\ completed' = << >>
    /\ todo' = [k \in 1 .. 2 * Len(completed) |->
                   [screen |-> IF k % 2 = 1 THEN "queue" ELSE "transport",
                    id |-> completed[(k + 1) \div 2]]]
    /\ UNCHANGED <<storeVars, operations, uiState, lastMessage, view>>

KindOf(s) == IF s = "queue" THEN "PriorityChange" ELSE "ManualTransport"

(* Slip: a failure is not worth a word.                                    *)
SlipMessageAfter(call) ==
    IF call.id # 0 /\ operations[call.id].kind = KindOf(call.screen)
                   /\ operations[call.id].phase = "Succeeded"
    THEN [lastMessage EXCEPT ![call.screen] = "done"]
    ELSE lastMessage

(* OnOperationCompleted of the two presenters, before they draw.           *)
MessageAfter(call) ==
    IF call.id # 0 /\ operations[call.id].kind = KindOf(call.screen)
    THEN [lastMessage EXCEPT ![call.screen] =
             IF operations[call.id].phase = "Succeeded" THEN "done" ELSE "failed"]
    ELSE lastMessage

(* A presenter draws.  A selection that is not in the newest snapshot is   *)
(* dropped, except where the queue was refused.  A request for its detail  *)
(* is not taken back: RequestWorkpieceDetail ignores that nothing is       *)
(* selected.                                                               *)
Draw ==
    /\ ~UiIdle
    /\ LET call    == Head(todo)
           s       == call.screen
           drops   == /\ version # 0 /\ selected # Nobody /\ ~Listed(selected)
                      /\ s = "queue" => content.valid
           forgets == /\ version # 0 /\ s = "transport" /\ ~Found(destination)
       IN  /\ lastMessage' = MessageAfter(call)
           /\ selected' = IF drops THEN Nobody ELSE selected
           /\ destination' = IF forgets THEN Nowhere ELSE destination
           /\ view' = IF s # screen THEN view
                      ELSE [view EXCEPT ![s] =
                              ViewOf(s, selected', destination', lastMessage')]
    /\ todo' = Tail(todo)
    /\ UNCHANGED <<storeVars, operationVars, messages, screen, requested>>
-----------------------------------------------------------------------------
(* Input on the visible screen.  What a control shows is changed by the    *)
(* click itself, before the presenter hears of it.                         *)

(* CVisualRackView::OnSlotClicked: the button goes down or up, and the     *)
(* presenter takes the workpiece if the newest snapshot lets it.           *)
ClickSlot(w) ==
    /\ UiIdle /\ screen = "rack"
    /\ view.rack.enabled /\ w \in view.rack.slots
    /\ view' = [view EXCEPT !.rack.down = (@ \ {w}) \cup ({w} \ @)]
    /\ IF version # 0 /\ IsInteractive /\ Listed(w)
       THEN /\ selected' = w /\ requested' = requested \cup {w}
            /\ todo' = <<Call("rack")>>
       ELSE UNCHANGED <<selected, requested, todo>>
    /\ UNCHANGED <<storeVars, operationVars, messages, screen, destination,
                   lastMessage>>

(* CMachiningQueueView::OnQueueSelectionChanged, for a row that becomes    *)
(* highlighted.  That another one no longer is, is ignored.                *)
ClickRow(w) ==
    /\ UiIdle /\ screen = "queue"
    /\ view.queue.enabled /\ w \in ElementsOf(view.queue.rows)
    /\ view.queue.selected # w
    /\ view' = [view EXCEPT !.queue.selected = w]
    /\ IF version # 0 /\ Listed(w)
       THEN /\ selected' = w /\ requested' = requested \cup {w}
            /\ todo' = <<Call("queue")>>
       ELSE UNCHANGED <<selected, requested, todo>>
    /\ UNCHANGED <<storeVars, operationVars, messages, screen, destination,
                   lastMessage>>

(* The list highlights at most one row, and a click beside the rows or a   *)
(* click on the row with Ctrl leaves none.  OnQueueSelectionChanged        *)
(* returns early: the selection and the buttons stay, nothing is drawn.    *)
DeselectRow ==
    /\ UiIdle /\ screen = "queue"
    /\ view.queue.enabled /\ view.queue.selected # Nobody
    /\ view' = [view EXCEPT !.queue.selected = Nobody]
    /\ UNCHANGED <<storeVars, operationVars, messages, uiState, lastMessage,
                   todo>>

(* CManualTransportView::OnWorkpieceChanged: taken as it is, and no detail *)
(* is asked for.                                                           *)
ChooseWorkpiece(w) ==
    /\ UiIdle /\ screen = "transport"
    /\ w \in view.transport.workpieces
    /\ view' = [view EXCEPT !.transport.workpiece = w]
    /\ selected' = w
    /\ todo' = <<Call("transport")>>
    /\ UNCHANGED <<storeVars, operationVars, messages, screen, destination,
                   requested, lastMessage>>

(* OnDestinationChanged: the position in the list displayed is looked up   *)
(* in the newest snapshot.                                                 *)
ChooseDestination(i) ==
    /\ UiIdle /\ screen = "transport"
    /\ i \in DOMAIN view.transport.destinations
    /\ view' = [view EXCEPT !.transport.destination =
                   view.transport.destinations[i].place]
    /\ IF version # 0 /\ i \in DOMAIN content.destinations
       THEN /\ destination' = content.destinations[i].place
            /\ todo' = <<Call("transport")>>
       ELSE UNCHANGED <<destination, todo>>
    /\ UNCHANGED <<storeVars, operationVars, messages, screen, selected, requested,
                   lastMessage>>

(* OperationExecutor::Submit with the task of a presenter.                 *)
SubmitOperation(s, place) ==
    operations' = Append(operations,
        [kind |-> KindOf(s), workpiece |-> selected, place |-> place,
         phase |-> "Running"])

(* Slip: the screen is left as it was.                                     *)
SlipSubmit(s, complete, place) ==
    /\ UiIdle /\ screen = s
    /\ Len(operations) < MaxOperations
    /\ IF IsMachineModelSafe /\ complete
       THEN /\ SubmitOperation(s, place)
            /\ lastMessage' = [lastMessage EXCEPT ![s] = "busy"]
       ELSE /\ lastMessage' = [lastMessage EXCEPT ![s] = "denied"]
            /\ UNCHANGED operations
    /\ UNCHANGED <<storeVars, completed, messages, uiState, view, todo>>

(* SubmitMove and Submit: the model and the selection are looked at again, *)
(* not what else enabled the button.                                       *)
Submit(s, complete, place) ==
    /\ UiIdle /\ screen = s
    /\ Len(operations) < MaxOperations
    /\ IF IsMachineModelSafe /\ complete
       THEN /\ SubmitOperation(s, place)
            /\ lastMessage' = [lastMessage EXCEPT ![s] = "busy"]
       ELSE /\ lastMessage' = [lastMessage EXCEPT ![s] = "denied"]
            /\ UNCHANGED operations
    /\ todo' = <<Call(s)>>
    /\ UNCHANGED <<storeVars, completed, messages, uiState, view>>

PressMove ==
    /\ view.queue.up \/ view.queue.down
    /\ Submit("queue", version # 0 /\ selected # Nobody, Nowhere)

PressTransport ==
    /\ view.transport.enabled
    /\ Submit("transport",
              version # 0 /\ selected # Nobody /\ destination # Nowhere,
              destination)
-----------------------------------------------------------------------------
(* Nothing has to happen; a bounded model ends where all bounds are used.  *)
Next ==
    \/ PublishSnapshot \/ ChangeSession \/ CompleteOperation
    \/ \E s \in ScreenIds : Activate(s)
    \/ OnSnapshotChanged \/ OnMachineModelStateChanged \/ OnOperationCompleted
    \/ Draw
    \/ \E w \in Workpieces : ClickSlot(w) \/ ClickRow(w) \/ ChooseWorkpiece(w)
    \/ DeselectRow
    \/ \E i \in DOMAIN view.transport.destinations : ChooseDestination(i)
    \/ PressMove \/ PressTransport

Spec == Init /\ [][Next]_vars
-----------------------------------------------------------------------------
(* Nothing is on its way to the UI thread, which has nothing left to draw. *)
AtRest == UiIdle /\ messages = {}

(* What the controls of a screen may show of what was drawn: the operator  *)
(* can take the highlighting of the queue away, and only that.             *)
MayShow(s, drawn) ==
    {drawn} \cup
    IF s = "queue" THEN {[drawn EXCEPT !.selected = Nobody]} ELSE {}

(* Whatever was clicked, ignored, overtaken or drawn half before and half  *)
(* after a change: at rest the visible screen shows what its presenter     *)
(* would draw now, buttons and highlighting included; only a row of the    *)
(* queue may have lost its highlighting (AppShellView.cpp 294-346,         *)
(* 421-443, the presenters' BuildViewModel and MachiningQueueView.cpp      *)
(* 168-171).                                                               *)
VisibleScreenIsCurrent ==
    AtRest => view[screen]
                \in MayShow(screen, ViewOf(screen, selected, destination, lastMessage))

(* From the screens nobody gets two operations on their way for one        *)
(* workpiece, although Submit does not look for one that is running and    *)
(* each of two screens has its own button (MachiningQueuePresenter.cpp     *)
(* 248-249, ManualTransportPresenter.cpp 383-386).                         *)
OneOperationPerWorkpiece ==
    \A i, j \in DOMAIN operations :
        /\ operations[i].phase = "Running" /\ operations[j].phase = "Running"
        /\ operations[i].workpiece = operations[j].workpiece
        => i = j

(* An operation is never about anything else than the operator sees        *)
(* highlighted, as long as no snapshot is on its way to the screen: a      *)
(* click that came too late leaves nothing behind that differs from the    *)
(* shared selection.  When the highlighting of the queue was taken away,   *)
(* Up and Down are still about the workpiece selected before, and the      *)
(* instructions displayed are not another's (MachiningQueuePresenter.cpp   *)
(* 152-174, ManualTransportPresenter.cpp 215-257).                         *)
SubmitsNothingElse ==
    [][Len(operations') > Len(operations) /\ "snapshot" \notin messages =>
          LET new == operations'[Len(operations')]
          IN  IF new.kind = "PriorityChange"
              THEN /\ view.queue.selected \in {new.workpiece, Nobody}
                   /\ view.queue.instructions \in {new.workpiece, Nobody}
              ELSE /\ new.workpiece = view.transport.workpiece
                   /\ new.place = view.transport.destination]_vars

(* "Being changed" or "being carried out" is said only while an operation  *)
(* of the kind is running or its end is still to be told.                  *)
BusyTextIsTrue ==
    \A s \in Submitters : lastMessage[s] = "busy" =>
        \E i \in DOMAIN operations :
            /\ operations[i].kind = KindOf(s)
            /\ \/ operations[i].phase = "Running"
               \/ i \in ElementsOf(completed)
               \/ \E k \in DOMAIN todo : todo[k] = [screen |-> s, id |-> i]

(* docs/.../2026-07-25-machine-model-specific-tool-identifier-json-        *)
(* implementation-status.md 156-161: while the machine model is not        *)
(* certain, selecting goes on in the machining queue; only Up and Down are *)
(* disabled.                                                               *)
QueueStaysSelectable ==
    AtRest /\ screen = "queue" /\ ~IsMachineModelSafe /\ view.queue.rows # << >>
        => view.queue.enabled
=============================================================================
