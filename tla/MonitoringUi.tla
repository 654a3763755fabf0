---------------------------- MODULE MonitoringUi -----------------------------
(***************************************************************************)
(* Monitoring with the UI thread.  The notification sinks post window      *)
(* messages; on a message the status bar is redrawn from the store and the *)
(* session, and the screens drop a selection that is no longer in the      *)
(* snapshot.  Selecting a workpiece asks for its detail.  The UI thread is *)
(* also the lifecycle controller: while it waits in Stop it handles no     *)
(* message, and afterwards nothing is bound.                               *)
(***************************************************************************)
EXTENDS Monitoring

CONSTANT PostMayFail   \* may PostMessage fail (full message queue)?

ASSUME UiAssumption == PostMayFail \in BOOLEAN

VARIABLES
    snapshotMail,  \* WM_APP_SNAPSHOT_CHANGED messages not handled yet
    modelMail,     \* WM_APP_MACHINE_MODEL_CHANGED messages not handled yet
    shown,         \* what the status bar displays
    selection,     \* UiStateStore::selectedWorkpiece_
    detailMissed,  \* history: a detail read failed since the last selection
    delivered      \* history: did the last PostMessage succeed?

screenVars == <<shown, selection>>
uiVars     == <<snapshotMail, modelMail, screenVars, detailMissed, delivered>>
allVars    == <<vars, uiVars>>

UiInit ==
    /\ Init
    /\ snapshotMail = 0 /\ modelMail = 0
    /\ shown = [snapshot |-> Nothing, session |-> "Unresolved", profile |-> NoModel]
    /\ selection = NoWorkpiece
    /\ detailMissed = FALSE
    /\ delivered = TRUE

(* PostMessage: delivered to the message queue, or refused when it is full.*)
PostOutcome == delivered' \in (IF PostMayFail THEN BOOLEAN ELSE {TRUE})
Post(mail)  == IF delivered' THEN mail + 1 ELSE mail
-----------------------------------------------------------------------------
(* Steps the UI thread takes no part in.                                   *)
Background ==
    /\ \/ Elapse \/ ChangeMachine
       \/ MonitorDue \/ MonitorExit \/ MonitorRead \/ MonitorObserve
       \/ MonitorPublish
    /\ UNCHANGED uiVars

AcceptReply ==
    /\ MonitorAccept
    /\ detailMissed' = (detailMissed \/
                          (Head(requests).class = "OnDemand" /\ Failed(reply)))
    /\ UNCHANGED <<snapshotMail, modelMail, screenVars, delivered>>

(* Slip: SendMessage waits for the UI thread.                              *)
SlipSendSnapshotChanged ==
    /\ controller = "running"
    /\ MonitorNotify
    /\ snapshotMail' = snapshotMail + 1
    /\ UNCHANGED <<modelMail, screenVars, detailMissed, delivered>>

(* SnapshotMessageSink and MachineModelStateMessageSink.                   *)
PostSnapshotChanged ==
    /\ MonitorNotify
    /\ PostOutcome
    /\ snapshotMail' = Post(snapshotMail)
    /\ UNCHANGED <<modelMail, screenVars, detailMissed>>

PostModelChanged ==
    /\ MonitorReport
    /\ PostOutcome
    /\ modelMail' = Post(modelMail)
    /\ UNCHANGED <<snapshotMail, screenVars, detailMissed>>
-----------------------------------------------------------------------------
(* The status bar is drawn from what is newest, whatever the message.      *)
RedrawStatus ==
    shown' = [snapshot |-> store, session |-> session, profile |-> profile]

(* The presenters of the screens drop a selection that is gone.  A message *)
(* about the model leaves the rack alone, but the queue and the transport  *)
(* screen hear of both kinds.  They then ask for the detail of nothing,    *)
(* which RequestWorkpieceDetail ignores.                                   *)
DropSelection ==
    selection' = IF store # Nothing /\ selection \notin store.standard
                 THEN NoWorkpiece ELSE selection

OnSnapshotChanged ==
    /\ controller = "running" /\ snapshotMail > 0
    /\ snapshotMail' = snapshotMail - 1
    /\ RedrawStatus /\ DropSelection
    /\ UNCHANGED <<vars, modelMail, detailMissed, delivered>>

OnMachineModelStateChanged ==
    /\ controller = "running" /\ modelMail > 0
    /\ modelMail' = modelMail - 1
    /\ RedrawStatus /\ DropSelection
    /\ UNCHANGED <<vars, snapshotMail, detailMissed, delivered>>

(* MachiningQueuePresenter::SelectWorkpiece.                               *)
SelectWorkpiece(w) ==
    /\ RequestDetail(w)
    /\ selection' = w
    /\ detailMissed' = FALSE
    /\ UNCHANGED <<snapshotMail, modelMail, shown, delivered>>

Lifecycle == (Start \/ Stop \/ Join) /\ UNCHANGED uiVars

UiRest == Rest /\ UNCHANGED uiVars

UiNext ==
    \/ Background
    \/ AcceptReply \/ PostSnapshotChanged \/ PostModelChanged
    \/ OnSnapshotChanged \/ OnMachineModelStateChanged
    \/ \E w \in Workpieces : SelectWorkpiece(w)
    \/ Lifecycle
    \/ UiRest

(* Steps of the monitoring thread.                                         *)
Monitors ==
    \/ (MonitorDue \/ MonitorExit \/ MonitorRead \/ MonitorObserve
          \/ MonitorPublish) /\ UNCHANGED uiVars
    \/ AcceptReply \/ PostSnapshotChanged \/ PostModelChanged

(* Time passes, the monitoring thread runs, the message loop handles what  *)
(* was posted, and the application starts.  Nobody has to select a         *)
(* workpiece, to change the machine or to close the window.                *)
Fairness ==
    /\ WF_allVars(Elapse /\ UNCHANGED uiVars)
    /\ WF_allVars(Monitors)
    /\ WF_allVars(OnSnapshotChanged)
    /\ WF_allVars(OnMachineModelStateChanged)
    /\ WF_allVars((Start \/ Join) /\ UNCHANGED uiVars)

UiSpec     == UiInit /\ [][UiNext]_allVars
FairUiSpec == UiSpec /\ Fairness
-----------------------------------------------------------------------------
(* The status bar and the selection agree with the store and the session.  *)
ScreensCurrent ==
    /\ shown = [snapshot |-> store, session |-> session, profile |-> profile]
    /\ store # Nothing => selection \in store.standard \cup {NoWorkpiece}

(* The store and the session agree with the machine.                       *)
StoreCurrent ==
    /\ (\A c \in Periodic : machine.link[c] = "up") =>
          /\ store # Nothing
          /\ store.health = machine.health /\ store.standard = machine.present
          /\ store.freshness.state = "Fresh"
    /\ (\E c \in Periodic : machine.link[c] # "up") =>
          store = Nothing \/ store.freshness.state # "Fresh"
    /\ machine.model \in Models =>
          /\ session # "Unresolved"
          /\ profile # machine.model => session = "MismatchLatched"

(* When the machine no longer changes, monitoring catches up with it and   *)
(* so do the screens: no read that failed, no result that was skipped as   *)
(* unchanged and no message that was overtaken leaves an old value, an old *)
(* freshness or an old machine model on display for good.  Messages that   *)
(* were lost are made up for by any that comes after them; only a loss of  *)
(* the very last one leaves the screens behind (SnapshotMessageSink 10-27).*)
UiConverges ==
    <>[](controller = "running" =>
            StoreCurrent /\ (delivered => ScreensCurrent))

(* The workpiece selected last gets its detail, whatever was selected      *)
(* before it and is still being read, unless its read fails                *)
(* (RequestOnDemand 68-76, Due 37-45).                                     *)
SelectionIsDetailed ==
    \A w \in Workpieces :
        selection = w ~> \/ selection # w
                         \/ store.detail = w
                         \/ detailMissed
                         \/ controller # "running"

(* MonitoringWorker::Stop returns: the tick it waits for ends, although    *)
(* the UI thread handles none of the messages it posts meanwhile.          *)
MonitoringStops == controller = "joining" ~> controller = "stopped"
=============================================================================
