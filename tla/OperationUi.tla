---------------------------- MODULE OperationUi -----------------------------
(***************************************************************************)
(* The operation pipeline as the application wires it: the UI thread is    *)
(* the only client of the OperationExecutor and its lifecycle controller,  *)
(* the worker reports a finished operation through                         *)
(* OperationCompletionMessageSink (a mutex-protected list of ids plus a    *)
(* posted window message), and the shell window drains the list, lets the  *)
(* presenters look the results up and refreshes the operation overlay,     *)
(* which it also refreshes on a timer.                                     *)
(*                                                                         *)
(* The UI thread does one thing at a time: while it is inside Submit or    *)
(* blocked in Stop it handles no message and no timer.  (Slip...: see      *)
(* OperationExecutor.)                                                     *)
(***************************************************************************)
EXTENDS OperationExecutor

CONSTANTS
    UiThread,      \* the one client of the executor
    OverlayDelay,  \* kOverlayDelay, in clock ticks
    MaxTime        \* bound on the clock

ASSUME UiAssumption ==
    /\ Clients = {UiThread}
    /\ OverlayDelay \in Nat
    /\ MaxTime \in Nat

VARIABLES
    now,        \* IClock::Now
    startedAt,  \* OperationStateStore: when each operation was accepted
    completed,  \* the sink's completed_: ids not drained yet
    pushed,     \* the worker is between push_back and PostMessage
    mailbox,    \* WM_APP_OPERATION_COMPLETED messages not handled yet
    overlay,    \* operationOverlayVisible_; the screens are disabled under it
    presented,  \* history: the ids given to the presenters, in order
    postFailed  \* history: has a PostMessage failed (full message queue)?

historyVars == <<presented, postFailed>>
uiVars  == <<now, startedAt, completed, pushed, mailbox, overlay, historyVars>>
allVars == <<vars, uiVars>>

(* Services stay bound to the shell until Impl::Stop has joined the worker.*)
Bound == controller # "returned"

(* The UI thread is back in its message loop.                              *)
UiFree == lock = Free /\ controller # "joining"

(* Slip: the delay must be exceeded.                                       *)
SlipOverlayLate ==
    \E i \in OperationIds :
        phase[i] = "Running" /\ now - startedAt[i] > OverlayDelay

(* OperationStateStore::ShouldShowOverlay.                                 *)
ShouldShowOverlay ==
    \E i \in OperationIds :
        phase[i] = "Running" /\ now - startedAt[i] >= OverlayDelay

(* Slip: the overlay is only ever shown.                                   *)
SlipOverlayStays == overlay' = (overlay \/ (Bound /\ ShouldShowOverlay))

(* RefreshOperationOverlay: hidden when the services are not bound.        *)
RefreshOverlay == overlay' = (Bound /\ ShouldShowOverlay)

UiInit ==
    /\ Init
    /\ now = 0
    /\ startedAt = [i \in OperationIds |-> 0]
    /\ completed = << >>
    /\ pushed = FALSE
    /\ mailbox = 0
    /\ overlay = FALSE
    /\ presented = << >>
    /\ postFailed = FALSE
-----------------------------------------------------------------------------
(* A presenter submits from an input handler: the screens are disabled     *)
(* under the overlay, and no presenter is bound after Stop.                *)
UiSubmitRecord ==
    /\ UiFree /\ Bound /\ ~overlay
    /\ SubmitRecord(UiThread)
    /\ startedAt' = [startedAt EXCEPT ![nextId] = now]
    /\ UNCHANGED <<now, completed, pushed, mailbox, overlay, historyVars>>

UiSubmitEnqueue ==
    /\ SubmitEnqueue(UiThread)
    /\ UNCHANGED uiVars

(* CMainFrame::OnClose: the frame can be closed under the overlay too.     *)
UiStopRequest ==
    /\ UiFree
    /\ StopRequest
    /\ UNCHANGED uiVars

(* The join returns and Impl::Stop unbinds the services and destroys the   *)
(* sink; ids that were not drained are dropped with it.                    *)
UiStopJoin ==
    /\ StopJoin
    /\ completed' = << >>
    /\ overlay' = FALSE
    /\ UNCHANGED <<now, startedAt, pushed, mailbox, historyVars>>

(* Slip: the list is copied and not emptied.                               *)
SlipDrainCopies ==
    /\ UiFree
    /\ mailbox > 0
    /\ mailbox' = mailbox - 1
    /\ presented' = IF Bound THEN presented \o completed ELSE presented
    /\ RefreshOverlay
    /\ UNCHANGED <<vars, now, startedAt, completed, pushed, postFailed>>

(* OnOperationCompleted: drain the whole list, present every id, refresh.  *)
HandleCompleted ==
    /\ UiFree
    /\ mailbox > 0
    /\ mailbox' = mailbox - 1
    /\ presented' = IF Bound THEN presented \o completed ELSE presented
    /\ completed' = << >>
    /\ RefreshOverlay
    /\ UNCHANGED <<vars, now, startedAt, pushed, postFailed>>

(* WM_TIMER every 50 ms while the services are bound.                      *)
OverlayTimer ==
    /\ UiFree /\ Bound
    /\ RefreshOverlay
    /\ UNCHANGED <<vars, now, startedAt, completed, pushed, mailbox, historyVars>>
-----------------------------------------------------------------------------
(* Steps of the worker that the sink does not see; its task is one that    *)
(* takes its time.                                                         *)
WorkerRuns ==
    /\ WorkerSleep \/ WorkerTake \/ WorkerExit
    /\ UNCHANGED uiVars

TaskEnds ==
    /\ \E outcome \in Outcomes : WorkerComplete(outcome)
    /\ UNCHANGED uiVars

SpuriousWake == WorkerSpuriousWake /\ UNCHANGED uiVars

(* Slip: the sink has room for one id.                                     *)
SlipPushOverwrites ==
    /\ worker = "notifying" /\ ~pushed
    /\ completed' = <<current>>
    /\ pushed' = TRUE
    /\ UNCHANGED <<vars, now, startedAt, mailbox, overlay, historyVars>>

(* Sink, first half: keep the id before any message can ask for it.        *)
SinkPush ==
    /\ worker = "notifying" /\ ~pushed
    /\ completed' = Append(completed, current)
    /\ pushed' = TRUE
    /\ UNCHANGED <<vars, now, startedAt, mailbox, overlay, historyVars>>

(* Sink, second half: PostMessage does not wait for the window; when it    *)
(* fails the id stays in the list for a later message.                     *)
SinkPost ==
    /\ pushed
    /\ WorkerNotify
    /\ pushed' = FALSE
    /\ \E delivered \in BOOLEAN :
          /\ mailbox' = IF delivered THEN mailbox + 1 ELSE mailbox
          /\ postFailed' = (postFailed \/ ~delivered)
    /\ UNCHANGED <<now, startedAt, completed, overlay, presented>>

Tick ==
    /\ now < MaxTime
    /\ now' = now + 1
    /\ UNCHANGED <<vars, startedAt, completed, pushed, mailbox, overlay, historyVars>>

WorkerThread == WorkerRuns \/ SinkPush \/ SinkPost

UiNext ==
    \/ UiSubmitRecord \/ UiSubmitEnqueue
    \/ UiStopRequest \/ UiStopJoin
    \/ HandleCompleted \/ OverlayTimer
    \/ WorkerThread \/ TaskEnds
    \/ SpuriousWake
    \/ Tick

(* As for the executor; the message loop also handles posted messages and  *)
(* the timer while it is running.  Nothing makes a task end: the code      *)
(* gives it no deadline.                                                   *)
UiFairness ==
    /\ WF_allVars(WorkerThread)
    /\ WF_allVars(UiSubmitEnqueue)
    /\ WF_allVars(UiStopJoin)
    /\ WF_allVars(HandleCompleted)
    /\ WF_allVars(OverlayTimer)

UiSpec     == UiInit /\ [][UiNext]_allVars
FairUiSpec == UiSpec /\ UiFairness
-----------------------------------------------------------------------------
InSeq(i, seq) == \E k \in 1 .. Len(seq) : seq[k] = i

(* Presenters see every finished operation at most once and in acceptance  *)
(* order, through lost and surplus messages alike: what was presented,     *)
(* followed by what waits in the sink, is 1, 2, 3, ... and stops where the *)
(* worker is (OperationCompletionMessageSink 11-41).                       *)
PresentedOnceInOrder ==
    LET seen == presented \o completed IN
        \A k \in 1 .. Len(seen) : seen[k] = k

(* A presenter that is called finds the end of the operation in the store, *)
(* never a Running record.                                                 *)
PresentedHaveEnded ==
    \A k \in 1 .. Len(presented) : phase[presented[k]] \in Terminal

(* However long its task takes, an operation that has been running for the *)
(* delay gets covered by the overlay, unless it ends or the window closes  *)
(* first (ShouldShowOverlay 105-117, OnTimer 267-280).                     *)
OverlayAppears ==
    \A i \in OperationIds :
        (phase[i] = "Running" /\ now - startedAt[i] >= OverlayDelay)
            ~> (overlay \/ phase[i] \in Terminal \/ controller # "idle")

(* The overlay, which locks the screens, always goes away again, whatever  *)
(* becomes of the completion messages, unless a task never ends.           *)
OverlayGoesAway ==
    []<>(worker # "running") => (overlay ~> ~overlay)

(* Every operation that ends is presented, unless the window is closed     *)
(* first or a PostMessage fails.                                           *)
EveryEndIsPresented ==
    \A i \in OperationIds :
        phase[i] \in Terminal
            ~> (InSeq(i, presented) \/ controller # "idle" \/ postFailed)
=============================================================================
