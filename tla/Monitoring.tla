----------------------------- MODULE Monitoring ------------------------------
(***************************************************************************)
(* The monitoring thread (MonitoringWorker), which runs                    *)
(* MonitoringCoordinator::Tick over and over: it asks the plan what is     *)
(* due, reads one class after the other, observes the machine model with   *)
(* every Standard read, assembles and publishes to the                     *)
(* MachineSnapshotStore, and tells the two notification sinks.  Another    *)
(* thread, the lifecycle controller, starts and stops it and asks for      *)
(* workpiece details.                                                      *)
(***************************************************************************)
EXTENDS MachineModelSession, MonitoringPlan, MachineSnapshotAssembler

CONSTANTS
    Healths,      \* what a Critical read may report
    Replies,      \* what the machine model provider may answer
    MaxTime,      \* bound: the clock value at which `now` stops counting
    MaxChanges,   \* bound: how often the machine changes
    MaxSelects    \* bound: how often a detail is asked for

(* Errors of reads: NotFound for a detail, and Timeout for any failure of  *)
(* the connection that a reader may report.                                *)
ReadErrors == {"Timeout", "NotFound"}

Freshnesses ==
    [state: {"Fresh"}, lastSuccessfulRead: 0 .. MaxTime, lastError: {"none"}]
    \cup [state: {"Stale", "Unavailable"}, lastSuccessfulRead: 0 .. MaxTime,
          lastError: ReadErrors \cup {"none", "Unavailable"}]

Snapshots ==
    [version: Nat \ {0}, health: Healths, standard: SUBSET Workpieces,
     detail: Workpieces \cup {NoWorkpiece}, freshness: Freshnesses]

(* What a read of a class may return.                                      *)
ValuesOf(c) == CASE c = "Critical" -> Healths
                 [] c = "Standard" -> SUBSET Workpieces
                 [] c = "OnDemand" -> Workpieces
GoodReads(c) == [value: ValuesOf(c), freshness: Freshnesses]
BadReads     == [error: ReadErrors]
Reads(c)     == GoodReads(c) \cup BadReads

ASSUME MonitoringAssumption ==
    /\ MaxTime \in Nat /\ MaxChanges \in Nat /\ MaxSelects \in Nat
    /\ Replies \subseteq Answers
    /\ Nothing = NoWorkpiece
    /\ Nothing \notin Healths \cup Freshnesses
    /\ \A present \in SUBSET Workpieces : present # Nothing
    /\ Nothing \notin Snapshots
    /\ \A c \in Classes : Nothing \notin Reads(c)

VARIABLES
    now,            \* IClock::Now
    machine,        \* the machine behind IMachineStateReader and the provider
    changes,        \* how often it has changed
    monitor,        \* where the monitoring thread is in its loop
    requests,       \* what is left of the requests of this tick
    reply,          \* the result of the read in hand
    store,          \* MachineSnapshotStore::latest_
    stopRequested,
    controller,     \* where the lifecycle controller is
    selects,        \* how many details have been asked for
    lastReply,      \* history: the last reply taken in, per periodic class
    lastGood        \* history: the last good one

worldVars   == <<now, machine, changes>>
tickVars    == <<requests, reply>>
controlVars == <<stopRequested, controller, selects>>
historyVars == <<lastReply, lastGood>>
vars == <<sessionVars, planVars, assemblerVars, worldVars, monitor, tickVars,
          store, controlVars, historyVars>>

(* "up": the read succeeds with fresh data.  "held": the machine side is   *)
(* disconnected, and a read returns old values that say so (the Fake's     *)
(* disconnected frames).  "down": the read itself fails.  `at' is when the *)
(* frame came, or the last good one before it: a read hands that time out  *)
(* as it is, and does not ask the clock.                                   *)
Links(c) == IF c = "OnDemand" THEN {"up", "down"} ELSE {"up", "held", "down"}

Machines ==
    [health: Healths, present: SUBSET Workpieces, model: Replies,
     link: [Classes -> {"up", "held", "down"}], at: 0 .. MaxTime]

Init ==
    /\ SessionInit /\ PlanInit /\ AssemblerInit
    /\ now = 0
    /\ machine \in [health: Healths, present: {Workpieces}, model: Replies,
                    link: {[c \in Classes |-> "up"]}, at: {0}]
    /\ changes = 0
    /\ monitor = "absent"
    /\ requests = << >>
    /\ reply = Nothing
    /\ store = Nothing
    /\ stopRequested = FALSE
    /\ controller = "starting"
    /\ selects = 0
    /\ lastReply = [c \in Periodic |-> Nothing]
    /\ lastGood = [c \in Periodic |-> Nothing]
-----------------------------------------------------------------------------
(* The world.  Time passes and the machine changes only where the code may *)
(* see it, before a tick, a read or an observation: a step of the world at *)
(* any other place could be taken there with the same effect.              *)
Elapse ==
    /\ monitor \in {"idle", "reading"}
    /\ PlanElapse
    /\ now' = IF now < MaxTime THEN now + 1 ELSE now
    /\ UNCHANGED <<sessionVars, assemblerVars, machine, changes, monitor,
                   tickVars, store, controlVars, historyVars>>

(* A good frame bears its time, one without connection that of the last    *)
(* good one.                                                               *)
Stamped(m) ==
    [m EXCEPT !.at = IF \E c \in Classes : m.link[c] = "held" THEN @ ELSE now]

(* The next frame.  It may differ from the one before in its time only.    *)
ChangeMachine ==
    /\ monitor \in {"idle", "reading", "observing"}
    /\ changes < MaxChanges
    /\ changes' = changes + 1
    /\ \/ \E h \in Healths : machine' = Stamped([machine EXCEPT !.health = h])
       \/ \E p \in SUBSET Workpieces :
             machine' = Stamped([machine EXCEPT !.present = p])
       \/ \E a \in Replies : machine' = Stamped([machine EXCEPT !.model = a])
       \/ \E c \in Classes : \E l \in Links(c) :
             machine' = Stamped([machine EXCEPT !.link[c] = l])
    /\ machine' # machine
    /\ UNCHANGED <<sessionVars, planVars, assemblerVars, now, monitor, tickVars,
                   store, controlVars, historyVars>>

(* IMachineStateReader::Read as the Fake gateway answers it.               *)
Answer(request) ==
    LET c == request.class
        value == CASE c = "Critical" -> machine.health
                   [] c = "Standard" -> machine.present
                   [] c = "OnDemand" -> request.workpiece
    IN  CASE machine.link[c] = "down" -> [error |-> "Timeout"]
          [] c = "OnDemand" /\ value \notin machine.present ->
                [error |-> "NotFound"]
          [] machine.link[c] = "held" ->
                [value |-> value,
                 freshness |-> Freshness("Stale", machine.at, "Unavailable")]
          [] OTHER ->
                [value |-> value,
                 freshness |-> Freshness("Fresh", machine.at, "none")]

Failed(r) == "error" \in DOMAIN r
-----------------------------------------------------------------------------
(* The monitoring thread.  A tick that finds nothing due changes nothing.  *)
MonitorDue ==
    /\ monitor = "idle" /\ ~stopRequested
    /\ DueRequests # << >>
    /\ Due
    /\ requests' = DueRequests
    /\ monitor' = "reading"
    /\ UNCHANGED <<sessionVars, assemblerVars, worldVars, reply, store,
                   controlVars, historyVars>>

MonitorExit ==
    /\ monitor = "idle" /\ stopRequested
    /\ monitor' = "exited"
    /\ UNCHANGED <<sessionVars, planVars, assemblerVars, worldVars, tickVars,
                   store, controlVars, historyVars>>

MonitorRead ==
    /\ monitor = "reading"
    /\ reply' = Answer(Head(requests))
    /\ monitor' = IF Head(requests).class = "Standard" THEN "observing"
                                                       ELSE "accepting"
    /\ UNCHANGED <<sessionVars, planVars, assemblerVars, worldVars, requests,
                   store, controlVars, historyVars>>

(* ObserveMachineModel: the session first, then its notification sink.     *)
MonitorObserve ==
    /\ monitor = "observing"
    /\ Observe(machine.model)
    /\ monitor' = IF Reports(machine.model) THEN "reporting" ELSE "accepting"
    /\ UNCHANGED <<planVars, assemblerVars, worldVars, tickVars, store,
                   controlVars, historyVars>>

MonitorReport ==
    /\ monitor = "reporting"
    /\ monitor' = "accepting"
    /\ UNCHANGED <<sessionVars, planVars, assemblerVars, worldVars, tickVars,
                   store, controlVars, historyVars>>

(* The tick goes on with the request after the one in hand.                *)
NextRequest ==
    /\ requests' = Tail(requests)
    /\ monitor' = IF Len(requests) > 1 THEN "reading" ELSE "idle"

(* The assembler takes the result in and the plan releases the class,      *)
(* whether the read succeeded or failed.                                   *)
MonitorAccept ==
    LET c == Head(requests).class IN
    /\ monitor = "accepting"
    /\ IF Failed(reply) THEN AcceptFailure(c, reply.error)
                        ELSE AcceptSuccess(c, reply.value, reply.freshness)
    /\ MarkComplete(c)
    /\ IF current' = current
       THEN NextRequest
       ELSE monitor' = "publishing" /\ UNCHANGED requests
    /\ reply' = Nothing
    /\ lastReply' = IF c \in Periodic THEN [lastReply EXCEPT ![c] = reply]
                                      ELSE lastReply
    /\ lastGood'  = IF c \in Periodic /\ ~Failed(reply)
                    THEN [lastGood EXCEPT ![c] = reply] ELSE lastGood
    /\ UNCHANGED <<sessionVars, worldVars, store, controlVars>>

(* MachineSnapshotStore::Publish: a version that is not newer is refused,  *)
(* and then Tick returns at once.                                          *)
MonitorPublish ==
    /\ monitor = "publishing"
    /\ IF store # Nothing /\ current.version <= store.version
       THEN /\ requests' = << >>
            /\ monitor' = "idle"
            /\ UNCHANGED store
       ELSE /\ store' = current
            /\ monitor' = "notifying"
            /\ UNCHANGED requests
    /\ UNCHANGED <<sessionVars, planVars, assemblerVars, worldVars, reply,
                   controlVars, historyVars>>

MonitorNotify ==
    /\ monitor = "notifying"
    /\ NextRequest
    /\ UNCHANGED <<sessionVars, planVars, assemblerVars, worldVars, reply,
                   store, controlVars, historyVars>>
-----------------------------------------------------------------------------
(* MonitoringWorker::Start: called once the presenters are bound.          *)
Start ==
    /\ controller = "starting"
    /\ controller' = "running"
    /\ monitor' = "idle"
    /\ stopRequested' = FALSE
    /\ UNCHANGED <<sessionVars, planVars, assemblerVars, worldVars, tickVars,
                   store, selects, historyVars>>

(* RequestWorkpieceDetail for a workpiece a screen has offered.  A request *)
(* without a workpiece changes nothing.                                    *)
RequestDetail(w) ==
    /\ controller = "running" /\ selects < MaxSelects
    /\ store # Nothing /\ w \in store.standard
    /\ RequestOnDemand(w)
    /\ selects' = selects + 1
    /\ UNCHANGED <<sessionVars, assemblerVars, worldVars, monitor, tickVars,
                   store, stopRequested, controller, historyVars>>

(* MonitoringWorker::Stop: the flag, then the join.                        *)
Stop ==
    /\ controller = "running"
    /\ controller' = "joining"
    /\ stopRequested' = TRUE
    /\ UNCHANGED <<sessionVars, planVars, assemblerVars, worldVars, monitor,
                   tickVars, store, selects, historyVars>>

Join ==
    /\ controller = "joining" /\ monitor = "exited"
    /\ controller' = "stopped"
    /\ UNCHANGED <<sessionVars, planVars, assemblerVars, worldVars, monitor,
                   tickVars, store, stopRequested, selects, historyVars>>

(* Nothing moves any more once the monitoring thread is joined.            *)
Rest == controller = "stopped" /\ UNCHANGED vars

Next ==
    \/ Elapse \/ ChangeMachine
    \/ MonitorDue \/ MonitorExit \/ MonitorRead \/ MonitorObserve
    \/ MonitorReport \/ MonitorAccept \/ MonitorPublish \/ MonitorNotify
    \/ Start \/ Stop \/ Join
    \/ \E w \in Workpieces : RequestDetail(w)
    \/ Rest

Spec == Init /\ [][Next]_vars
-----------------------------------------------------------------------------
TypeOK ==
    /\ SessionTypeOK /\ PlanTypeOK
    /\ machine \in Machines /\ changes \in 0 .. MaxChanges
    /\ now \in 0 .. MaxTime
    /\ monitor \in {"absent", "idle", "reading", "observing", "reporting",
                    "accepting", "publishing", "notifying", "exited"}
    /\ monitor \in {"absent", "idle", "exited"} <=> requests = << >>
    /\ controller \in {"starting", "running", "joining", "stopped"}
    /\ selects \in 0 .. MaxSelects

(* A class is in flight exactly while its request belongs to the running   *)
(* tick and has not been taken in, so neither a failed read nor one that   *)
(* changes nothing can stop a class for good, and no class is read twice   *)
(* at a time (Due 12-48, Tick 48-78).                                      *)
InFlightIsRunning ==
    LET first == IF monitor \in {"publishing", "notifying"} THEN 2 ELSE 1 IN
        inFlight = {requests[k].class : k \in first .. Len(requests)}

(* What the screens can read is what the last reads said.  Nothing is      *)
(* published before both periodic classes have been read successfully;     *)
(* from then on the store holds the last good values, is fresh only if the *)
(* last reads of both classes were, and otherwise states the time of the   *)
(* older of the last good reads, never that of a failed one.  The only     *)
(* exception is the step between assembling and publishing (AcceptSuccess  *)
(* 41-82, AcceptFailure 84-122, Publish 117-136).                          *)
PublishedIsLatest ==
    monitor # "publishing" =>
        IF \E c \in Periodic : lastGood[c] = Nothing
        THEN store = Nothing
        ELSE /\ store # Nothing
             /\ store.health = lastGood["Critical"].value
             /\ store.standard = lastGood["Standard"].value
             /\ store.freshness.state = "Fresh" <=>
                   \A c \in Periodic : ~Failed(lastReply[c])
                                       /\ lastReply[c].freshness.state = "Fresh"
             /\ store.freshness.state # "Fresh" =>
                   LET at == {lastGood[c].freshness.lastSuccessfulRead : c \in Periodic}
                   IN  /\ store.freshness.lastSuccessfulRead \in at
                       /\ \A t \in at : store.freshness.lastSuccessfulRead <= t

(* Every publication is news and is numbered: versions count 1, 2, 3, ...  *)
(* and two consecutive ones differ in something a screen shows; the time   *)
(* of a fresh read alone is none (TryAssemble 131-196, Store 5-40).        *)
EveryVersionIsNews ==
    [][store' # store =>
          IF store = Nothing THEN store'.version = 1
          ELSE /\ store'.version = store.version + 1
               /\ \/ <<store'.health, store'.standard, store'.detail>>
                       # <<store.health, store.standard, store.detail>>
                  \/ /\ store'.freshness # store.freshness
                     /\ store'.freshness.state # "Fresh" \/ store.freshness.state # "Fresh"]_vars
=============================================================================
