---------------------------- MODULE ScreensProofs ----------------------------
(***************************************************************************)
(* Proofs about Screens, for any workpieces, places and contents of the    *)
(* snapshots.  The argument: a change of what a screen shows either is     *)
(* followed by a message or leaves a call of the presenter in todo; and a  *)
(* presenter that drops the selection is, on a screen that has nothing     *)
(* left to draw, one that had no reason to.                                *)
(***************************************************************************)
EXTENDS Screens, TLAPS

Operation ==
    [kind : {"PriorityChange", "ManualTransport"},
     workpiece : Workpieces \cup {Nobody},
     place : Places \cup {Nowhere},
     phase : {"Running", "Succeeded", "Failed"}]

Texts == {"", "busy", "denied", "done", "failed"}

(* What the proofs need to know of the view of the queue.                  *)
QueueFields == {"rows", "selected", "up", "down", "instructions"}

ScreensTypes ==
    /\ version \in Nat
    /\ content \in Content
    /\ operations \in Seq(Operation)
    /\ completed \in Seq(Nat)
    /\ screen \in ScreenIds
    /\ selected \in Workpieces \cup {Nobody}
    /\ destination \in Places \cup {Nowhere}
    /\ lastMessage \in [Submitters -> Texts]
    /\ todo \in Seq([screen : ScreenIds, id : Nat])
    /\ DOMAIN view = ScreenIds
    /\ QueueFields \subseteq DOMAIN view["queue"]
    /\ "enabled" \in DOMAIN view["transport"]

(* The handler the UI thread is in will call the presenter of s.           *)
Pending(s) == \E k \in DOMAIN todo : todo[k].screen = s

(* The selection can be found, or a presenter that drops it is coming.     *)
SelectionKept ==
    \/ "snapshot" \in messages
    \/ Pending("rack")
    \/ screen = "transport" /\ Pending("transport")
    \/ version = 0 \/ selected = Nobody \/ Listed(selected)

(* The presenter of the rack is called first, and alone only if visible.   *)
RackFirst ==
    \A k \in DOMAIN todo : todo[k].screen = "rack" =>
        /\ k = 1
        /\ screen # "rack" => Pending(screen)

(* Nothing is on its way that could change what s shows.                   *)
Quiet(s) ==
    /\ "snapshot" \notin messages
    /\ s # "rack" => "model" \notin messages /\ "completed" \notin messages
    /\ ~Pending(s)

VisibleIsCurrent ==
    Quiet(screen) =>
        view[screen]
            \in MayShow(screen, ViewOf(screen, selected, destination, lastMessage))

(* Which buttons may be enabled, and for whom.                             *)
MayMove     == view["queue"].up \/ view["queue"].down
MayTransport == view["transport"].enabled

FreeToSubmit == selected = Nobody \/ ~HasRunningOperationFor(selected)

ButtonsFit ==
    /\ MayMove => screen = "queue" /\ (Pending("queue") \/ FreeToSubmit)
    /\ MayTransport =>
          screen = "transport" /\ (Pending("transport") \/ FreeToSubmit)

(* Where an operation can be submitted from, nothing else is highlighted   *)
(* than what it would be about.  This holds also while the model or a completion is  *)
(* still to be handled.                                                    *)
HighlightFits ==
    "snapshot" \notin messages =>
        /\ screen = "queue" /\ ~Pending("queue") =>
              /\ view["queue"].rows \in {<< >>, content.queue}
              /\ MayMove =>
                    /\ view["queue"].selected \in {selected, Nobody}
                    /\ view["queue"].instructions \in {selected, Nobody}
        /\ screen = "transport" /\ ~Pending("transport") =>
              /\ view["transport"].destinations = content.destinations
              /\ MayTransport =>
                    /\ view["transport"].workpiece = selected
                    /\ view["transport"].destination = destination

(* Before the first snapshot there is nothing to show, and a message about *)
(* completions finds some.                                                 *)
StoreFits ==
    /\ version = 0 => content = NoContent
    /\ MovableIsOnRack(content)
    /\ "completed" \in messages => completed # << >>

IInv ==
    /\ ScreensTypes
    /\ StoreFits
    /\ SelectionKept
    /\ RackFirst
    /\ VisibleIsCurrent
    /\ ButtonsFit
    /\ HighlightFits
    /\ OneOperationPerWorkpiece
    /\ BusyTextIsTrue

(* What a step does to the calls that are left.                            *)
LEMMA PendingSame ==
    ASSUME todo' = todo, NEW t
    PROVE  Pending(t)' <=> Pending(t)
BY DEF Pending

(* When one call is left, only its presenter is still to be called.        *)
LEMMA PendingOne ==
    ASSUME NEW s, NEW t, todo' = <<Call(s)>>
    PROVE  Pending(t)' <=> t = s
BY DEF Pending, Call

(* At rest none is.                                                        *)
LEMMA PendingNone == UiIdle => \A t : ~Pending(t)
BY DEF Pending, UiIdle

(* The head of a sequence is one of its elements.                          *)
LEMMA HeadTyped ==
    ASSUME NEW S, NEW q \in Seq(S), q # << >>
    PROVE  Head(q) \in S
OBVIOUS

(* A presenter still to be called is the first or among the rest.          *)
LEMMA PendingTail ==
    ASSUME todo \in Seq([screen : ScreenIds, id : Nat]), todo # << >>,
           todo' = Tail(todo), NEW t
    PROVE  Pending(t) <=> Head(todo).screen = t \/ Pending(t)'
<1>1. /\ Len(todo) \in Nat \ {0} /\ Len(todo') = Len(todo) - 1
      /\ DOMAIN todo = 1 .. Len(todo) /\ DOMAIN todo' = 1 .. Len(todo')
      /\ Head(todo) = todo[1]
      /\ \A k \in 1 .. Len(todo') : todo'[k] = todo[k + 1]
  OBVIOUS
<1>2. ASSUME Pending(t) PROVE Head(todo).screen = t \/ Pending(t)'
  <2>1. PICK k \in 1 .. Len(todo) : todo[k].screen = t
    BY <1>1, <1>2 DEF Pending
  <2>2. CASE k # 1
    <3>1. k - 1 \in 1 .. Len(todo') /\ todo'[k - 1] = todo[k]
      BY <1>1, <2>2
    <3> QED BY <1>1, <2>1, <3>1 DEF Pending
  <2> QED BY <1>1, <2>1, <2>2
<1>3. ASSUME Pending(t)' PROVE Pending(t)
  <2>1. PICK k \in 1 .. Len(todo') : todo'[k].screen = t
    BY <1>1, <1>3 DEF Pending
  <2>2. k + 1 \in 1 .. Len(todo) /\ todo'[k] = todo[k + 1]
    BY <1>1
  <2> QED BY <1>1, <2>1, <2>2 DEF Pending
<1>4. ASSUME Head(todo).screen = t PROVE Pending(t)
  BY <1>1, <1>4 DEF Pending
<1> QED BY <1>2, <1>3, <1>4

(* What a screen shows depends on no more than this.                       *)
LEMMA ViewStays ==
    ASSUME screen \in ScreenIds,
           UNCHANGED <<screen, version, content, detail, selected>>,
           screen # "rack" => UNCHANGED <<session, operations>>,
           screen = "queue" => lastMessage'["queue"] = lastMessage["queue"],
           screen = "transport" =>
               /\ lastMessage'["transport"] = lastMessage["transport"]
               /\ destination' = destination
    PROVE  ViewOf(screen, selected, destination, lastMessage)'
               = ViewOf(screen, selected, destination, lastMessage)
<1>1. CASE screen = "rack"
  BY <1>1 DEF ViewOf, RackView, IsInteractive, ElementsOf
<1>2. CASE screen = "queue"
  BY <1>2
     DEF ViewOf, QueueView, EmptyQueue, IsInteractive, IsMachineModelSafe,
              HasRunningOperationFor
<1>3. CASE screen = "transport"
  BY <1>3 DEF ViewOf, TransportView, Allowed, Free, IsMachineModelSafe,
              HasRunningOperationFor, ElementsOf
<1> QED BY <1>1, <1>2, <1>3 DEF ScreenIds

(* What Draw computes is what the screen shows then.                       *)
LEMMA ViewNow ==
    ASSUME screen \in ScreenIds,
           UNCHANGED <<screen, version, content, detail, session, operations>>
    PROVE  ViewOf(screen, selected', destination', lastMessage')
               = ViewOf(screen, selected, destination, lastMessage)'
<1>1. CASE screen = "rack"
  BY <1>1 DEF ViewOf, RackView, IsInteractive, ElementsOf
<1>2. CASE screen = "queue"
  BY <1>2
     DEF ViewOf, QueueView, EmptyQueue, IsInteractive, IsMachineModelSafe,
              HasRunningOperationFor
<1>3. CASE screen = "transport"
  BY <1>3 DEF ViewOf, TransportView, Allowed, Free, IsMachineModelSafe,
              HasRunningOperationFor, ElementsOf
<1> QED BY <1>1, <1>2, <1>3 DEF ScreenIds

(* The calls the handlers leave.                                           *)
LEMMA CallsTyped ==
    LET Calls == [screen : ScreenIds, id : Nat] IN
    /\ << >> \in Seq(Calls)
    /\ \A s \in ScreenIds : <<Call(s)>> \in Seq(Calls)
    /\ <<Call("queue"), Call("transport")>> \in Seq(Calls)
    /\ <<Call("rack"), Call("queue"), Call("transport")>> \in Seq(Calls)
BY DEF ScreenIds, Call

(* What a button does to the operations and to what is said of them.       *)
SubmitStep(s, place) ==
    /\ todo = << >> /\ completed' = completed
    /\ \/ /\ SubmitOperation(s, place)
          /\ lastMessage' = [lastMessage EXCEPT ![s] = "busy"]
       \/ /\ UNCHANGED operations
          /\ lastMessage' = [lastMessage EXCEPT ![s] = "denied"]

(* A press keeps the types of the operations and of the messages.          *)
LEMMA SubmitTyped ==
    ASSUME IInv, NEW s \in Submitters, NEW place \in Places \cup {Nowhere},
           SubmitStep(s, place)
    PROVE  operations' \in Seq(Operation) /\ lastMessage' \in [Submitters -> Texts]
<1>1. operations \in Seq(Operation) /\ lastMessage \in [Submitters -> Texts]
      /\ selected \in Workpieces \cup {Nobody}
  BY DEF IInv, ScreensTypes
<1>2. [kind |-> KindOf(s), workpiece |-> selected, place |-> place,
       phase |-> "Running"] \in Operation
  BY <1>1 DEF Operation, KindOf
<1>3. lastMessage' \in [Submitters -> Texts]
  BY <1>1 DEF SubmitStep, Texts
<1>4. operations' \in Seq(Operation)
  BY <1>1, <1>2 DEF SubmitStep, SubmitOperation
<1> QED BY <1>3, <1>4

(* A press for a workpiece that is free keeps what is said of operations.  *)
LEMMA SubmitKeeps ==
    ASSUME IInv, NEW s \in Submitters, NEW place \in Places \cup {Nowhere},
           SubmitStep(s, place),
           UNCHANGED operations \/ (FreeToSubmit /\ selected # Nobody)
    PROVE  OneOperationPerWorkpiece' /\ BusyTextIsTrue'
<1> DEFINE new == [kind |-> KindOf(s), workpiece |-> selected, place |-> place,
                   phase |-> "Running"]
<1>1. /\ operations \in Seq(Operation) /\ lastMessage \in [Submitters -> Texts]
      /\ Len(operations) \in Nat /\ todo = << >> /\ completed' = completed
  BY DEF IInv, ScreensTypes, SubmitStep
<1>2. CASE UNCHANGED operations /\ lastMessage' = [lastMessage EXCEPT ![s] = "denied"]
  <2>1. OneOperationPerWorkpiece'
    BY <1>2 DEF IInv, OneOperationPerWorkpiece
  <2>2. ASSUME NEW t \in Submitters, lastMessage'[t] = "busy"
        PROVE  lastMessage[t] = "busy"
    BY <1>1, <1>2, <2>2
  <2>3. BusyTextIsTrue'
    BY <1>1, <1>2, <2>2 DEF IInv, BusyTextIsTrue, ElementsOf, KindOf
  <2> QED BY <2>1, <2>3
<1>3. CASE operations' = Append(operations, new)
  <2>1. /\ DOMAIN operations = 1 .. Len(operations)
        /\ DOMAIN operations' = 1 .. Len(operations) + 1
        /\ \A i \in 1 .. Len(operations) : operations'[i] = operations[i]
        /\ operations'[Len(operations) + 1] = new
    BY <1>1, <1>3
  <2>2. FreeToSubmit /\ selected # Nobody
    <3>1. operations' # operations
      BY <1>1, <2>1
    <3> QED BY <3>1
  <2>3. OneOperationPerWorkpiece'
    BY <1>1, <2>1, <2>2
       DEF IInv, OneOperationPerWorkpiece, FreeToSubmit, HasRunningOperationFor
  <2>4. BusyTextIsTrue'
    <3> SUFFICES ASSUME NEW t \in Submitters, lastMessage'[t] = "busy"
                 PROVE  \E i \in DOMAIN operations' :
                          /\ operations'[i].kind = KindOf(t)
                          /\ \/ operations'[i].phase = "Running"
                             \/ i \in ElementsOf(completed)
      BY <1>1 DEF BusyTextIsTrue, ElementsOf, KindOf
    <3>1. CASE t = s
      BY <1>1, <2>1, <3>1
    <3>2. CASE t # s
      <4>1. lastMessage[t] = "busy"
        BY <1>1, <3>2 DEF SubmitStep
      <4>2. PICK i \in DOMAIN operations :
               /\ operations[i].kind = KindOf(t)
               /\ operations[i].phase = "Running" \/ i \in ElementsOf(completed)
        BY <1>1, <4>1 DEF IInv, BusyTextIsTrue
      <4> QED BY <1>1, <2>1, <4>2
    <3> QED BY <3>1, <3>2
  <2> QED BY <2>3, <2>4
<1> QED BY <1>2, <1>3 DEF SubmitStep, SubmitOperation

(* Every step keeps the types.                                             *)
LEMMA TypesKeep ==
    ASSUME IInv, [Next]_vars
    PROVE  ScreensTypes'
<1>1. CASE PublishSnapshot
  <2>1. version' \in 1 .. Len(Contents) /\ content' \in Contents[version']
    BY <1>1 DEF PublishSnapshot, IInv, ScreensTypes
  <2>2. Contents[version'] \subseteq Content
    BY <2>1, ScreensAssumption
  <2>3. version' \in Nat /\ content' \in Content
    BY <2>1, <2>2, ScreensAssumption
  <2> QED BY <1>1, <2>3
             DEF PublishSnapshot, operationVars, uiState, IInv, ScreensTypes
<1>2. CASE ChangeSession
  BY <1>2, CallsTyped, ScreensAssumption
     DEF ChangeSession, storeVars, operationVars, uiState, IInv,
         ScreensTypes, ScreenIds, Submitters, Texts
<1>3. CASE CompleteOperation
  <2>1. PICK i \in DOMAIN operations :
          /\ \E phase \in {"Succeeded", "Failed"} :
                operations' = [operations EXCEPT ![i].phase = phase]
          /\ completed' = Append(completed, i)
    BY <1>3 DEF CompleteOperation
  <2>2. /\ operations \in Seq(Operation) /\ completed \in Seq(Nat)
        /\ i \in 1 .. Len(operations) /\ i \in Nat /\ operations[i] \in Operation
    BY <2>1 DEF IInv, ScreensTypes
  <2>3. completed' \in Seq(Nat)
    BY <2>1, <2>2
  <2>4. \A phase \in {"Succeeded", "Failed"} :
            [operations[i] EXCEPT !.phase = phase] \in Operation
    BY <2>2 DEF Operation
  <2>5. operations' \in Seq(Operation)
    <3>1. PICK phase \in {"Succeeded", "Failed"} :
             operations' = [operations EXCEPT ![i].phase = phase]
      BY <2>1
    <3> DEFINE ended == [operations[i] EXCEPT !.phase = phase]
    <3>2. operations' = [operations EXCEPT ![i] = ended]
      BY <3>1
    <3>3. ended \in Operation
      BY <2>4
    <3> HIDE DEF ended
    <3> QED BY <2>2, <3>2, <3>3
  <2> QED BY <1>3, <2>3, <2>5
             DEF CompleteOperation, storeVars, uiState, IInv, ScreensTypes
<1>4. ASSUME NEW s \in ScreenIds, Activate(s)
      PROVE  ScreensTypes'
  <2>1. /\ DOMAIN view' = ScreenIds
        /\ QueueFields \subseteq DOMAIN view'["queue"]
        /\ "enabled" \in DOMAIN view'["transport"]
    BY <1>4
       DEF Activate, Blank, EmptyQueue, IInv, ScreensTypes, ScreenIds,
           QueueFields
  <2> QED BY <1>4, <2>1, CallsTyped
          DEF Activate, storeVars, operationVars, IInv, ScreensTypes
<1>5. CASE OnSnapshotChanged
  BY <1>5, CallsTyped, ScreensAssumption
     DEF OnSnapshotChanged, storeVars, operationVars, uiState, IInv,
         ScreensTypes, ScreenIds, Submitters, Texts
<1>6. CASE OnMachineModelStateChanged
  BY <1>6, CallsTyped, ScreensAssumption
     DEF OnMachineModelStateChanged, storeVars, operationVars, uiState, IInv,
         ScreensTypes, ScreenIds, Submitters, Texts
<1>7. CASE OnOperationCompleted
  <2>1. todo' \in Seq([screen : ScreenIds, id : Nat])
    <3>1. completed \in Seq(Nat) /\ Len(completed) \in Nat
      BY DEF IInv, ScreensTypes
    <3>2. \A k \in 1 .. 2 * Len(completed) :
             (k + 1) \div 2 \in 1 .. Len(completed)
      BY <3>1
    <3>3. \A k \in 1 .. 2 * Len(completed) :
             completed[(k + 1) \div 2] \in Nat
      BY <3>1, <3>2
    <3> QED BY <1>7, <3>1, <3>3 DEF OnOperationCompleted, ScreenIds
  <2>2. completed' \in Seq(Nat)
    BY <1>7 DEF OnOperationCompleted
  <2> QED BY <1>7, <2>1, <2>2
             DEF OnOperationCompleted, storeVars, uiState, IInv, ScreensTypes
<1>8. CASE Draw
  <2>1. todo' \in Seq([screen : ScreenIds, id : Nat])
    BY <1>8 DEF Draw, UiIdle, IInv, ScreensTypes
  <2>2. lastMessage' \in [Submitters -> Texts]
    BY <1>8 DEF Draw, MessageAfter, Texts, IInv, ScreensTypes
  <2>3. /\ selected' \in Workpieces \cup {Nobody}
        /\ destination' \in Places \cup {Nowhere}
    BY <1>8 DEF Draw, IInv, ScreensTypes
  <2>4. /\ DOMAIN view' = ScreenIds
        /\ QueueFields \subseteq DOMAIN view'["queue"]
        /\ "enabled" \in DOMAIN view'["transport"]
    BY <1>8
       DEF Draw, IInv, ScreensTypes, ScreenIds, ViewOf, QueueView,
           EmptyQueue, TransportView, QueueFields
  <2> QED BY <1>8, <2>1, <2>2, <2>3, <2>4
          DEF Draw, storeVars, operationVars, IInv, ScreensTypes
<1>9. ASSUME NEW w \in Workpieces, ClickSlot(w)
      PROVE  ScreensTypes'
  <2>1. /\ DOMAIN view' = ScreenIds
        /\ QueueFields \subseteq DOMAIN view'["queue"]
        /\ "enabled" \in DOMAIN view'["transport"]
    BY <1>9 DEF ClickSlot, IInv, ScreensTypes, ScreenIds
  <2>2. todo' \in Seq([screen : ScreenIds, id : Nat])
    BY <1>9, CallsTyped DEF ClickSlot, IInv, ScreensTypes, ScreenIds
  <2>3. /\ selected' \in Workpieces \cup {Nobody}
        /\ destination' \in Places \cup {Nowhere}
    BY <1>9 DEF ClickSlot, IInv, ScreensTypes
  <2> QED BY <1>9, <2>1, <2>2, <2>3
          DEF ClickSlot, storeVars, operationVars, IInv, ScreensTypes
<1>10. ASSUME NEW w \in Workpieces, ClickRow(w)
      PROVE  ScreensTypes'
  <2>1. /\ DOMAIN view' = ScreenIds
        /\ QueueFields \subseteq DOMAIN view'["queue"]
        /\ "enabled" \in DOMAIN view'["transport"]
    BY <1>10 DEF ClickRow, IInv, ScreensTypes, ScreenIds
  <2>2. todo' \in Seq([screen : ScreenIds, id : Nat])
    BY <1>10, CallsTyped DEF ClickRow, IInv, ScreensTypes, ScreenIds
  <2>3. /\ selected' \in Workpieces \cup {Nobody}
        /\ destination' \in Places \cup {Nowhere}
    BY <1>10 DEF ClickRow, IInv, ScreensTypes
  <2> QED BY <1>10, <2>1, <2>2, <2>3
          DEF ClickRow, storeVars, operationVars, IInv, ScreensTypes
<1>11. ASSUME NEW w \in Workpieces, ChooseWorkpiece(w)
      PROVE  ScreensTypes'
  <2>1. /\ DOMAIN view' = ScreenIds
        /\ QueueFields \subseteq DOMAIN view'["queue"]
        /\ "enabled" \in DOMAIN view'["transport"]
    BY <1>11 DEF ChooseWorkpiece, IInv, ScreensTypes, ScreenIds
  <2>2. todo' \in Seq([screen : ScreenIds, id : Nat])
    BY <1>11, CallsTyped DEF ChooseWorkpiece, IInv, ScreensTypes, ScreenIds
  <2>3. /\ selected' \in Workpieces \cup {Nobody}
        /\ destination' \in Places \cup {Nowhere}
    BY <1>11 DEF ChooseWorkpiece, IInv, ScreensTypes
  <2> QED BY <1>11, <2>1, <2>2, <2>3
          DEF ChooseWorkpiece, storeVars, operationVars, IInv, ScreensTypes
<1>12. ASSUME NEW i \in DOMAIN view.transport.destinations, ChooseDestination(i)
      PROVE  ScreensTypes'
  <2>1. /\ DOMAIN view' = ScreenIds
        /\ QueueFields \subseteq DOMAIN view'["queue"]
        /\ "enabled" \in DOMAIN view'["transport"]
    BY <1>12 DEF ChooseDestination, IInv, ScreensTypes, ScreenIds
  <2>2. todo' \in Seq([screen : ScreenIds, id : Nat])
    BY <1>12, CallsTyped DEF ChooseDestination, IInv, ScreensTypes, ScreenIds
  <2>3. /\ selected' \in Workpieces \cup {Nobody}
        /\ destination' \in Places \cup {Nowhere}
    <3>1. content.destinations \in Seq([place : Places, available : BOOLEAN])
      BY DEF IInv, ScreensTypes, Content
    <3>2. i \in DOMAIN content.destinations =>
             content.destinations[i] \in [place : Places, available : BOOLEAN]
      <4>1. ASSUME NEW S, NEW d \in Seq(S), i \in DOMAIN d
            PROVE  d[i] \in S
        BY <4>1
      <4> QED BY <3>1, <4>1
    <3> QED BY <1>12, <3>2 DEF ChooseDestination, IInv, ScreensTypes
  <2> QED BY <1>12, <2>1, <2>2, <2>3
          DEF ChooseDestination, storeVars, operationVars, IInv, ScreensTypes
<1>13. CASE PressMove
  <2>1. SubmitStep("queue", Nowhere)
    BY <1>13 DEF PressMove, Submit, SubmitStep, UiIdle
  <2>2. Nowhere \in Places \cup {Nowhere}
    BY DEF IInv, ScreensTypes
  <2>3. operations' \in Seq(Operation) /\ lastMessage' \in [Submitters -> Texts]
    BY <2>1, <2>2, SubmitTyped DEF Submitters
  <2> QED BY <1>13, <2>3, CallsTyped
          DEF PressMove, Submit, storeVars, uiState, IInv, ScreensTypes, ScreenIds
<1>14. CASE PressTransport
  <2>1. SubmitStep("transport", destination)
    BY <1>14 DEF PressTransport, Submit, SubmitStep, UiIdle
  <2>2. destination \in Places \cup {Nowhere}
    BY DEF IInv, ScreensTypes
  <2>3. operations' \in Seq(Operation) /\ lastMessage' \in [Submitters -> Texts]
    BY <2>1, <2>2, SubmitTyped DEF Submitters
  <2> QED BY <1>14, <2>3, CallsTyped
          DEF PressTransport, Submit, storeVars, uiState, IInv, ScreensTypes, ScreenIds
<1>15. CASE DeselectRow
  <2>1. /\ DOMAIN view' = ScreenIds
        /\ QueueFields \subseteq DOMAIN view'["queue"]
        /\ "enabled" \in DOMAIN view'["transport"]
    BY <1>15 DEF DeselectRow, IInv, ScreensTypes, ScreenIds
  <2> QED BY <1>15, <2>1
          DEF DeselectRow, storeVars, operationVars, uiState, IInv, ScreensTypes
<1>16. CASE UNCHANGED vars
  BY <1>16 DEF vars, storeVars, operationVars, uiState, IInv, ScreensTypes
<1> QED BY <1>1, <1>2, <1>3, <1>4, <1>5, <1>6, <1>7, <1>8, <1>9, <1>10,
           <1>11, <1>12, <1>13, <1>14, <1>15, <1>16
           DEF Next

(* Every step keeps the invariant; one step of the proof per action.       *)
LEMMA StepKeeps ==
    ASSUME IInv, [Next]_vars
    PROVE  IInv'
<1>0. ScreensTypes'
  BY TypesKeep
<1>1. CASE PublishSnapshot
  <2>1. StoreFits'
    <3>1. version' \in 1 .. Len(Contents) /\ content' \in Contents[version']
      BY <1>1 DEF PublishSnapshot, IInv, ScreensTypes
    <3>2. MovableIsOnRack(content')
      BY <3>1, ScreensAssumption
    <3> QED BY <1>1, <3>1, <3>2
            DEF PublishSnapshot, operationVars, IInv, StoreFits, MovableIsOnRack
  <2>2. SelectionKept'
    BY <1>1, PendingSame
       DEF PublishSnapshot, storeVars, operationVars, uiState, IInv,
           ScreensTypes, ScreenIds, UiIdle, SelectionKept, Listed
  <2>3. RackFirst'
    BY <1>1, PendingSame
       DEF PublishSnapshot, storeVars, operationVars, uiState, IInv,
           ScreensTypes, ScreenIds, UiIdle, RackFirst
  <2>4. VisibleIsCurrent'
    BY <1>1, PendingSame, ViewStays
       DEF PublishSnapshot, storeVars, operationVars, uiState, IInv,
           ScreensTypes, ScreenIds, UiIdle, VisibleIsCurrent, Quiet
  <2>5. ButtonsFit'
    BY <1>1, PendingSame
       DEF PublishSnapshot, storeVars, operationVars, uiState, IInv,
           ScreensTypes, ScreenIds, UiIdle, ButtonsFit, MayMove,
           MayTransport, FreeToSubmit, HasRunningOperationFor
  <2>6. HighlightFits'
    BY <1>1, PendingSame
       DEF PublishSnapshot, storeVars, operationVars, uiState, IInv,
           ScreensTypes, ScreenIds, UiIdle, HighlightFits, ButtonsFit,
           MayMove, MayTransport
  <2>7. OneOperationPerWorkpiece'
    BY <1>1
       DEF PublishSnapshot, storeVars, operationVars, uiState, IInv,
           ScreensTypes, ScreenIds, OneOperationPerWorkpiece, ButtonsFit,
           MayMove, MayTransport, FreeToSubmit, HasRunningOperationFor
  <2>8. BusyTextIsTrue'
    BY <1>1
       DEF PublishSnapshot, storeVars, operationVars, uiState, IInv,
           ScreensTypes, ScreenIds, UiIdle, BusyTextIsTrue, ElementsOf,
           Submitters
  <2> QED BY <1>0, <2>1, <2>2, <2>3, <2>4, <2>5, <2>6, <2>7, <2>8 DEF IInv
<1>2. CASE ChangeSession
  <2>1. StoreFits'
    BY <1>2
       DEF ChangeSession, storeVars, operationVars, uiState, IInv,
           ScreensTypes, ScreenIds, StoreFits, MovableIsOnRack
  <2>2. SelectionKept'
    BY <1>2, PendingSame
       DEF ChangeSession, storeVars, operationVars, uiState, IInv,
           ScreensTypes, ScreenIds, UiIdle, SelectionKept, Listed
  <2>3. RackFirst'
    BY <1>2, PendingSame
       DEF ChangeSession, storeVars, operationVars, uiState, IInv,
           ScreensTypes, ScreenIds, UiIdle, RackFirst
  <2>4. VisibleIsCurrent'
    BY <1>2, PendingSame, ViewStays
       DEF ChangeSession, storeVars, operationVars, uiState, IInv,
           ScreensTypes, ScreenIds, UiIdle, VisibleIsCurrent, Quiet
  <2>5. ButtonsFit'
    BY <1>2, PendingSame
       DEF ChangeSession, storeVars, operationVars, uiState, IInv,
           ScreensTypes, ScreenIds, UiIdle, ButtonsFit, MayMove,
           MayTransport, FreeToSubmit, HasRunningOperationFor
  <2>6. HighlightFits'
    BY <1>2, PendingSame
       DEF ChangeSession, storeVars, operationVars, uiState, IInv,
           ScreensTypes, ScreenIds, UiIdle, HighlightFits, ButtonsFit,
           MayMove, MayTransport
  <2>7. OneOperationPerWorkpiece'
    BY <1>2
       DEF ChangeSession, storeVars, operationVars, uiState, IInv,
           ScreensTypes, ScreenIds, OneOperationPerWorkpiece, ButtonsFit,
           MayMove, MayTransport, FreeToSubmit, HasRunningOperationFor
  <2>8. BusyTextIsTrue'
    BY <1>2
       DEF ChangeSession, storeVars, operationVars, uiState, IInv,
           ScreensTypes, ScreenIds, UiIdle, BusyTextIsTrue, ElementsOf,
           Submitters
  <2> QED BY <1>0, <2>1, <2>2, <2>3, <2>4, <2>5, <2>6, <2>7, <2>8 DEF IInv
<1>3. CASE CompleteOperation
  <2>1. StoreFits'
    <3>1. completed' # << >>
      <4>1. PICK e \in DOMAIN operations : completed' = Append(completed, e)
        BY <1>3 DEF CompleteOperation
      <4>2. completed \in Seq(Nat) /\ e \in Nat
        BY <4>1 DEF IInv, ScreensTypes
      <4>3. Len(completed') = Len(completed) + 1 /\ Len(completed) \in Nat
        BY <4>1, <4>2
      <4> QED BY <4>3
    <3> QED BY <1>3, <3>1
               DEF CompleteOperation, storeVars, IInv, StoreFits,
                   MovableIsOnRack
  <2>2. SelectionKept'
    BY <1>3, PendingSame
       DEF CompleteOperation, storeVars, operationVars, uiState, IInv,
           ScreensTypes, ScreenIds, UiIdle, SelectionKept, Listed
  <2>3. RackFirst'
    BY <1>3, PendingSame
       DEF CompleteOperation, storeVars, operationVars, uiState, IInv,
           ScreensTypes, ScreenIds, UiIdle, RackFirst
  <2>4. VisibleIsCurrent'
    BY <1>3, PendingSame, ViewStays
       DEF CompleteOperation, storeVars, operationVars, uiState, IInv,
           ScreensTypes, ScreenIds, UiIdle, VisibleIsCurrent, Quiet
  <2>5. ButtonsFit'
    BY <1>3, PendingSame
       DEF CompleteOperation, storeVars, operationVars, uiState, IInv,
           ScreensTypes, ScreenIds, UiIdle, ButtonsFit, MayMove,
           MayTransport, FreeToSubmit, HasRunningOperationFor
  <2>6. HighlightFits'
    BY <1>3, PendingSame
       DEF CompleteOperation, storeVars, operationVars, uiState, IInv,
           ScreensTypes, ScreenIds, UiIdle, HighlightFits, ButtonsFit,
           MayMove, MayTransport
  <2>7. OneOperationPerWorkpiece'
    BY <1>3
       DEF CompleteOperation, storeVars, operationVars, uiState, IInv,
           ScreensTypes, ScreenIds, OneOperationPerWorkpiece, ButtonsFit,
           MayMove, MayTransport, FreeToSubmit, HasRunningOperationFor
  <2>8. BusyTextIsTrue'
    <3>1. PICK e \in DOMAIN operations :
            /\ \E phase \in {"Succeeded", "Failed"} :
                  operations' = [operations EXCEPT ![e].phase = phase]
            /\ completed' = Append(completed, e)
      BY <1>3 DEF CompleteOperation
    <3>2. /\ DOMAIN operations' = DOMAIN operations
          /\ \A i \in DOMAIN operations :
                /\ operations'[i].kind = operations[i].kind
                /\ i # e => operations'[i] = operations[i]
      BY <3>1 DEF IInv, ScreensTypes, Operation
    <3>3. /\ e \in ElementsOf(completed)'
          /\ ElementsOf(completed) \subseteq ElementsOf(completed)'
      <4>1. completed \in Seq(Nat) /\ e \in Nat
        BY DEF IInv, ScreensTypes
      <4>2. /\ Len(completed) \in Nat
            /\ DOMAIN completed = 1 .. Len(completed)
            /\ DOMAIN completed' = 1 .. Len(completed) + 1
            /\ completed'[Len(completed) + 1] = e
            /\ \A k \in 1 .. Len(completed) : completed'[k] = completed[k]
        BY <3>1, <4>1
      <4> QED BY <4>2 DEF ElementsOf
    <3> SUFFICES ASSUME NEW s \in Submitters, lastMessage[s] = "busy"
                 PROVE  \E i \in DOMAIN operations' :
                          /\ operations'[i].kind = KindOf(s)
                          /\ \/ operations'[i].phase = "Running"
                             \/ i \in ElementsOf(completed)'
                             \/ \E k \in DOMAIN todo : todo[k] = [screen |-> s, id |-> i]
      BY <1>3 DEF CompleteOperation, BusyTextIsTrue, KindOf
    <3>4. PICK i \in DOMAIN operations :
             /\ operations[i].kind = KindOf(s)
             /\ \/ operations[i].phase = "Running"
                \/ i \in ElementsOf(completed)
                \/ \E k \in DOMAIN todo : todo[k] = [screen |-> s, id |-> i]
      BY DEF IInv, BusyTextIsTrue
    <3> QED BY <3>2, <3>3, <3>4
  <2> QED BY <1>0, <2>1, <2>2, <2>3, <2>4, <2>5, <2>6, <2>7, <2>8 DEF IInv
<1>4. ASSUME NEW s \in ScreenIds, Activate(s)
      PROVE  IInv'
  <2>1. StoreFits'
    BY <1>4
       DEF Activate, storeVars, operationVars, uiState, IInv, ScreensTypes,
           ScreenIds, StoreFits, MovableIsOnRack
  <2>2. SelectionKept'
    BY <1>4, PendingNone, PendingOne
       DEF Activate, storeVars, operationVars, uiState, IInv, ScreensTypes,
           ScreenIds, UiIdle, SelectionKept, Listed
  <2>3. RackFirst'
    BY <1>4, PendingNone, PendingOne
       DEF Activate, storeVars, operationVars, uiState, IInv, ScreensTypes,
           ScreenIds, UiIdle, RackFirst
  <2>4. VisibleIsCurrent'
    BY <1>4, PendingNone, PendingOne, ViewStays
       DEF Activate, storeVars, operationVars, uiState, IInv, ScreensTypes,
           ScreenIds, UiIdle, VisibleIsCurrent, Quiet
  <2>5. ButtonsFit'
    <3>1. /\ view'["queue"] = IF s = "queue" THEN view["queue"] ELSE Blank["queue"]
          /\ view'["transport"] = IF s = "transport" THEN view["transport"]
                                                     ELSE Blank["transport"]
          /\ screen' = s /\ Pending(s)'
      BY <1>4, PendingOne DEF Activate, Blank
    <3>2. ~Blank["queue"].up /\ ~Blank["queue"].down /\ ~Blank["transport"].enabled
      BY DEF Blank, EmptyQueue
    <3> QED BY <3>1, <3>2 DEF ButtonsFit, MayMove, MayTransport
  <2>6. HighlightFits'
    BY <1>4, PendingNone, PendingOne
       DEF Activate, storeVars, operationVars, uiState, IInv, ScreensTypes,
           ScreenIds, UiIdle, HighlightFits, ButtonsFit, MayMove,
           MayTransport
  <2>7. OneOperationPerWorkpiece'
    BY <1>4
       DEF Activate, storeVars, operationVars, uiState, IInv, ScreensTypes,
           ScreenIds, OneOperationPerWorkpiece, ButtonsFit, MayMove,
           MayTransport, FreeToSubmit, HasRunningOperationFor
  <2>8. BusyTextIsTrue'
    BY <1>4
       DEF Activate, storeVars, operationVars, uiState, IInv, ScreensTypes,
           ScreenIds, UiIdle, BusyTextIsTrue, ElementsOf, Submitters
  <2> QED BY <1>0, <2>1, <2>2, <2>3, <2>4, <2>5, <2>6, <2>7, <2>8 DEF IInv
<1>5. CASE OnSnapshotChanged
  <2>1. StoreFits'
    BY <1>5
       DEF OnSnapshotChanged, storeVars, operationVars, uiState, IInv,
           ScreensTypes, ScreenIds, StoreFits, MovableIsOnRack
  <2>2. SelectionKept'
    <3>1. Pending("rack")' /\ Pending("queue")' /\ Pending("transport")'
      BY <1>5 DEF OnSnapshotChanged, Pending, Call
    <3> QED BY <3>1 DEF SelectionKept
  <2>3. RackFirst'
    <3>1. Pending("rack")' /\ Pending("queue")' /\ Pending("transport")'
      BY <1>5 DEF OnSnapshotChanged, Pending, Call
    <3>2. \A k \in DOMAIN todo' : todo'[k].screen = "rack" => k = 1
      BY <1>5 DEF OnSnapshotChanged, Call
    <3>3. screen' \in ScreenIds
      BY <1>0 DEF ScreensTypes
    <3> QED BY <3>1, <3>2, <3>3 DEF RackFirst, ScreenIds
  <2>4. VisibleIsCurrent'
    <3>1. Pending("rack")' /\ Pending("queue")' /\ Pending("transport")'
      BY <1>5 DEF OnSnapshotChanged, Pending, Call
    <3>2. screen' \in ScreenIds
      BY <1>0 DEF ScreensTypes
    <3> QED BY <3>1, <3>2 DEF VisibleIsCurrent, Quiet, ScreenIds
  <2>5. ButtonsFit'
    BY <1>5, PendingNone, PendingOne
       DEF OnSnapshotChanged, storeVars, operationVars, uiState, IInv,
           ScreensTypes, ScreenIds, UiIdle, ButtonsFit, MayMove,
           MayTransport, FreeToSubmit, HasRunningOperationFor
  <2>6. HighlightFits'
    <3>1. Pending("rack")' /\ Pending("queue")' /\ Pending("transport")'
      BY <1>5 DEF OnSnapshotChanged, Pending, Call
    <3> QED BY <3>1 DEF HighlightFits
  <2>7. OneOperationPerWorkpiece'
    BY <1>5
       DEF OnSnapshotChanged, storeVars, operationVars, uiState, IInv,
           ScreensTypes, ScreenIds, OneOperationPerWorkpiece, ButtonsFit,
           MayMove, MayTransport, FreeToSubmit, HasRunningOperationFor
  <2>8. BusyTextIsTrue'
    BY <1>5
       DEF OnSnapshotChanged, storeVars, operationVars, uiState, IInv,
           ScreensTypes, ScreenIds, UiIdle, BusyTextIsTrue, ElementsOf,
           Submitters
  <2> QED BY <1>0, <2>1, <2>2, <2>3, <2>4, <2>5, <2>6, <2>7, <2>8 DEF IInv
<1>6. CASE OnMachineModelStateChanged
  <2>1. StoreFits'
    BY <1>6
       DEF OnMachineModelStateChanged, storeVars, operationVars, uiState,
           IInv, ScreensTypes, ScreenIds, StoreFits, MovableIsOnRack
  <2>2. SelectionKept'
    BY <1>6, PendingNone, PendingOne
       DEF OnMachineModelStateChanged, storeVars, operationVars, uiState,
           IInv, ScreensTypes, ScreenIds, UiIdle, SelectionKept, Listed
  <2>3. RackFirst'
    <3>1. \A k \in DOMAIN todo' : todo'[k].screen # "rack"
      BY <1>6 DEF OnMachineModelStateChanged, Call
    <3> QED BY <3>1 DEF RackFirst
  <2>4. VisibleIsCurrent'
    <3>1. Pending("queue")' /\ Pending("transport")'
      BY <1>6 DEF OnMachineModelStateChanged, Pending, Call
    <3>2. CASE screen = "rack"
      <4>1. Quiet(screen)' => Quiet(screen)
        BY <1>6, <3>2, PendingNone
           DEF OnMachineModelStateChanged, uiState, Quiet
      <4>2. ViewOf(screen, selected, destination, lastMessage)'
               = ViewOf(screen, selected, destination, lastMessage)
        BY <1>6, <3>2, ViewStays
           DEF OnMachineModelStateChanged, storeVars, uiState, ScreenIds
      <4> QED BY <1>6, <4>1, <4>2
              DEF OnMachineModelStateChanged, uiState, IInv, VisibleIsCurrent
    <3>3. CASE screen # "rack"
      <4>1. screen' \in {"queue", "transport"}
        BY <1>6, <3>3
           DEF OnMachineModelStateChanged, uiState, IInv, ScreensTypes,
               ScreenIds
      <4> QED BY <3>1, <4>1 DEF VisibleIsCurrent, Quiet
    <3> QED BY <3>2, <3>3
  <2>5. ButtonsFit'
    BY <1>6, PendingNone, PendingOne
       DEF OnMachineModelStateChanged, storeVars, operationVars, uiState,
           IInv, ScreensTypes, ScreenIds, UiIdle, ButtonsFit, MayMove,
           MayTransport, FreeToSubmit, HasRunningOperationFor
  <2>6. HighlightFits'
    BY <1>6, PendingNone, PendingOne
       DEF OnMachineModelStateChanged, storeVars, operationVars, uiState,
           IInv, ScreensTypes, ScreenIds, UiIdle, HighlightFits, ButtonsFit,
           MayMove, MayTransport
  <2>7. OneOperationPerWorkpiece'
    BY <1>6
       DEF OnMachineModelStateChanged, storeVars, operationVars, uiState,
           IInv, ScreensTypes, ScreenIds, OneOperationPerWorkpiece,
           ButtonsFit, MayMove, MayTransport, FreeToSubmit,
           HasRunningOperationFor
  <2>8. BusyTextIsTrue'
    BY <1>6
       DEF OnMachineModelStateChanged, storeVars, operationVars, uiState,
           IInv, ScreensTypes, ScreenIds, UiIdle, BusyTextIsTrue, ElementsOf,
           Submitters
  <2> QED BY <1>0, <2>1, <2>2, <2>3, <2>4, <2>5, <2>6, <2>7, <2>8 DEF IInv
<1>7. CASE OnOperationCompleted
  <2>1. StoreFits'
    BY <1>7
       DEF OnOperationCompleted, storeVars, operationVars, uiState, IInv,
           ScreensTypes, ScreenIds, StoreFits, MovableIsOnRack
  <2>2. SelectionKept'
    BY <1>7, PendingNone, PendingOne
       DEF OnOperationCompleted, storeVars, operationVars, uiState, IInv,
           ScreensTypes, ScreenIds, UiIdle, SelectionKept, Listed
  <2>3. RackFirst'
    BY <1>7, PendingNone, PendingOne
       DEF OnOperationCompleted, storeVars, operationVars, uiState, IInv,
           ScreensTypes, ScreenIds, UiIdle, RackFirst
  <2>4. VisibleIsCurrent'
    <3>1. Pending("queue")' /\ Pending("transport")'
      <4>1. completed \in Seq(Nat) /\ Len(completed) \in Nat \ {0}
        BY <1>7 DEF OnOperationCompleted, IInv, ScreensTypes, StoreFits
      <4>2. /\ 1 \in DOMAIN todo' /\ todo'[1].screen = "queue"
            /\ 2 \in DOMAIN todo' /\ todo'[2].screen = "transport"
        BY <1>7, <4>1 DEF OnOperationCompleted
      <4> QED BY <4>2 DEF Pending
    <3>2. CASE screen = "rack"
      <4>1. Quiet(screen)' => Quiet(screen)
        BY <1>7, <3>2, PendingNone DEF OnOperationCompleted, uiState, Quiet
      <4>2. ViewOf(screen, selected, destination, lastMessage)'
               = ViewOf(screen, selected, destination, lastMessage)
        BY <1>7, <3>2, ViewStays
           DEF OnOperationCompleted, storeVars, uiState, ScreenIds
      <4> QED BY <1>7, <4>1, <4>2
              DEF OnOperationCompleted, uiState, IInv, VisibleIsCurrent
    <3>3. CASE screen # "rack"
      <4>1. screen' \in {"queue", "transport"}
        BY <1>7, <3>3
           DEF OnOperationCompleted, uiState, IInv, ScreensTypes, ScreenIds
      <4> QED BY <3>1, <4>1 DEF VisibleIsCurrent, Quiet
    <3> QED BY <3>2, <3>3
  <2>5. ButtonsFit'
    BY <1>7, PendingNone, PendingOne
       DEF OnOperationCompleted, storeVars, operationVars, uiState, IInv,
           ScreensTypes, ScreenIds, UiIdle, ButtonsFit, MayMove,
           MayTransport, FreeToSubmit, HasRunningOperationFor
  <2>6. HighlightFits'
    BY <1>7, PendingNone, PendingOne
       DEF OnOperationCompleted, storeVars, operationVars, uiState, IInv,
           ScreensTypes, ScreenIds, UiIdle, HighlightFits, ButtonsFit,
           MayMove, MayTransport
  <2>7. OneOperationPerWorkpiece'
    BY <1>7
       DEF OnOperationCompleted, storeVars, operationVars, uiState, IInv,
           ScreensTypes, ScreenIds, OneOperationPerWorkpiece, ButtonsFit,
           MayMove, MayTransport, FreeToSubmit, HasRunningOperationFor
  <2>8. BusyTextIsTrue'
    <3> SUFFICES ASSUME NEW s \in Submitters, lastMessage[s] = "busy"
                 PROVE  \E i \in DOMAIN operations :
                          /\ operations[i].kind = KindOf(s)
                          /\ \/ operations[i].phase = "Running"
                             \/ \E k \in DOMAIN todo' : todo'[k] = [screen |-> s, id |-> i]
      BY <1>7 DEF OnOperationCompleted, BusyTextIsTrue, KindOf
    <3>1. PICK i \in DOMAIN operations :
             /\ operations[i].kind = KindOf(s)
             /\ operations[i].phase = "Running" \/ i \in ElementsOf(completed)
      BY <1>7 DEF OnOperationCompleted, UiIdle, IInv, BusyTextIsTrue
    <3>2. CASE i \in ElementsOf(completed)
      <4>1. completed \in Seq(Nat) /\ Len(completed) \in Nat
        BY DEF IInv, ScreensTypes
      <4>2. PICK j \in 1 .. Len(completed) : completed[j] = i
        BY <3>2, <4>1 DEF ElementsOf
      <4> DEFINE k == IF s = "queue" THEN 2 * j - 1 ELSE 2 * j
      <4>3. /\ k \in 1 .. 2 * Len(completed) /\ (k + 1) \div 2 = j
            /\ k % 2 = IF s = "queue" THEN 1 ELSE 0
        BY <4>1
      <4>4. k \in DOMAIN todo'
            /\ todo'[k] = [screen |-> IF k % 2 = 1 THEN "queue" ELSE "transport",
                           id |-> completed[(k + 1) \div 2]]
        BY <1>7, <4>3 DEF OnOperationCompleted
      <4>5. todo'[k] = [screen |-> s, id |-> i]
        BY <4>2, <4>3, <4>4 DEF Submitters
      <4> QED BY <3>1, <4>4, <4>5
    <3> QED BY <3>1, <3>2
  <2> QED BY <1>0, <2>1, <2>2, <2>3, <2>4, <2>5, <2>6, <2>7, <2>8 DEF IInv
<1>8. CASE Draw
  <2>1. StoreFits'
    BY <1>8
       DEF Draw, storeVars, operationVars, uiState, IInv, ScreensTypes,
           ScreenIds, StoreFits, MovableIsOnRack
  <2>2. SelectionKept'
    BY <1>8, PendingTail
       DEF Draw, storeVars, operationVars, uiState, IInv, ScreensTypes,
           ScreenIds, UiIdle, SelectionKept, Listed
  <2>3. RackFirst'
    BY <1>8, PendingTail
       DEF Draw, storeVars, operationVars, uiState, IInv, ScreensTypes,
           ScreenIds, UiIdle, RackFirst
  <2>4. VisibleIsCurrent'
    <3> DEFINE call == Head(todo)
    <3>1. /\ todo # << >> /\ todo' = Tail(todo) /\ screen' = screen
          /\ UNCHANGED <<version, content, detail, session, operations,
                         completed, messages>>
          /\ view' = IF call.screen # screen THEN view
                     ELSE [view EXCEPT ![call.screen] =
                       ViewOf(call.screen, selected', destination', lastMessage')]
      BY <1>8 DEF Draw, UiIdle, storeVars, operationVars
    <3>2. /\ call \in [screen : ScreenIds, id : Nat]
          /\ screen \in ScreenIds /\ DOMAIN view = ScreenIds
          /\ \A t : Pending(t) <=> call.screen = t \/ Pending(t)'
      <4>1. /\ todo \in Seq([screen : ScreenIds, id : Nat])
            /\ screen \in ScreenIds /\ DOMAIN view = ScreenIds
        BY DEF IInv, ScreensTypes
      <4>2. call \in [screen : ScreenIds, id : Nat]
        BY <3>1, <4>1, HeadTyped
      <4>3. ASSUME NEW t PROVE Pending(t) <=> call.screen = t \/ Pending(t)'
        BY <3>1, <4>1, PendingTail
      <4> QED BY <4>1, <4>2, <4>3
    <3>3. CASE call.screen = screen
      BY <3>1, <3>2, <3>3, ViewNow DEF VisibleIsCurrent, MayShow
    <3>4. CASE call.screen # screen
      <4> SUFFICES ASSUME Quiet(screen)'
                   PROVE  view'[screen] \in MayShow(screen,
                              ViewOf(screen, selected, destination, lastMessage)')
        BY <3>1 DEF VisibleIsCurrent
      <4>1. Quiet(screen)
        BY <3>1, <3>2, <3>4 DEF Quiet
      <4>2. ~Pending("rack") /\ ~(screen = "transport" /\ Pending("transport"))
        BY <4>1 DEF Quiet, IInv, RackFirst, Pending
      <4>3. version = 0 \/ selected = Nobody \/ Listed(selected)
        BY <4>1, <4>2 DEF Quiet, IInv, SelectionKept
      <4>4. /\ selected' = selected
            /\ screen = "transport" => destination' = destination
        BY <1>8, <3>4, <4>3 DEF Draw
      <4>5. /\ screen = "queue" => lastMessage'["queue"] = lastMessage["queue"]
            /\ screen = "transport" =>
                  lastMessage'["transport"] = lastMessage["transport"]
        BY <1>8, <3>2, <3>4
           DEF Draw, MessageAfter, IInv, ScreensTypes, Submitters
      <4>6. ViewOf(screen, selected, destination, lastMessage)'
               = ViewOf(screen, selected, destination, lastMessage)
        BY <3>1, <3>2, <4>4, <4>5, ViewStays
      <4> QED BY <3>1, <3>4, <4>1, <4>6 DEF IInv, VisibleIsCurrent
    <3> QED BY <3>3, <3>4
  <2>5. ButtonsFit'
    <3> DEFINE call == Head(todo)
    <3>1. /\ todo # << >> /\ todo' = Tail(todo) /\ screen' = screen
          /\ UNCHANGED <<version, content, detail, session, operations,
                         completed, messages>>
          /\ view' = IF call.screen # screen THEN view
                     ELSE [view EXCEPT ![call.screen] =
                       ViewOf(call.screen, selected', destination', lastMessage')]
      BY <1>8 DEF Draw, UiIdle, storeVars, operationVars
    <3>2. /\ call \in [screen : ScreenIds, id : Nat]
          /\ screen \in ScreenIds /\ DOMAIN view = ScreenIds
          /\ \A t : Pending(t) <=> call.screen = t \/ Pending(t)'
      <4>1. /\ todo \in Seq([screen : ScreenIds, id : Nat])
            /\ screen \in ScreenIds /\ DOMAIN view = ScreenIds
        BY DEF IInv, ScreensTypes
      <4>2. call \in [screen : ScreenIds, id : Nat]
        BY <3>1, <4>1, HeadTyped
      <4>3. ASSUME NEW t PROVE Pending(t) <=> call.screen = t \/ Pending(t)'
        BY <3>1, <4>1, PendingTail
      <4> QED BY <4>1, <4>2, <4>3
    <3>3. selected' = selected \/ selected' = Nobody
      BY <1>8 DEF Draw
    <3>4. CASE call.screen = screen
      <4>1. screen = "queue" => (MayMove' => FreeToSubmit')
        BY <3>1, <3>2, <3>4 DEF MayMove, FreeToSubmit, ViewOf, QueueView,
                                EmptyQueue, HasRunningOperationFor
      <4>2. screen = "transport" => (MayTransport' => FreeToSubmit')
        BY <3>1, <3>2, <3>4 DEF MayTransport, FreeToSubmit, ViewOf,
                                TransportView, Allowed, HasRunningOperationFor
      <4>3. /\ screen # "queue" => view'["queue"] = view["queue"]
            /\ screen # "transport" => view'["transport"] = view["transport"]
        BY <3>1, <3>2, <3>4 DEF ScreenIds
      <4> QED BY <3>1, <4>1, <4>2, <4>3
              DEF IInv, ButtonsFit, MayMove, MayTransport
    <3>5. CASE call.screen # screen
      <4>1. FreeToSubmit => FreeToSubmit'
        BY <3>1, <3>3 DEF FreeToSubmit, HasRunningOperationFor
      <4> QED BY <3>1, <3>2, <3>5, <4>1
              DEF IInv, ButtonsFit, MayMove, MayTransport
    <3> QED BY <3>4, <3>5
  <2>6. HighlightFits'
    <3> DEFINE call == Head(todo)
    <3>1. /\ todo # << >> /\ todo' = Tail(todo) /\ screen' = screen
          /\ UNCHANGED <<version, content, detail, session, operations,
                         completed, messages>>
          /\ view' = IF call.screen # screen THEN view
                     ELSE [view EXCEPT ![call.screen] =
                       ViewOf(call.screen, selected', destination', lastMessage')]
      BY <1>8 DEF Draw, UiIdle, storeVars, operationVars
    <3>2. /\ call \in [screen : ScreenIds, id : Nat]
          /\ screen \in ScreenIds /\ DOMAIN view = ScreenIds
          /\ \A t : Pending(t) <=> call.screen = t \/ Pending(t)'
      <4>1. /\ todo \in Seq([screen : ScreenIds, id : Nat])
            /\ screen \in ScreenIds /\ DOMAIN view = ScreenIds
        BY DEF IInv, ScreensTypes
      <4>2. call \in [screen : ScreenIds, id : Nat]
        BY <3>1, <4>1, HeadTyped
      <4>3. ASSUME NEW t PROVE Pending(t) <=> call.screen = t \/ Pending(t)'
        BY <3>1, <4>1, PendingTail
      <4> QED BY <4>1, <4>2, <4>3
    <3>3. CASE call.screen = screen
      <4>1. CASE screen = "queue"
        BY <3>1, <3>2, <3>3, <4>1
           DEF HighlightFits, MayMove, ViewOf, QueueView, EmptyQueue
      <4>2. CASE screen = "transport"
        <5>1. MayTransport' => selected' \in content.rack \cap ElementsOf(content.queue)
          BY <3>1, <3>2, <3>3, <4>2
             DEF MayTransport, ViewOf, TransportView, Allowed, IInv, StoreFits,
                 MovableIsOnRack
        <5> QED BY <3>1, <3>2, <3>3, <4>2, <5>1
                DEF HighlightFits, ViewOf, TransportView
      <4> QED BY <3>1, <4>1, <4>2 DEF HighlightFits
    <3>4. CASE call.screen # screen
      <4> SUFFICES ASSUME "snapshot" \notin messages, ~Pending(screen)'
                   PROVE  HighlightFits'
        BY <3>1 DEF HighlightFits
      <4>1. ~Pending(screen)
        <5>1. ~\E k \in DOMAIN todo' : todo'[k].screen = screen
          BY <3>1 DEF Pending
        <5>2. PICK t : t = screen
          OBVIOUS
        <5>3. ~Pending(t)'
          BY <5>1, <5>2 DEF Pending
        <5> QED BY <3>2, <3>4, <5>2, <5>3
      <4>2. screen # "rack" => ~Pending("rack")
        BY <4>1 DEF IInv, RackFirst, Pending
      <4>3. screen # "rack" => version = 0 \/ selected = Nobody \/ Listed(selected)
        BY <4>1, <4>2 DEF IInv, SelectionKept
      <4>4. /\ screen # "rack" => selected' = selected
            /\ screen = "transport" => destination' = destination
        BY <1>8, <3>4, <4>3 DEF Draw
      <4> QED BY <3>1, <3>4, <4>1, <4>4
              DEF IInv, HighlightFits, MayMove, MayTransport
    <3> QED BY <3>3, <3>4
  <2>7. OneOperationPerWorkpiece'
    BY <1>8
       DEF Draw, storeVars, operationVars, uiState, IInv, ScreensTypes,
           ScreenIds, OneOperationPerWorkpiece, ButtonsFit, MayMove,
           MayTransport, FreeToSubmit, HasRunningOperationFor
  <2>8. BusyTextIsTrue'
    <3> DEFINE call == Head(todo)
    <3>1. /\ todo # << >> /\ todo' = Tail(todo) /\ screen' = screen
          /\ UNCHANGED <<version, content, detail, session, operations,
                         completed, messages>>
          /\ view' = IF call.screen # screen THEN view
                     ELSE [view EXCEPT ![call.screen] =
                       ViewOf(call.screen, selected', destination', lastMessage')]
      BY <1>8 DEF Draw, UiIdle, storeVars, operationVars
    <3>2. /\ call \in [screen : ScreenIds, id : Nat]
          /\ screen \in ScreenIds /\ DOMAIN view = ScreenIds
          /\ \A t : Pending(t) <=> call.screen = t \/ Pending(t)'
      <4>1. /\ todo \in Seq([screen : ScreenIds, id : Nat])
            /\ screen \in ScreenIds /\ DOMAIN view = ScreenIds
        BY DEF IInv, ScreensTypes
      <4>2. call \in [screen : ScreenIds, id : Nat]
        BY <3>1, <4>1, HeadTyped
      <4>3. ASSUME NEW t PROVE Pending(t) <=> call.screen = t \/ Pending(t)'
        BY <3>1, <4>1, PendingTail
      <4> QED BY <4>1, <4>2, <4>3
    <3> SUFFICES ASSUME NEW s \in Submitters, lastMessage'[s] = "busy"
                 PROVE  \E i \in DOMAIN operations :
                          /\ operations[i].kind = KindOf(s)
                          /\ \/ operations[i].phase = "Running"
                             \/ i \in ElementsOf(completed)
                             \/ \E k \in DOMAIN todo' :
                                   todo'[k] = [screen |-> s, id |-> i]
      BY <3>1 DEF BusyTextIsTrue
    <3>3. /\ lastMessage[s] = "busy"
          /\ ~(call.screen = s /\ call.id # 0
                 /\ operations[call.id].kind = KindOf(s))
      BY <1>8 DEF Draw, MessageAfter, IInv, ScreensTypes
    <3>4. PICK i \in DOMAIN operations :
             /\ operations[i].kind = KindOf(s)
             /\ \/ operations[i].phase = "Running"
                \/ i \in ElementsOf(completed)
                \/ \E k \in DOMAIN todo : todo[k] = [screen |-> s, id |-> i]
      BY <3>3 DEF IInv, BusyTextIsTrue
    <3>5. ASSUME NEW k \in DOMAIN todo, todo[k] = [screen |-> s, id |-> i]
          PROVE  \E j \in DOMAIN todo' : todo'[j] = [screen |-> s, id |-> i]
      <4>1. /\ todo \in Seq([screen : ScreenIds, id : Nat])
            /\ operations \in Seq(Operation)
        BY DEF IInv, ScreensTypes
      <4>2. i # 0
        BY <4>1
      <4>3. k # 1
        <5>1. k = 1 => call = [screen |-> s, id |-> i]
          BY <3>1, <3>5, <4>1
        <5> QED BY <3>3, <3>4, <4>2, <5>1
      <4>4. k - 1 \in DOMAIN todo' /\ todo'[k - 1] = todo[k]
        BY <3>1, <4>1, <4>3
      <4> QED BY <3>5, <4>4
    <3> QED BY <3>4, <3>5
  <2> QED BY <1>0, <2>1, <2>2, <2>3, <2>4, <2>5, <2>6, <2>7, <2>8 DEF IInv
<1>9. ASSUME NEW w \in Workpieces, ClickSlot(w)
      PROVE  IInv'
  <2>1. StoreFits'
    BY <1>9
       DEF ClickSlot, storeVars, operationVars, uiState, IInv, ScreensTypes,
           ScreenIds, StoreFits, MovableIsOnRack
  <2>2. SelectionKept'
    BY <1>9, PendingNone, PendingOne
       DEF ClickSlot, storeVars, operationVars, uiState, IInv, ScreensTypes,
           ScreenIds, UiIdle, SelectionKept, Listed
  <2>3. RackFirst'
    BY <1>9, PendingNone, PendingOne
       DEF ClickSlot, storeVars, operationVars, uiState, IInv, ScreensTypes,
           ScreenIds, UiIdle, RackFirst
  <2>4. VisibleIsCurrent'
    <3>1. CASE version # 0 /\ IsInteractive /\ Listed(w)
      <4>1. Pending("rack")' /\ screen' = "rack"
        BY <1>9, <3>1, PendingOne DEF ClickSlot
      <4> QED BY <4>1 DEF VisibleIsCurrent, Quiet
    <3>2. CASE ~(version # 0 /\ IsInteractive /\ Listed(w))
      <4> SUFFICES ASSUME Quiet(screen)'
                   PROVE  FALSE
        BY DEF VisibleIsCurrent
      <4>1. Quiet(screen) /\ screen = "rack"
        BY <1>9, PendingNone DEF ClickSlot, Quiet
      <4>2. view["rack"] = ViewOf(screen, selected, destination, lastMessage)
        BY <4>1 DEF IInv, VisibleIsCurrent, MayShow
      <4>3. IsInteractive /\ w \in content.rack \cap ElementsOf(content.queue)
        BY <1>9, <4>1, <4>2 DEF ClickSlot, ViewOf, RackView
      <4>4. version # 0
        BY <4>3 DEF IInv, StoreFits, NoContent
      <4> QED BY <3>2, <4>3, <4>4 DEF Listed
    <3> QED BY <3>1, <3>2
  <2>5. ButtonsFit'
    BY <1>9, PendingNone, PendingOne
       DEF ClickSlot, storeVars, operationVars, uiState, IInv, ScreensTypes,
           ScreenIds, UiIdle, ButtonsFit, MayMove, MayTransport,
           FreeToSubmit, HasRunningOperationFor
  <2>6. HighlightFits'
    BY <1>9, PendingNone, PendingOne
       DEF ClickSlot, storeVars, operationVars, uiState, IInv, ScreensTypes,
           ScreenIds, UiIdle, HighlightFits, ButtonsFit, MayMove,
           MayTransport
  <2>7. OneOperationPerWorkpiece'
    BY <1>9
       DEF ClickSlot, storeVars, operationVars, uiState, IInv, ScreensTypes,
           ScreenIds, OneOperationPerWorkpiece, ButtonsFit, MayMove,
           MayTransport, FreeToSubmit, HasRunningOperationFor
  <2>8. BusyTextIsTrue'
    BY <1>9
       DEF ClickSlot, storeVars, operationVars, uiState, IInv, ScreensTypes,
           ScreenIds, UiIdle, BusyTextIsTrue, ElementsOf, Submitters
  <2> QED BY <1>0, <2>1, <2>2, <2>3, <2>4, <2>5, <2>6, <2>7, <2>8 DEF IInv
<1>10. ASSUME NEW w \in Workpieces, ClickRow(w)
      PROVE  IInv'
  <2>1. StoreFits'
    BY <1>10
       DEF ClickRow, storeVars, operationVars, uiState, IInv, ScreensTypes,
           ScreenIds, StoreFits, MovableIsOnRack
  <2>2. SelectionKept'
    BY <1>10, PendingNone, PendingOne
       DEF ClickRow, storeVars, operationVars, uiState, IInv, ScreensTypes,
           ScreenIds, UiIdle, SelectionKept, Listed
  <2>3. RackFirst'
    BY <1>10, PendingNone, PendingOne
       DEF ClickRow, storeVars, operationVars, uiState, IInv, ScreensTypes,
           ScreenIds, UiIdle, RackFirst
  <2>4. VisibleIsCurrent'
    <3>1. CASE version # 0 /\ Listed(w)
      <4>1. Pending("queue")' /\ screen' = "queue"
        BY <1>10, <3>1, PendingOne DEF ClickRow
      <4> QED BY <4>1 DEF VisibleIsCurrent, Quiet
    <3>2. CASE ~(version # 0 /\ Listed(w))
      <4> SUFFICES ASSUME Quiet(screen)'
                   PROVE  FALSE
        BY DEF VisibleIsCurrent
      <4>1. Quiet(screen) /\ screen = "queue"
        BY <1>10, PendingNone DEF ClickRow, Quiet
      <4>2. view["queue"].rows = QueueView(selected, lastMessage["queue"]).rows
        <5>1. view["queue"]
                \in MayShow("queue", QueueView(selected, lastMessage["queue"]))
          BY <4>1 DEF IInv, VisibleIsCurrent, ViewOf
        <5>2. "rows" \in DOMAIN QueueView(selected, lastMessage["queue"])
          BY DEF QueueView, EmptyQueue
        <5> QED BY <5>1, <5>2 DEF MayShow
      <4>3. w \in ElementsOf(QueueView(selected, lastMessage["queue"]).rows)
        BY <1>10, <4>1, <4>2 DEF ClickRow
      <4>4. w \notin ElementsOf(<< >>)
        BY DEF ElementsOf
      <4>5. version # 0 /\ w \in ElementsOf(content.queue)
        BY <4>3, <4>4 DEF QueueView, EmptyQueue
      <4> QED BY <3>2, <4>5 DEF Listed
    <3> QED BY <3>1, <3>2
  <2>5. ButtonsFit'
    BY <1>10, PendingNone, PendingOne
       DEF ClickRow, storeVars, operationVars, uiState, IInv, ScreensTypes,
           QueueFields, ScreenIds, UiIdle, ButtonsFit, MayMove, MayTransport,
           FreeToSubmit, HasRunningOperationFor
  <2>6. HighlightFits'
    <3>1. CASE version # 0 /\ Listed(w)
      <4>1. Pending("queue")' /\ screen' = "queue"
        BY <1>10, <3>1, PendingOne DEF ClickRow
      <4> QED BY <4>1 DEF HighlightFits
    <3>2. CASE ~(version # 0 /\ Listed(w))
      <4> SUFFICES ASSUME "snapshot" \notin messages
                   PROVE  FALSE
        BY <1>10 DEF ClickRow, HighlightFits
      <4>1. view["queue"].rows \in {<< >>, content.queue}
        BY <1>10, PendingNone DEF ClickRow, IInv, HighlightFits
      <4>2. w \in ElementsOf(view["queue"].rows) /\ w \notin ElementsOf(<< >>)
        BY <1>10 DEF ClickRow, ElementsOf
      <4>3. w \in ElementsOf(content.queue)
        BY <4>1, <4>2
      <4>4. version # 0
        BY <4>2, <4>3 DEF IInv, StoreFits, NoContent
      <4> QED BY <3>2, <4>3, <4>4 DEF Listed
    <3> QED BY <3>1, <3>2
  <2>7. OneOperationPerWorkpiece'
    BY <1>10
       DEF ClickRow, storeVars, operationVars, uiState, IInv, ScreensTypes,
           ScreenIds, OneOperationPerWorkpiece, ButtonsFit, MayMove,
           MayTransport, FreeToSubmit, HasRunningOperationFor
  <2>8. BusyTextIsTrue'
    BY <1>10
       DEF ClickRow, storeVars, operationVars, uiState, IInv, ScreensTypes,
           ScreenIds, UiIdle, BusyTextIsTrue, ElementsOf, Submitters
  <2> QED BY <1>0, <2>1, <2>2, <2>3, <2>4, <2>5, <2>6, <2>7, <2>8 DEF IInv
<1>11. ASSUME NEW w \in Workpieces, ChooseWorkpiece(w)
      PROVE  IInv'
  <2>1. StoreFits'
    BY <1>11
       DEF ChooseWorkpiece, storeVars, operationVars, uiState, IInv,
           ScreensTypes, ScreenIds, StoreFits, MovableIsOnRack
  <2>2. SelectionKept'
    BY <1>11, PendingNone, PendingOne
       DEF ChooseWorkpiece, storeVars, operationVars, uiState, IInv,
           ScreensTypes, ScreenIds, UiIdle, SelectionKept, Listed
  <2>3. RackFirst'
    BY <1>11, PendingNone, PendingOne
       DEF ChooseWorkpiece, storeVars, operationVars, uiState, IInv,
           ScreensTypes, ScreenIds, UiIdle, RackFirst
  <2>4. VisibleIsCurrent'
    BY <1>11, PendingNone, PendingOne, ViewStays
       DEF ChooseWorkpiece, storeVars, operationVars, uiState, IInv,
           ScreensTypes, ScreenIds, UiIdle, VisibleIsCurrent, Quiet
  <2>5. ButtonsFit'
    BY <1>11, PendingNone, PendingOne
       DEF ChooseWorkpiece, storeVars, operationVars, uiState, IInv,
           ScreensTypes, ScreenIds, UiIdle, ButtonsFit, MayMove,
           MayTransport, FreeToSubmit, HasRunningOperationFor
  <2>6. HighlightFits'
    BY <1>11, PendingNone, PendingOne
       DEF ChooseWorkpiece, storeVars, operationVars, uiState, IInv,
           ScreensTypes, ScreenIds, UiIdle, HighlightFits, ButtonsFit,
           MayMove, MayTransport
  <2>7. OneOperationPerWorkpiece'
    BY <1>11
       DEF ChooseWorkpiece, storeVars, operationVars, uiState, IInv,
           ScreensTypes, ScreenIds, OneOperationPerWorkpiece, ButtonsFit,
           MayMove, MayTransport, FreeToSubmit, HasRunningOperationFor
  <2>8. BusyTextIsTrue'
    BY <1>11
       DEF ChooseWorkpiece, storeVars, operationVars, uiState, IInv,
           ScreensTypes, ScreenIds, UiIdle, BusyTextIsTrue, ElementsOf,
           Submitters
  <2> QED BY <1>0, <2>1, <2>2, <2>3, <2>4, <2>5, <2>6, <2>7, <2>8 DEF IInv
<1>12. ASSUME NEW i \in DOMAIN view.transport.destinations, ChooseDestination(i)
      PROVE  IInv'
  <2>1. StoreFits'
    BY <1>12
       DEF ChooseDestination, storeVars, operationVars, uiState, IInv,
           ScreensTypes, ScreenIds, StoreFits, MovableIsOnRack
  <2>2. SelectionKept'
    BY <1>12, PendingNone, PendingOne
       DEF ChooseDestination, storeVars, operationVars, uiState, IInv,
           ScreensTypes, ScreenIds, UiIdle, SelectionKept, Listed
  <2>3. RackFirst'
    BY <1>12, PendingNone, PendingOne
       DEF ChooseDestination, storeVars, operationVars, uiState, IInv,
           ScreensTypes, ScreenIds, UiIdle, RackFirst
  <2>4. VisibleIsCurrent'
    <3>1. CASE version # 0 /\ i \in DOMAIN content.destinations
      <4>1. Pending("transport")' /\ screen' = "transport"
        BY <1>12, <3>1, PendingOne DEF ChooseDestination
      <4> QED BY <4>1 DEF VisibleIsCurrent, Quiet
    <3>2. CASE ~(version # 0 /\ i \in DOMAIN content.destinations)
      <4> SUFFICES ASSUME Quiet(screen)'
                   PROVE  FALSE
        BY DEF VisibleIsCurrent
      <4>1. Quiet(screen) /\ screen = "transport"
        BY <1>12, PendingNone DEF ChooseDestination, Quiet
      <4>2. view["transport"] = ViewOf(screen, selected, destination, lastMessage)
        BY <4>1 DEF IInv, VisibleIsCurrent, MayShow
      <4>3. i \in DOMAIN content.destinations
        BY <1>12, <4>1, <4>2 DEF ChooseDestination, ViewOf, TransportView
      <4>4. version # 0
        BY <4>3 DEF IInv, StoreFits, NoContent
      <4> QED BY <3>2, <4>3, <4>4
    <3> QED BY <3>1, <3>2
  <2>5. ButtonsFit'
    BY <1>12, PendingNone, PendingOne
       DEF ChooseDestination, storeVars, operationVars, uiState, IInv,
           ScreensTypes, ScreenIds, UiIdle, ButtonsFit, MayMove,
           MayTransport, FreeToSubmit, HasRunningOperationFor
  <2>6. HighlightFits'
    <3>1. CASE version # 0 /\ i \in DOMAIN content.destinations
      <4>1. Pending("transport")' /\ screen' = "transport"
        BY <1>12, <3>1, PendingOne DEF ChooseDestination
      <4> QED BY <4>1 DEF HighlightFits
    <3>2. CASE ~(version # 0 /\ i \in DOMAIN content.destinations)
      <4> SUFFICES ASSUME "snapshot" \notin messages
                   PROVE  FALSE
        BY <1>12 DEF ChooseDestination, HighlightFits
      <4>1. i \in DOMAIN content.destinations
        BY <1>12, PendingNone DEF ChooseDestination, IInv, HighlightFits
      <4>2. version # 0
        BY <4>1 DEF IInv, StoreFits, NoContent
      <4> QED BY <3>2, <4>1, <4>2
    <3> QED BY <3>1, <3>2
  <2>7. OneOperationPerWorkpiece'
    BY <1>12
       DEF ChooseDestination, storeVars, operationVars, uiState, IInv,
           ScreensTypes, ScreenIds, OneOperationPerWorkpiece, ButtonsFit,
           MayMove, MayTransport, FreeToSubmit, HasRunningOperationFor
  <2>8. BusyTextIsTrue'
    BY <1>12
       DEF ChooseDestination, storeVars, operationVars, uiState, IInv,
           ScreensTypes, ScreenIds, UiIdle, BusyTextIsTrue, ElementsOf,
           Submitters
  <2> QED BY <1>0, <2>1, <2>2, <2>3, <2>4, <2>5, <2>6, <2>7, <2>8 DEF IInv
<1>13. CASE PressMove
  <2>1. StoreFits'
    BY <1>13
       DEF PressMove, Submit, SubmitOperation, storeVars, operationVars,
           uiState, IInv, ScreensTypes, ScreenIds, StoreFits, MovableIsOnRack
  <2>2. SelectionKept'
    BY <1>13, PendingNone, PendingOne
       DEF PressMove, Submit, SubmitOperation, storeVars, operationVars,
           uiState, IInv, ScreensTypes, ScreenIds, UiIdle, SelectionKept,
           Listed
  <2>3. RackFirst'
    BY <1>13, PendingNone, PendingOne
       DEF PressMove, Submit, SubmitOperation, storeVars, operationVars,
           uiState, IInv, ScreensTypes, ScreenIds, UiIdle, RackFirst
  <2>4. VisibleIsCurrent'
    BY <1>13, PendingNone, PendingOne, ViewStays
       DEF PressMove, Submit, SubmitOperation, storeVars, operationVars,
           uiState, IInv, ScreensTypes, ScreenIds, UiIdle, VisibleIsCurrent,
           Quiet
  <2>5. ButtonsFit'
    BY <1>13, PendingNone, PendingOne
       DEF PressMove, Submit, SubmitOperation, storeVars, operationVars,
           uiState, IInv, ScreensTypes, ScreenIds, UiIdle, ButtonsFit,
           MayMove, MayTransport, FreeToSubmit, HasRunningOperationFor
  <2>6. HighlightFits'
    BY <1>13, PendingNone, PendingOne
       DEF PressMove, Submit, SubmitOperation, storeVars, operationVars,
           uiState, IInv, ScreensTypes, ScreenIds, UiIdle, HighlightFits,
           ButtonsFit, MayMove, MayTransport
  <2>7. OneOperationPerWorkpiece'
    <3>1. SubmitStep("queue", Nowhere)
      BY <1>13 DEF PressMove, Submit, SubmitStep, UiIdle
    <3>2. Nowhere \in Places \cup {Nowhere}
      BY DEF IInv, ScreensTypes
    <3>3. UNCHANGED operations \/ (FreeToSubmit /\ selected # Nobody)
      <4>1. UiIdle /\ MayMove
        BY <1>13 DEF PressMove, Submit, MayMove
      <4>2. FreeToSubmit
        BY <4>1, PendingNone DEF IInv, ButtonsFit
      <4>3. UNCHANGED operations \/ selected # Nobody
        BY <1>13 DEF PressMove, Submit
      <4> QED BY <4>2, <4>3
    <3> QED BY <3>1, <3>2, <3>3, SubmitKeeps DEF Submitters
  <2>8. BusyTextIsTrue'
    <3>1. SubmitStep("queue", Nowhere)
      BY <1>13 DEF PressMove, Submit, SubmitStep, UiIdle
    <3>2. Nowhere \in Places \cup {Nowhere}
      BY DEF IInv, ScreensTypes
    <3>3. UNCHANGED operations \/ (FreeToSubmit /\ selected # Nobody)
      <4>1. UiIdle /\ MayMove
        BY <1>13 DEF PressMove, Submit, MayMove
      <4>2. FreeToSubmit
        BY <4>1, PendingNone DEF IInv, ButtonsFit
      <4>3. UNCHANGED operations \/ selected # Nobody
        BY <1>13 DEF PressMove, Submit
      <4> QED BY <4>2, <4>3
    <3> QED BY <3>1, <3>2, <3>3, SubmitKeeps DEF Submitters
  <2> QED BY <1>0, <2>1, <2>2, <2>3, <2>4, <2>5, <2>6, <2>7, <2>8 DEF IInv
<1>14. CASE PressTransport
  <2>1. StoreFits'
    BY <1>14
       DEF PressTransport, Submit, SubmitOperation, storeVars, operationVars,
           uiState, IInv, ScreensTypes, ScreenIds, StoreFits, MovableIsOnRack
  <2>2. SelectionKept'
    BY <1>14, PendingNone, PendingOne
       DEF PressTransport, Submit, SubmitOperation, storeVars, operationVars,
           uiState, IInv, ScreensTypes, ScreenIds, UiIdle, SelectionKept,
           Listed
  <2>3. RackFirst'
    BY <1>14, PendingNone, PendingOne
       DEF PressTransport, Submit, SubmitOperation, storeVars, operationVars,
           uiState, IInv, ScreensTypes, ScreenIds, UiIdle, RackFirst
  <2>4. VisibleIsCurrent'
    BY <1>14, PendingNone, PendingOne, ViewStays
       DEF PressTransport, Submit, SubmitOperation, storeVars, operationVars,
           uiState, IInv, ScreensTypes, ScreenIds, UiIdle, VisibleIsCurrent,
           Quiet
  <2>5. ButtonsFit'
    BY <1>14, PendingNone, PendingOne
       DEF PressTransport, Submit, SubmitOperation, storeVars, operationVars,
           uiState, IInv, ScreensTypes, ScreenIds, UiIdle, ButtonsFit,
           MayMove, MayTransport, FreeToSubmit, HasRunningOperationFor
  <2>6. HighlightFits'
    BY <1>14, PendingNone, PendingOne
       DEF PressTransport, Submit, SubmitOperation, storeVars, operationVars,
           uiState, IInv, ScreensTypes, ScreenIds, UiIdle, HighlightFits,
           ButtonsFit, MayMove, MayTransport
  <2>7. OneOperationPerWorkpiece'
    <3>1. SubmitStep("transport", destination)
      BY <1>14 DEF PressTransport, Submit, SubmitStep, UiIdle
    <3>2. destination \in Places \cup {Nowhere}
      BY DEF IInv, ScreensTypes
    <3>3. UNCHANGED operations \/ (FreeToSubmit /\ selected # Nobody)
      <4>1. UiIdle /\ MayTransport
        BY <1>14 DEF PressTransport, Submit, MayTransport
      <4>2. FreeToSubmit
        BY <4>1, PendingNone DEF IInv, ButtonsFit
      <4>3. UNCHANGED operations \/ selected # Nobody
        BY <1>14 DEF PressTransport, Submit
      <4> QED BY <4>2, <4>3
    <3> QED BY <3>1, <3>2, <3>3, SubmitKeeps DEF Submitters
  <2>8. BusyTextIsTrue'
    <3>1. SubmitStep("transport", destination)
      BY <1>14 DEF PressTransport, Submit, SubmitStep, UiIdle
    <3>2. destination \in Places \cup {Nowhere}
      BY DEF IInv, ScreensTypes
    <3>3. UNCHANGED operations \/ (FreeToSubmit /\ selected # Nobody)
      <4>1. UiIdle /\ MayTransport
        BY <1>14 DEF PressTransport, Submit, MayTransport
      <4>2. FreeToSubmit
        BY <4>1, PendingNone DEF IInv, ButtonsFit
      <4>3. UNCHANGED operations \/ selected # Nobody
        BY <1>14 DEF PressTransport, Submit
      <4> QED BY <4>2, <4>3
    <3> QED BY <3>1, <3>2, <3>3, SubmitKeeps DEF Submitters
  <2> QED BY <1>0, <2>1, <2>2, <2>3, <2>4, <2>5, <2>6, <2>7, <2>8 DEF IInv
<1>15. CASE DeselectRow
  <2>1. /\ UNCHANGED <<version, content, detail, session, operations, completed,
                       messages, screen, selected, destination, lastMessage, todo>>
        /\ screen = "queue"
        /\ view' = [view EXCEPT !.queue.selected = Nobody]
    BY <1>15 DEF DeselectRow, storeVars, operationVars, uiState
  <2>2. /\ view'["queue"] = [view["queue"] EXCEPT !.selected = Nobody]
        /\ view'["transport"] = view["transport"]
        /\ QueueFields \subseteq DOMAIN view["queue"]
    BY <2>1 DEF IInv, ScreensTypes, ScreenIds
  <2>3. /\ \A f \in QueueFields \ {"selected"} : view'["queue"][f] = view["queue"][f]
        /\ view'["queue"].selected = Nobody
    BY <2>2 DEF QueueFields
  <2>4. /\ view'["queue"].rows = view["queue"].rows
        /\ view'["queue"].instructions = view["queue"].instructions
        /\ MayMove' <=> MayMove
        /\ MayTransport' <=> MayTransport
    BY <2>2, <2>3 DEF QueueFields, MayMove, MayTransport
  <2>5. VisibleIsCurrent'
    <3> DEFINE drawn == ViewOf("queue", selected, destination, lastMessage)
    <3> SUFFICES ASSUME Quiet("queue")
                 PROVE  view'["queue"] \in MayShow("queue", drawn)
      BY <2>1, PendingSame, ViewStays
         DEF VisibleIsCurrent, Quiet, IInv, ScreensTypes
    <3>1. view["queue"] \in {drawn, [drawn EXCEPT !.selected = Nobody]}
      BY <2>1 DEF IInv, VisibleIsCurrent, MayShow
    <3> HIDE DEF drawn
    <3>2. view'["queue"] = [drawn EXCEPT !.selected = Nobody]
      BY <2>2, <3>1
    <3> QED BY <3>2 DEF MayShow
  <2>6. SelectionKept' /\ RackFirst'
    BY <2>1, PendingSame DEF IInv, SelectionKept, Listed, RackFirst
  <2>7. ButtonsFit'
    BY <2>1, <2>4, PendingSame
       DEF IInv, ButtonsFit, FreeToSubmit, HasRunningOperationFor
  <2>8. HighlightFits'
    BY <2>1, <2>2, <2>3, <2>4, PendingSame DEF IInv, HighlightFits
  <2>9. StoreFits' /\ OneOperationPerWorkpiece' /\ BusyTextIsTrue'
    BY <2>1
       DEF IInv, StoreFits, MovableIsOnRack, OneOperationPerWorkpiece,
           BusyTextIsTrue
  <2> QED BY <1>0, <2>5, <2>6, <2>7, <2>8, <2>9 DEF IInv
<1>16. CASE UNCHANGED vars
  <2>1. UNCHANGED <<version, content, detail, session, operations, completed, messages, screen,
                  selected, destination, lastMessage, view, todo>>
    BY <1>16 DEF vars, storeVars, operationVars, uiState
  <2>2. VisibleIsCurrent'
    BY <2>1, PendingSame, ViewStays
       DEF IInv, ScreensTypes, VisibleIsCurrent, Quiet
  <2>3. SelectionKept' /\ RackFirst' /\ ButtonsFit' /\ HighlightFits'
    BY <2>1, PendingSame
       DEF IInv, HighlightFits, SelectionKept, Listed, RackFirst, ButtonsFit,
           MayMove, MayTransport, FreeToSubmit, HasRunningOperationFor
  <2>4. StoreFits' /\ OneOperationPerWorkpiece' /\ BusyTextIsTrue'
    BY <2>1
       DEF IInv, StoreFits, MovableIsOnRack, OneOperationPerWorkpiece,
           BusyTextIsTrue
  <2> QED BY <1>0, <2>2, <2>3, <2>4 DEF IInv
<1> QED BY <1>1, <1>2, <1>3, <1>4, <1>5, <1>6, <1>7, <1>8, <1>9, <1>10,
           <1>11, <1>12, <1>13, <1>14, <1>15, <1>16
           DEF Next

(* Nothing is shown, said or on its way at first.                          *)
LEMMA InitHolds == Init => IInv
<1> SUFFICES ASSUME Init
             PROVE  IInv
  OBVIOUS
<1>1. /\ operations = << >> /\ completed = << >> /\ todo = << >>
      /\ messages = {} /\ version = 0 /\ selected = Nobody
      /\ screen = "rack" /\ view = Blank /\ content = NoContent
  BY DEF Init
<1>2. NoContent \in Content
  <2>1. /\ << >> \in Seq(Workpieces)
        /\ << >> \in Seq([place : Places, available : BOOLEAN])
    OBVIOUS
  <2> QED BY <2>1 DEF NoContent, Content
<1>3. /\ << >> \in Seq(Operation) /\ << >> \in Seq(Nat)
      /\ << >> \in Seq([screen : ScreenIds, id : Nat])
  OBVIOUS
<1>4. lastMessage \in [Submitters -> Texts] /\ \A s \in Submitters : lastMessage[s] = ""
  BY DEF Init, Submitters, Texts
<1>5. /\ DOMAIN view = ScreenIds
      /\ QueueFields \subseteq DOMAIN view["queue"]
      /\ "enabled" \in DOMAIN view["transport"]
      /\ ~MayMove /\ ~MayTransport
  BY <1>1
     DEF Blank, EmptyQueue, ScreenIds, MayMove, MayTransport, QueueFields
<1>6. ScreensTypes
  BY <1>2, <1>3, <1>4, <1>5 DEF Init, ScreensTypes, ScreenIds
<1>7. view[screen] = ViewOf(screen, selected, destination, lastMessage)
  <2>1. view[screen] = [slots |-> {}, enabled |-> FALSE, down |-> {}]
    BY <1>1 DEF Blank
  <2>2. /\ content.rack = {} /\ content.live = FALSE
    BY <1>1 DEF NoContent
  <2> QED BY <1>1, <2>1, <2>2 DEF ViewOf, RackView, IsInteractive
<1>8. StoreFits
  BY <1>1 DEF StoreFits, MovableIsOnRack, NoContent
<1>9. SelectionKept /\ RackFirst /\ ButtonsFit /\ HighlightFits
  BY <1>1, <1>5 DEF SelectionKept, RackFirst, ButtonsFit, HighlightFits
<1>10. OneOperationPerWorkpiece
  BY <1>1 DEF OneOperationPerWorkpiece
<1>11. BusyTextIsTrue
  BY <1>4 DEF BusyTextIsTrue
<1>12. VisibleIsCurrent
  BY <1>7 DEF VisibleIsCurrent, MayShow
<1> QED BY <1>6, <1>8, <1>9, <1>10, <1>11, <1>12 DEF IInv

(* The screens, their presenters and what they share always fit together   *)
(* (AppShellView.cpp, the three presenters, UiStateStore.cpp).             *)
THEOREM Invariance == Spec => []IInv
BY InitHolds, StepKeeps, PTL DEF Spec

(* The types of the screens.                                               *)
THEOREM TypeCorrect == Spec => []ScreensTypes
<1>1. IInv => ScreensTypes
  BY DEF IInv
<1> QED BY <1>1, Invariance, PTL

(* At rest the visible screen is what its presenter would draw now, but    *)
(* for the highlighting of the queue, which the operator can take away     *)
(* (MachiningQueueView.cpp 168-171).                                       *)
THEOREM CurrentCorrect == Spec => []VisibleScreenIsCurrent
<1>1. IInv => VisibleScreenIsCurrent
  <2> SUFFICES ASSUME IInv, AtRest
               PROVE  view[screen] \in MayShow(screen,
                          ViewOf(screen, selected, destination, lastMessage))
    BY DEF VisibleScreenIsCurrent
  <2>1. Quiet(screen)
    BY PendingNone DEF AtRest, Quiet
  <2> QED BY <2>1 DEF IInv, VisibleIsCurrent
<1> QED BY <1>1, Invariance, PTL

(* A workpiece never gets two operations at a time from the screens,       *)
(* although Submit does not look for one that is running.                  *)
THEOREM OneOperationCorrect == Spec => []OneOperationPerWorkpiece
<1>1. IInv => OneOperationPerWorkpiece
  BY DEF IInv
<1> QED BY <1>1, Invariance, PTL

(* No screen says "busy" when nothing of its kind is going on or still to  *)
(* be told.                                                                *)
THEOREM BusyCorrect == Spec => []BusyTextIsTrue
<1>1. IInv => BusyTextIsTrue
  BY DEF IInv
<1> QED BY <1>1, Invariance, PTL

(* The buttons submit nothing but what is highlighted; those of the queue  *)
(* submit the shared selection also when nothing is, but then it is not    *)
(* another workpiece that is shown.                                        *)
THEOREM HighlightCorrect == Spec => SubmitsNothingElse
<1> DEFINE Highlighted ==
      Len(operations') > Len(operations) /\ "snapshot" \notin messages =>
          LET new == operations'[Len(operations')]
          IN  IF new.kind = "PriorityChange"
              THEN /\ view.queue.selected \in {new.workpiece, Nobody}
                   /\ view.queue.instructions \in {new.workpiece, Nobody}
              ELSE /\ new.workpiece = view.transport.workpiece
                   /\ new.place = view.transport.destination
<1>1. ASSUME IInv, Next, Len(operations') > Len(operations),
             "snapshot" \notin messages
      PROVE  Highlighted
  <2>1. operations \in Seq(Operation) /\ Len(operations) \in Nat
    BY <1>1 DEF IInv, ScreensTypes
  <2>2. operations' # operations
    BY <1>1, <2>1
  <2>3. ~CompleteOperation
    <3>1. ASSUME CompleteOperation PROVE Len(operations') = Len(operations)
      BY <2>1, <3>1 DEF CompleteOperation
    <3> QED BY <1>1, <2>1, <3>1
  <2>4. PressMove \/ PressTransport
    BY <1>1, <2>2, <2>3
       DEF Next, PublishSnapshot, ChangeSession, Activate, OnSnapshotChanged,
           OnMachineModelStateChanged, OnOperationCompleted, Draw, ClickSlot,
           ClickRow, DeselectRow, ChooseWorkpiece, ChooseDestination,
           operationVars
  <2>5. CASE PressMove
    <3>1. MayMove /\ UiIdle /\ operations' = Append(operations,
              [kind |-> "PriorityChange", workpiece |-> selected,
               place |-> Nowhere, phase |-> "Running"])
      BY <2>2, <2>5 DEF PressMove, Submit, SubmitOperation, KindOf, MayMove
    <3>2. /\ view["queue"].selected \in {selected, Nobody}
          /\ view["queue"].instructions \in {selected, Nobody}
      BY <1>1, <3>1, PendingNone DEF IInv, ButtonsFit, HighlightFits
    <3> QED BY <2>1, <3>1, <3>2
  <2>6. CASE PressTransport
    <3>1. MayTransport /\ UiIdle /\ operations' = Append(operations,
              [kind |-> "ManualTransport", workpiece |-> selected,
               place |-> destination, phase |-> "Running"])
      BY <2>2, <2>6
         DEF PressTransport, Submit, SubmitOperation, KindOf, MayTransport
    <3>2. /\ view["transport"].workpiece = selected
          /\ view["transport"].destination = destination
      BY <1>1, <3>1, PendingNone DEF IInv, ButtonsFit, HighlightFits
    <3> QED BY <2>1, <3>1, <3>2
  <2> QED BY <2>4, <2>5, <2>6
<1>2. IInv /\ [Next]_vars => [Highlighted]_vars
  BY <1>1
<1> QED BY <1>2, Invariance, PTL DEF Spec, SubmitsNothingElse
=============================================================================
