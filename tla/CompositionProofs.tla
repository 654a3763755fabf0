-------------------------- MODULE CompositionProofs --------------------------
(***************************************************************************)
(* Proofs about Composition, for any command lines, any outcome of loading *)
(* the scenario and any number of operations.                              *)
(***************************************************************************)
EXTENDS Composition, SequenceTheorems, TLAPS

(* The lists of Composition, as far as the proofs look into them.          *)

(* An object is built after those it refers to.                            *)
LEMMA BuildOrderFacts ==
    /\ Len(BuildOrder) = 24
    /\ BuildOrder[18] = "operationExecutor"
    /\ \A i \in 1 .. 24 :
         /\ BuildOrder[i] \in Objects \ {"shell"}
         /\ Uses[BuildOrder[i]] \subseteq
              ({"shell"} \cup {BuildOrder[j] : j \in 1 .. (i - 1)})
    /\ Objects = {"shell"} \cup {BuildOrder[j] : j \in 1 .. 24}
<1>1. Len(BuildOrder) = 24 /\ BuildOrder[18] = "operationExecutor"
  BY DEF BuildOrder
<1>2. \A i \in 1 .. 24 : BuildOrder[i] \in Objects \ {"shell"}
  BY DEF BuildOrder, Objects, Uses
<1>3. \A i \in 1 .. 24 : Uses[BuildOrder[i]] \subseteq
            ({"shell"} \cup {BuildOrder[j] : j \in 1 .. (i - 1)})
  BY DEF BuildOrder, Uses
<1>4. Objects \subseteq ({"shell"} \cup {BuildOrder[j] : j \in 1 .. 24})
  BY DEF BuildOrder, Objects, Uses
<1>5. "shell" \in Objects
  BY DEF Objects, Uses
<1> QED BY <1>1, <1>2, <1>3, <1>4, <1>5

(* An object is destroyed before those it refers to.                       *)
LEMMA ResetOrderFacts ==
    /\ Len(ResetOrder) = 24
    /\ \A i \in 1 .. 24 : ResetOrder[i] \in Objects \ {"shell"}
    /\ Objects = {"shell"} \cup {ResetOrder[j] : j \in 1 .. 24}
<1>1. Len(ResetOrder) = 24 /\ \A i \in 1 .. 24 : ResetOrder[i] \in Objects \ {"shell"}
  BY DEF ResetOrder, Objects, Uses
<1>2. Objects \subseteq ({"shell"} \cup {ResetOrder[j] : j \in 1 .. 24})
  BY DEF ResetOrder, Objects, Uses
<1>3. "shell" \in Objects
  BY DEF Objects, Uses
<1> QED BY <1>1, <1>2, <1>3

(* What refers to an object has been destroyed when its turn comes.        *)
LEMMA ResetUses ==
    \A i \in 1 .. 24 : \A o \in Objects :
        ResetOrder[i] \in Uses[o] => o \in {ResetOrder[j] : j \in 1 .. i}
BY DEF ResetOrder, Objects, Uses

(* How long the lists are.                                                 *)
LEMMA Lengths ==
    /\ Len(BuildOrder) = 24 /\ Len(ResetOrder) = 24
    /\ Len(BindOrder) = 5 /\ Len(UnbindOrder) = 5 /\ Len(Presenters) = 4
BY DEF BuildOrder, ResetOrder, BindOrder, UnbindOrder, Presenters

(* An object refers to objects, the shell to none.                         *)
LEMMA UsesFacts ==
    /\ "shell" \in Objects
    /\ "operationExecutor" \in Objects
    /\ "monitoringWorker" \in Objects
    /\ Submitters \subseteq Objects
    /\ Uses["shell"] = {}
    /\ \A o \in Objects : Uses[o] \subseteq Objects
BY DEF Objects, Uses, Submitters

(* What is handed to the shell is taken back, the overlay's timer first.   *)
LEMMA BindFacts ==
    /\ Len(BindOrder) = 5 /\ Len(UnbindOrder) = 5 /\ Len(Presenters) = 4
    /\ UnbindOrder[1] = OperationServices
    /\ \A i \in 1 .. 5 :
         /\ BindOrder[i] \subseteq Objects
         /\ BindOrder[i] \subseteq UNION {UnbindOrder[j] : j \in 1 .. 5}
<1>1. /\ Len(BindOrder) = 5 /\ Len(UnbindOrder) = 5 /\ Len(Presenters) = 4
      /\ UnbindOrder[1] = OperationServices
  BY DEF BindOrder, UnbindOrder, Presenters
<1>2. \A i \in 1 .. 5 : BindOrder[i] \subseteq Objects
  BY DEF BindOrder, OperationServices, Objects, Uses
<1>3. \A i \in 1 .. 5 : \E j \in 1 .. 5 : BindOrder[i] = UnbindOrder[j]
  <2>1. BindOrder[1] = UnbindOrder[5] /\ BindOrder[2] = UnbindOrder[4]
        /\ BindOrder[3] = UnbindOrder[3] /\ BindOrder[4] = UnbindOrder[2]
        /\ BindOrder[5] = UnbindOrder[1]
    BY DEF BindOrder, UnbindOrder
  <2> QED BY <2>1
<1> QED BY <1>1, <1>2, <1>3
-----------------------------------------------------------------------------
(* The inductive invariant.                                                *)

Served == {"bind", "activate", "launch", "smoke", "loop"}
Joining == {"stopExecutor", "joinExecutor", "stopMonitoring", "joinMonitoring"}
InStop == Joining \cup {"unbind", "reset"}

(* Each list is followed from its beginning and only as far as it goes.    *)
StepInRange ==
    /\ ui \in Joining => step = 1
    /\ ui \in {"bind", "unbind"} => step <= 5
    /\ ui = "activate" => step <= 4

(* Which objects exist, by the place of the UI thread; while Stop runs it  *)
(* is what lies ahead that tells whether the window is still there.        *)
ObjectsFit ==
    /\ ui \in {"init", "exit", "ended"} => alive = {}
    /\ ui \in {"options", "box", "destroy"} => alive = {"shell"}
    /\ ui = "build" =>
         alive = {"shell"} \cup {BuildOrder[j] : j \in 1 .. (step - 1)}
    /\ ui \in Served => alive = Objects
    /\ ui \in InStop =>
         /\ after \in {"box", "destroy"} => "shell" \in alive
         /\ after \in {"exit", "ended"} => alive = {}
    /\ ui = "reset" => \A j \in 1 .. (step - 1) : ResetOrder[j] \notin alive
    /\ \A o \in alive : Uses[o] \subseteq alive

(* What the shell points to, and that Stop knows of it.                    *)
PointersFit ==
    /\ bound \subseteq alive
    /\ bound \subseteq UNION {UnbindOrder[j] : j \in 1 .. 5}
    /\ bound # {} => ui \in Served \cup Joining \cup {"unbind"}
    /\ ui = "unbind" => bound \subseteq UNION {UnbindOrder[j] : j \in step .. 5}
    /\ ui \in Served \cup {"build"} => shellRef
    /\ bound # {} /\ ui \in Joining => shellRef
    /\ shellRef => /\ "shell" \in alive
                   /\ ui \in Served \cup InStop \cup {"build"}
    /\ running => ui \in Served \cup InStop

(* The overlay's timer is killed with the first pointer taken back; the    *)
(* smoke timer is set only by a start that succeeds.                       *)
TimersFit ==
    /\ "overlay" \in timers =>
         /\ ui \in Served \cup Joining \cup {"unbind"}
         /\ ui \in Joining => shellRef
         /\ ui = "unbind" => step = 1
    /\ "smoke" \in timers => \/ ui \in {"loop", "destroy"}
                             \/ ui \in InStop /\ after = "destroy"

(* Where the threads run, what they have been told, and what a task needs. *)
ThreadsFit ==
    /\ ui \in Served => worker \notin {"none", "gone"}
    /\ ui = "build" /\ step > 18 => worker \notin {"none", "gone"}
    /\ worker \notin {"none", "gone"} =>
         /\ ui \in Served \cup {"build", "stopExecutor", "joinExecutor"}
         /\ "operationExecutor" \in alive
    /\ ui \in {"smoke", "loop"} => monitor = "running"
    /\ monitor = "running" => /\ ui \in {"smoke", "loop"} \cup Joining
                              /\ "monitoringWorker" \in alive
    /\ ui \in Served \cup {"init", "options", "build"} => stopping = {}
    /\ tasks # << >> => worker \notin {"none", "gone"}
    /\ tasks # << >> \/ worker \in Submitters =>
         /\ ui \in {"loop", "stopExecutor", "joinExecutor"}
         /\ Submitters \subseteq alive
         /\ monitor = "running" /\ "monitor" \notin stopping

(* The root is given up before the end.                                    *)
RootFits ==
    /\ ui \in {"init", "ended"} => ~root
    /\ ui \in InStop /\ after = "ended" => ~root

IInv ==
    /\ CompositionTypeOK
    /\ StepInRange
    /\ ObjectsFit
    /\ PointersFit
    /\ TimersFit
    /\ ThreadsFit
    /\ RootFits

-----------------------------------------------------------------------------
(* The position stays inside the list that is followed.                    *)
LEMMA StepTyped ==
    ASSUME IInv, [Next]_vars
    PROVE  step' \in 1 .. 24
<1>1. step \in 1 .. 24
  BY Lengths DEF IInv, CompositionTypeOK
<1>2. CASE Construct
  BY <1>1, <1>2, Lengths DEF Construct, IInv, StepInRange
<1>3. CASE Bind
  BY <1>1, <1>3, Lengths DEF Bind, IInv, StepInRange
<1>4. CASE ActivatePresenter
  BY <1>1, <1>4, Lengths DEF ActivatePresenter, IInv, StepInRange
<1>5. CASE Unbind
  BY <1>1, <1>5, Lengths DEF Unbind, IInv, StepInRange
<1>6. CASE Reset
  BY <1>1, <1>6, Lengths DEF Reset, IInv, StepInRange
<1>7. CASE ~(Construct \/ Bind \/ ActivatePresenter \/ Unbind \/ Reset)
  <2>1. step' = step \/ step' = 1
    BY <1>7
       DEF Next, Starting, Stopping, Threads, vars, BeginStop, CreateFrame,
           ReadInputs, Launch, FinishStart, StartThrows, StopExecutor,
           JoinExecutor, StopMonitoring, JoinMonitoring, DestroyWindow,
           ExitInstance, MonitorExit, WorkerTake, WorkerComplete, WorkerExit,
           MonitorTick, HandleMessage, Submit, SmokeTimer, OnClose,
           DismissBox, Rest
  <2> QED BY <1>1, <2>1
<1> QED BY <1>2, <1>3, <1>4, <1>5, <1>6, <1>7

(* A step preserves the types, one action after the other.                 *)
LEMMA TypeKeeps ==
    ASSUME IInv, [Next]_vars
    PROVE  CompositionTypeOK'
<1>0. step' \in 1 .. Len(BuildOrder)
  BY StepTyped, Lengths
<1>1. CASE CreateFrame
  BY <1>0, <1>1, UsesFacts
     DEF CreateFrame, threadVars, inputVars, IInv, CompositionTypeOK, UiPlaces
<1>2. CASE ReadInputs
  BY <1>0, <1>2
     DEF ReadInputs, threadVars, inputVars, IInv, CompositionTypeOK, UiPlaces
<1>3. CASE Construct
  BY <1>0, <1>3, BuildOrderFacts
     DEF Construct, threadVars, inputVars, IInv, CompositionTypeOK, UiPlaces
<1>4. CASE Bind
  <2>1. step \in 1 .. 5 /\ ui = "bind"
    BY <1>4, Lengths DEF Bind, IInv, StepInRange, CompositionTypeOK
  <2>2. bound' \subseteq Objects
    BY <1>4, <2>1, BindFacts DEF Bind, IInv, CompositionTypeOK
  <2>3. timers' \subseteq {"overlay", "smoke"}
    BY <1>4 DEF Bind, IInv, CompositionTypeOK
  <2> QED BY <1>0, <1>4, <2>2, <2>3
          DEF Bind, threadVars, inputVars, IInv, CompositionTypeOK, UiPlaces
<1>5. CASE ActivatePresenter
  BY <1>0, <1>5
     DEF ActivatePresenter, threadVars, inputVars, IInv, CompositionTypeOK,
         UiPlaces
<1>6. CASE Launch
  BY <1>0, <1>6
     DEF Launch, threadVars, inputVars, IInv, CompositionTypeOK, UiPlaces
<1>7. CASE FinishStart
  BY <1>0, <1>7
     DEF FinishStart, BeginStop, threadVars, inputVars, IInv,
         CompositionTypeOK, UiPlaces
<1>8. CASE StartThrows
  BY <1>0, <1>8
     DEF StartThrows, BeginStop, threadVars, inputVars, IInv,
         CompositionTypeOK, UiPlaces
<1>9. CASE StopExecutor
  BY <1>0, <1>9
     DEF StopExecutor, threadVars, inputVars, IInv, CompositionTypeOK, UiPlaces
<1>10. CASE JoinExecutor
  BY <1>0, <1>10
     DEF JoinExecutor, threadVars, inputVars, IInv, CompositionTypeOK, UiPlaces
<1>11. CASE StopMonitoring
  BY <1>0, <1>11
     DEF StopMonitoring, threadVars, inputVars, IInv, CompositionTypeOK,
         UiPlaces
<1>12. CASE JoinMonitoring
  BY <1>0, <1>12
     DEF JoinMonitoring, threadVars, inputVars, IInv, CompositionTypeOK,
         UiPlaces
<1>13. CASE Unbind
  BY <1>0, <1>13
     DEF Unbind, threadVars, inputVars, IInv, CompositionTypeOK, UiPlaces
<1>14. CASE Reset
  BY <1>0, <1>14
     DEF Reset, threadVars, inputVars, IInv, CompositionTypeOK, UiPlaces
<1>15. CASE DestroyWindow
  BY <1>0, <1>15
     DEF DestroyWindow, threadVars, inputVars, IInv, CompositionTypeOK,
         UiPlaces
<1>16. CASE ExitInstance
  BY <1>0, <1>16
     DEF ExitInstance, BeginStop, threadVars, inputVars, IInv,
         CompositionTypeOK, UiPlaces
<1>17. CASE MonitorExit
  BY <1>0, <1>17
     DEF MonitorExit, threadVars, inputVars, IInv, CompositionTypeOK, UiPlaces
<1>18. CASE WorkerTake
  BY <1>0, <1>18
     DEF WorkerTake, threadVars, inputVars, IInv, CompositionTypeOK, UiPlaces
<1>19. CASE WorkerComplete
  BY <1>0, <1>19
     DEF WorkerComplete, Post, threadVars, inputVars, IInv, CompositionTypeOK,
         UiPlaces
<1>20. CASE WorkerExit
  BY <1>0, <1>20
     DEF WorkerExit, threadVars, inputVars, IInv, CompositionTypeOK, UiPlaces
<1>21. CASE MonitorTick
  BY <1>0, <1>21
     DEF MonitorTick, Post, threadVars, inputVars, IInv, CompositionTypeOK,
         UiPlaces
<1>22. CASE HandleMessage
  BY <1>0, <1>22
     DEF HandleMessage, threadVars, inputVars, IInv, CompositionTypeOK,
         UiPlaces
<1>23. CASE \E presenter \in Submitters : Submit(presenter)
  <2>1. tasks \in Seq(Submitters) /\ submitted \in 0 .. MaxTasks
    BY DEF IInv, CompositionTypeOK
  <2>2. tasks' \in Seq(Submitters)
    BY <1>23, <2>1 DEF Submit
  <2>3. submitted' \in 0 .. MaxTasks
    BY <1>23, <2>1, CompositionAssumption DEF Submit
  <2> QED BY <1>0, <1>23, <2>2, <2>3
          DEF Submit, inputVars, IInv, CompositionTypeOK
<1>24. CASE SmokeTimer
  BY <1>0, <1>24
     DEF SmokeTimer, threadVars, inputVars, IInv, CompositionTypeOK, UiPlaces
<1>25. CASE OnClose
  BY <1>0, <1>25
     DEF OnClose, BeginStop, threadVars, inputVars, IInv, CompositionTypeOK,
         UiPlaces
<1>26. CASE DismissBox
  BY <1>0, <1>26
     DEF DismissBox, BeginStop, threadVars, inputVars, IInv,
         CompositionTypeOK, UiPlaces
<1>27. CASE Rest
  BY <1>0, <1>27
     DEF Rest, vars, threadVars, inputVars, IInv, CompositionTypeOK, UiPlaces
<1>28. CASE UNCHANGED vars
  BY <1>28 DEF vars, threadVars, inputVars, IInv, CompositionTypeOK
<1> QED BY <1>1, <1>2, <1>3, <1>4, <1>5, <1>6, <1>7, <1>8, <1>9, <1>10, <1>11,
           <1>12, <1>13, <1>14, <1>15, <1>16, <1>17, <1>18, <1>19, <1>20,
           <1>21, <1>22, <1>23, <1>24, <1>25, <1>26, <1>27, <1>28
           DEF Next, Starting, Stopping, Threads

(* A step preserves the invariant; where an action disturbs much of it,    *)
(* one part after the other.                                               *)
LEMMA StepKeeps ==
    ASSUME IInv, [Next]_vars
    PROVE  IInv'
<1>0. CompositionTypeOK'
  BY TypeKeeps
<1>1. CASE CreateFrame
  <2>1. StepInRange'
    BY <1>1
       DEF CreateFrame, threadVars, inputVars, IInv, CompositionTypeOK,
           StepInRange, ObjectsFit, PointersFit, TimersFit, ThreadsFit,
           RootFits, Served, Joining, InStop
  <2>2. ObjectsFit'
    BY <1>1, UsesFacts
       DEF CreateFrame, threadVars, inputVars, IInv, CompositionTypeOK,
           StepInRange, ObjectsFit, PointersFit, TimersFit, ThreadsFit,
           RootFits, Served, Joining, InStop
  <2>3. PointersFit'
    BY <1>1
       DEF CreateFrame, threadVars, inputVars, IInv, CompositionTypeOK,
           StepInRange, ObjectsFit, PointersFit, TimersFit, ThreadsFit,
           RootFits, Served, Joining, InStop
  <2>4. TimersFit'
    BY <1>1
       DEF CreateFrame, threadVars, inputVars, IInv, CompositionTypeOK,
           StepInRange, ObjectsFit, PointersFit, TimersFit, ThreadsFit,
           RootFits, Served, Joining, InStop
  <2>5. ThreadsFit'
    BY <1>1
       DEF CreateFrame, threadVars, inputVars, IInv, CompositionTypeOK,
           StepInRange, ObjectsFit, PointersFit, TimersFit, ThreadsFit,
           RootFits, Served, Joining, InStop, Submitters
  <2>6. RootFits'
    BY <1>1
       DEF CreateFrame, threadVars, inputVars, IInv, CompositionTypeOK,
           StepInRange, ObjectsFit, PointersFit, TimersFit, ThreadsFit,
           RootFits, Served, Joining, InStop
  <2> QED BY <1>0, <2>1, <2>2, <2>3, <2>4, <2>5, <2>6 DEF IInv
<1>2. CASE ReadInputs
  <2>1. StepInRange'
    BY <1>2
       DEF ReadInputs, threadVars, inputVars, IInv, CompositionTypeOK,
           StepInRange, ObjectsFit, PointersFit, TimersFit, ThreadsFit,
           RootFits, Served, Joining, InStop
  <2>2. ObjectsFit'
    BY <1>2
       DEF ReadInputs, threadVars, inputVars, IInv, CompositionTypeOK,
           StepInRange, ObjectsFit, PointersFit, TimersFit, ThreadsFit,
           RootFits, Served, Joining, InStop
  <2>3. PointersFit'
    BY <1>2
       DEF ReadInputs, threadVars, inputVars, IInv, CompositionTypeOK,
           StepInRange, ObjectsFit, PointersFit, TimersFit, ThreadsFit,
           RootFits, Served, Joining, InStop
  <2>4. TimersFit'
    BY <1>2
       DEF ReadInputs, threadVars, inputVars, IInv, CompositionTypeOK,
           StepInRange, ObjectsFit, PointersFit, TimersFit, ThreadsFit,
           RootFits, Served, Joining, InStop
  <2>5. ThreadsFit'
    BY <1>2
       DEF ReadInputs, threadVars, inputVars, IInv, CompositionTypeOK,
           StepInRange, ObjectsFit, PointersFit, TimersFit, ThreadsFit,
           RootFits, Served, Joining, InStop, Submitters
  <2>6. RootFits'
    BY <1>2
       DEF ReadInputs, threadVars, inputVars, IInv, CompositionTypeOK,
           StepInRange, ObjectsFit, PointersFit, TimersFit, ThreadsFit,
           RootFits, Served, Joining, InStop
  <2> QED BY <1>0, <2>1, <2>2, <2>3, <2>4, <2>5, <2>6 DEF IInv
<1>3. CASE Construct
  <2>1. StepInRange'
    BY <1>3, Lengths
       DEF Construct, threadVars, inputVars, IInv, CompositionTypeOK,
           StepInRange, ObjectsFit, PointersFit, TimersFit, ThreadsFit,
           RootFits, Served, Joining, InStop
  <2>2. ObjectsFit'
    <3>1. /\ step \in 1 .. 24 /\ ui = "build"
          /\ alive = {"shell"} \cup {BuildOrder[j] : j \in 1 .. (step - 1)}
          /\ alive' = alive \cup {BuildOrder[step]}
      BY <1>3, Lengths DEF Construct, IInv, CompositionTypeOK, ObjectsFit
    <3>2. alive' = {"shell"} \cup {BuildOrder[j] : j \in 1 .. step}
      <4>1. 1 .. step = (1 .. (step - 1)) \cup {step}
        BY <3>1
      <4> QED BY <3>1, <4>1
    <3>3. \A o \in alive' : Uses[o] \subseteq alive'
      <4>1. Uses[BuildOrder[step]] \subseteq alive
        BY <3>1, BuildOrderFacts
      <4> QED BY <3>1, <4>1 DEF IInv, ObjectsFit
    <3>4. CASE step < 24
      <4>1. ui' = "build" /\ step' = step + 1 /\ step' - 1 = step
        BY <1>3, <3>1, <3>4, Lengths DEF Construct
      <4> QED BY <3>2, <3>3, <4>1 DEF ObjectsFit, Served, InStop, Joining
    <3>5. CASE step = 24
      <4>1. ui' = "bind" /\ alive' = Objects
        BY <1>3, <3>2, <3>5, BuildOrderFacts DEF Construct
      <4> QED BY <3>3, <4>1 DEF ObjectsFit, Served, InStop, Joining
    <3> QED BY <3>1, <3>4, <3>5
  <2>3. PointersFit'
    BY <1>3, BuildOrderFacts
       DEF Construct, threadVars, inputVars, IInv, CompositionTypeOK,
           StepInRange, ObjectsFit, PointersFit, TimersFit, ThreadsFit,
           RootFits, Served, Joining, InStop
  <2>4. TimersFit'
    BY <1>3
       DEF Construct, threadVars, inputVars, IInv, CompositionTypeOK,
           StepInRange, ObjectsFit, PointersFit, TimersFit, ThreadsFit,
           RootFits, Served, Joining, InStop
  <2>5. ThreadsFit'
    <3>1. /\ step \in 1 .. 24 /\ ui = "build"
          /\ tasks = << >> /\ worker \notin Submitters
          /\ monitor # "running" /\ stopping = {}
      BY <1>3, Lengths DEF Construct, IInv, CompositionTypeOK, ThreadsFit,
                           Joining, Served
    <3>2. worker' \notin {"none", "gone"} => "operationExecutor" \in alive'
      BY <1>3 DEF Construct, IInv, ThreadsFit
    <3>3. step >= 18 => worker' \notin {"none", "gone"}
      BY <1>3, <3>1, BuildOrderFacts DEF Construct, IInv, ThreadsFit
    <3>4. worker' \notin Submitters
      BY <1>3, <3>1 DEF Construct, Submitters
    <3>5. \/ ui' = "build" /\ step' = step + 1
          \/ ui' = "bind" /\ step = 24
      BY <1>3, <3>1, Lengths DEF Construct
    <3> QED BY <1>3, <3>1, <3>2, <3>3, <3>4, <3>5
            DEF Construct, ThreadsFit, Served
  <2>6. RootFits'
    BY <1>3
       DEF Construct, threadVars, inputVars, IInv, CompositionTypeOK,
           StepInRange, ObjectsFit, PointersFit, TimersFit, ThreadsFit,
           RootFits, Served, Joining, InStop
  <2> QED BY <1>0, <2>1, <2>2, <2>3, <2>4, <2>5, <2>6 DEF IInv
<1>4. CASE Bind
  <2>1. StepInRange'
    BY <1>4, Lengths
       DEF Bind, threadVars, inputVars, IInv, CompositionTypeOK, StepInRange,
           ObjectsFit, PointersFit, TimersFit, ThreadsFit, RootFits, Served,
           Joining, InStop
  <2>2. ObjectsFit'
    BY <1>4
       DEF Bind, threadVars, inputVars, IInv, CompositionTypeOK, StepInRange,
           ObjectsFit, PointersFit, TimersFit, ThreadsFit, RootFits, Served,
           Joining, InStop
  <2>3. PointersFit'
    BY <1>4, BindFacts
       DEF Bind, threadVars, inputVars, IInv, CompositionTypeOK, StepInRange,
           ObjectsFit, PointersFit, TimersFit, ThreadsFit, RootFits, Served,
           Joining, InStop
  <2>4. TimersFit'
    BY <1>4
       DEF Bind, threadVars, inputVars, IInv, CompositionTypeOK, StepInRange,
           ObjectsFit, PointersFit, TimersFit, ThreadsFit, RootFits, Served,
           Joining, InStop
  <2>5. ThreadsFit'
    BY <1>4
       DEF Bind, threadVars, inputVars, IInv, CompositionTypeOK, StepInRange,
           ObjectsFit, PointersFit, TimersFit, ThreadsFit, RootFits, Served,
           Joining, InStop, Submitters
  <2>6. RootFits'
    BY <1>4
       DEF Bind, threadVars, inputVars, IInv, CompositionTypeOK, StepInRange,
           ObjectsFit, PointersFit, TimersFit, ThreadsFit, RootFits, Served,
           Joining, InStop
  <2> QED BY <1>0, <2>1, <2>2, <2>3, <2>4, <2>5, <2>6 DEF IInv
<1>5. CASE ActivatePresenter
  <2>1. StepInRange'
    BY <1>5, Lengths
       DEF ActivatePresenter, threadVars, inputVars, IInv, CompositionTypeOK,
           StepInRange, ObjectsFit, PointersFit, TimersFit, ThreadsFit,
           RootFits, Served, Joining, InStop
  <2>2. ObjectsFit'
    BY <1>5
       DEF ActivatePresenter, threadVars, inputVars, IInv, CompositionTypeOK,
           StepInRange, ObjectsFit, PointersFit, TimersFit, ThreadsFit,
           RootFits, Served, Joining, InStop
  <2>3. PointersFit'
    BY <1>5
       DEF ActivatePresenter, threadVars, inputVars, IInv, CompositionTypeOK,
           StepInRange, ObjectsFit, PointersFit, TimersFit, ThreadsFit,
           RootFits, Served, Joining, InStop
  <2>4. TimersFit'
    BY <1>5
       DEF ActivatePresenter, threadVars, inputVars, IInv, CompositionTypeOK,
           StepInRange, ObjectsFit, PointersFit, TimersFit, ThreadsFit,
           RootFits, Served, Joining, InStop
  <2>5. ThreadsFit'
    BY <1>5
       DEF ActivatePresenter, threadVars, inputVars, IInv, CompositionTypeOK,
           StepInRange, ObjectsFit, PointersFit, TimersFit, ThreadsFit,
           RootFits, Served, Joining, InStop, Submitters
  <2>6. RootFits'
    BY <1>5
       DEF ActivatePresenter, threadVars, inputVars, IInv, CompositionTypeOK,
           StepInRange, ObjectsFit, PointersFit, TimersFit, ThreadsFit,
           RootFits, Served, Joining, InStop
  <2> QED BY <1>0, <2>1, <2>2, <2>3, <2>4, <2>5, <2>6 DEF IInv
<1>6. CASE Launch
  <2>1. StepInRange'
    BY <1>6
       DEF Launch, threadVars, inputVars, IInv, CompositionTypeOK,
           StepInRange, ObjectsFit, PointersFit, TimersFit, ThreadsFit,
           RootFits, Served, Joining, InStop
  <2>2. ObjectsFit'
    BY <1>6
       DEF Launch, threadVars, inputVars, IInv, CompositionTypeOK,
           StepInRange, ObjectsFit, PointersFit, TimersFit, ThreadsFit,
           RootFits, Served, Joining, InStop
  <2>3. PointersFit'
    BY <1>6
       DEF Launch, threadVars, inputVars, IInv, CompositionTypeOK,
           StepInRange, ObjectsFit, PointersFit, TimersFit, ThreadsFit,
           RootFits, Served, Joining, InStop
  <2>4. TimersFit'
    BY <1>6
       DEF Launch, threadVars, inputVars, IInv, CompositionTypeOK,
           StepInRange, ObjectsFit, PointersFit, TimersFit, ThreadsFit,
           RootFits, Served, Joining, InStop
  <2>5. ThreadsFit'
    BY <1>6, UsesFacts
       DEF Launch, threadVars, inputVars, IInv, CompositionTypeOK,
           StepInRange, ObjectsFit, PointersFit, TimersFit, ThreadsFit,
           RootFits, Served, Joining, InStop, Submitters
  <2>6. RootFits'
    BY <1>6
       DEF Launch, threadVars, inputVars, IInv, CompositionTypeOK,
           StepInRange, ObjectsFit, PointersFit, TimersFit, ThreadsFit,
           RootFits, Served, Joining, InStop
  <2> QED BY <1>0, <2>1, <2>2, <2>3, <2>4, <2>5, <2>6 DEF IInv
<1>7. CASE FinishStart
  BY <1>0, <1>7
     DEF FinishStart, BeginStop, threadVars, inputVars, IInv,
         CompositionTypeOK, StepInRange, ObjectsFit, PointersFit, TimersFit,
         ThreadsFit, RootFits, Served, Joining, InStop, Submitters
<1>8. CASE StartThrows
  BY <1>0, <1>8
     DEF StartThrows, BeginStop, threadVars, inputVars, IInv,
         CompositionTypeOK, StepInRange, ObjectsFit, PointersFit, TimersFit,
         ThreadsFit, RootFits, Served, Joining, InStop, Submitters
<1>9. CASE StopExecutor
  BY <1>0, <1>9
     DEF StopExecutor, threadVars, inputVars, IInv, CompositionTypeOK,
         StepInRange, ObjectsFit, PointersFit, TimersFit, ThreadsFit,
         RootFits, Served, Joining, InStop, Submitters
<1>10. CASE JoinExecutor
  BY <1>0, <1>10
     DEF JoinExecutor, threadVars, inputVars, IInv, CompositionTypeOK,
         StepInRange, ObjectsFit, PointersFit, TimersFit, ThreadsFit,
         RootFits, Served, Joining, InStop, Submitters
<1>11. CASE StopMonitoring
  BY <1>0, <1>11
     DEF StopMonitoring, threadVars, inputVars, IInv, CompositionTypeOK,
         StepInRange, ObjectsFit, PointersFit, TimersFit, ThreadsFit,
         RootFits, Served, Joining, InStop, Submitters
<1>12. CASE JoinMonitoring
  BY <1>0, <1>12
     DEF JoinMonitoring, threadVars, inputVars, IInv, CompositionTypeOK,
         StepInRange, ObjectsFit, PointersFit, TimersFit, ThreadsFit,
         RootFits, Served, Joining, InStop, Submitters
<1>13. CASE Unbind
  <2>1. StepInRange'
    BY <1>13, Lengths
       DEF Unbind, threadVars, inputVars, IInv, CompositionTypeOK,
           StepInRange, ObjectsFit, PointersFit, TimersFit, ThreadsFit,
           RootFits, Served, Joining, InStop
  <2>2. ObjectsFit'
    BY <1>13
       DEF Unbind, threadVars, inputVars, IInv, CompositionTypeOK,
           StepInRange, ObjectsFit, PointersFit, TimersFit, ThreadsFit,
           RootFits, Served, Joining, InStop
  <2>3. PointersFit'
    BY <1>13, BindFacts
       DEF Unbind, threadVars, inputVars, IInv, CompositionTypeOK,
           StepInRange, ObjectsFit, PointersFit, TimersFit, ThreadsFit,
           RootFits, Served, Joining, InStop
  <2>4. TimersFit'
    BY <1>13, BindFacts
       DEF Unbind, threadVars, inputVars, IInv, CompositionTypeOK,
           StepInRange, ObjectsFit, PointersFit, TimersFit, ThreadsFit,
           RootFits, Served, Joining, InStop
  <2>5. ThreadsFit'
    BY <1>13
       DEF Unbind, threadVars, inputVars, IInv, CompositionTypeOK,
           StepInRange, ObjectsFit, PointersFit, TimersFit, ThreadsFit,
           RootFits, Served, Joining, InStop, Submitters
  <2>6. RootFits'
    BY <1>13
       DEF Unbind, threadVars, inputVars, IInv, CompositionTypeOK,
           StepInRange, ObjectsFit, PointersFit, TimersFit, ThreadsFit,
           RootFits, Served, Joining, InStop
  <2> QED BY <1>0, <2>1, <2>2, <2>3, <2>4, <2>5, <2>6 DEF IInv
<1>14. CASE Reset
  <2>1. StepInRange'
    BY <1>14, Lengths
       DEF Reset, threadVars, inputVars, IInv, CompositionTypeOK, StepInRange,
           ObjectsFit, PointersFit, TimersFit, ThreadsFit, RootFits, Served,
           Joining, InStop
  <2>2. ObjectsFit'
    <3> DEFINE r == ResetOrder[step]
    <3>1. /\ step \in 1 .. 24 /\ ui = "reset" /\ alive' = alive \ {r}
          /\ after' = after /\ after \in {"box", "destroy", "exit", "ended"}
          /\ alive \subseteq Objects
      BY <1>14, Lengths DEF Reset, IInv, CompositionTypeOK
    <3>2. /\ \A j \in 1 .. (step - 1) : ResetOrder[j] \notin alive
          /\ \A o \in alive : Uses[o] \subseteq alive
          /\ after \in {"box", "destroy"} => "shell" \in alive
          /\ after \in {"exit", "ended"} => alive = {}
      BY <3>1 DEF IInv, ObjectsFit, InStop
    <3>3. r # "shell"
      BY <3>1, ResetOrderFacts
    <3>4. \A j \in 1 .. step : ResetOrder[j] \notin alive'
      <4>1. \A j \in 1 .. step : j = step \/ j \in 1 .. (step - 1)
        BY <3>1
      <4> QED BY <3>1, <3>2, <4>1
    <3>5. \A o \in alive' : Uses[o] \subseteq alive'
      <4> SUFFICES ASSUME NEW o \in alive', r \in Uses[o]
                   PROVE  FALSE
        BY <3>1, <3>2
      <4>1. PICK j \in 1 .. step : o = ResetOrder[j]
        BY <3>1, ResetUses
      <4> QED BY <3>4, <4>1
    <3>6. CASE step < 24
      <4>1. ui' = "reset" /\ step' = step + 1 /\ step' - 1 = step
        BY <1>14, <3>1, <3>6, Lengths DEF Reset
      <4> QED BY <3>1, <3>2, <3>3, <3>4, <3>5, <4>1
              DEF ObjectsFit, InStop, Joining, Served
    <3>7. CASE step = 24
      <4>1. ui' = after
        BY <1>14, <3>7, Lengths DEF Reset
      <4>2. alive' \subseteq {"shell"}
        <5> SUFFICES ASSUME NEW o \in alive', o # "shell"
                     PROVE  FALSE
          OBVIOUS
        <5>1. PICK j \in 1 .. 24 : o = ResetOrder[j]
          BY <3>1, ResetOrderFacts
        <5> QED BY <3>4, <3>7, <5>1
      <4>3. after \in {"box", "destroy"} => alive' = {"shell"}
        BY <3>1, <3>2, <3>3, <4>2
      <4>4. after \in {"exit", "ended"} => alive' = {}
        BY <3>1, <3>2
      <4> QED BY <3>1, <3>5, <4>1, <4>3, <4>4
              DEF ObjectsFit, InStop, Joining, Served
    <3> QED BY <3>1, <3>6, <3>7
  <2>3. PointersFit'
    <3>1. bound = {} /\ bound' = {}
      BY <1>14 DEF Reset, IInv, PointersFit, Served, Joining
    <3>2. step \in 1 .. 24 /\ ResetOrder[step] # "shell"
      BY Lengths, ResetOrderFacts DEF IInv, CompositionTypeOK
    <3>3. shellRef => "shell" \in alive'
      BY <1>14, <3>2 DEF Reset, IInv, PointersFit
    <3>4. \/ ui' = "reset" /\ UNCHANGED <<shellRef, running>>
          \/ /\ ui' \in {"box", "destroy", "exit", "ended"}
             /\ shellRef' = FALSE /\ running' = FALSE
      BY <1>14 DEF Reset, IInv, CompositionTypeOK
    <3> QED BY <3>1, <3>3, <3>4
            DEF PointersFit, Served, InStop, Joining
  <2>4. TimersFit'
    BY <1>14
       DEF Reset, threadVars, inputVars, IInv, CompositionTypeOK, StepInRange,
           ObjectsFit, PointersFit, TimersFit, ThreadsFit, RootFits, Served,
           Joining, InStop
  <2>5. ThreadsFit'
    BY <1>14, ResetOrderFacts
       DEF Reset, threadVars, inputVars, IInv, CompositionTypeOK, StepInRange,
           ObjectsFit, PointersFit, TimersFit, ThreadsFit, RootFits, Served,
           Joining, InStop, Submitters
  <2>6. RootFits'
    BY <1>14
       DEF Reset, threadVars, inputVars, IInv, CompositionTypeOK, StepInRange,
           ObjectsFit, PointersFit, TimersFit, ThreadsFit, RootFits, Served,
           Joining, InStop
  <2> QED BY <1>0, <2>1, <2>2, <2>3, <2>4, <2>5, <2>6 DEF IInv
<1>15. CASE DestroyWindow
  BY <1>0, <1>15
     DEF DestroyWindow, threadVars, inputVars, IInv, CompositionTypeOK,
         StepInRange, ObjectsFit, PointersFit, TimersFit, ThreadsFit,
         RootFits, Served, Joining, InStop, Submitters
<1>16. CASE ExitInstance
  BY <1>0, <1>16
     DEF ExitInstance, BeginStop, threadVars, inputVars, IInv,
         CompositionTypeOK, StepInRange, ObjectsFit, PointersFit, TimersFit,
         ThreadsFit, RootFits, Served, Joining, InStop, Submitters
<1>17. CASE MonitorExit
  BY <1>0, <1>17
     DEF MonitorExit, threadVars, inputVars, IInv, CompositionTypeOK,
         StepInRange, ObjectsFit, PointersFit, TimersFit, ThreadsFit,
         RootFits, Served, Joining, InStop, Submitters
<1>18. CASE WorkerTake
  BY <1>0, <1>18
     DEF WorkerTake, threadVars, inputVars, IInv, CompositionTypeOK,
         StepInRange, ObjectsFit, PointersFit, TimersFit, ThreadsFit,
         RootFits, Served, Joining, InStop, Submitters
<1>19. CASE WorkerComplete
  BY <1>0, <1>19
     DEF WorkerComplete, Post, threadVars, inputVars, IInv, CompositionTypeOK,
         StepInRange, ObjectsFit, PointersFit, TimersFit, ThreadsFit,
         RootFits, Served, Joining, InStop, Submitters
<1>20. CASE WorkerExit
  BY <1>0, <1>20
     DEF WorkerExit, threadVars, inputVars, IInv, CompositionTypeOK,
         StepInRange, ObjectsFit, PointersFit, TimersFit, ThreadsFit,
         RootFits, Served, Joining, InStop, Submitters
<1>21. CASE MonitorTick
  BY <1>0, <1>21
     DEF MonitorTick, Post, threadVars, inputVars, IInv, CompositionTypeOK,
         StepInRange, ObjectsFit, PointersFit, TimersFit, ThreadsFit,
         RootFits, Served, Joining, InStop, Submitters
<1>22. CASE HandleMessage
  BY <1>0, <1>22
     DEF HandleMessage, threadVars, inputVars, IInv, CompositionTypeOK,
         StepInRange, ObjectsFit, PointersFit, TimersFit, ThreadsFit,
         RootFits, Served, Joining, InStop, Submitters
<1>23. CASE \E presenter \in Submitters : Submit(presenter)
  <2>1. StepInRange'
    BY <1>23
       DEF Submit, threadVars, inputVars, IInv, CompositionTypeOK,
           StepInRange, ObjectsFit, PointersFit, TimersFit, ThreadsFit,
           RootFits, Served, Joining, InStop
  <2>2. ObjectsFit'
    BY <1>23
       DEF Submit, threadVars, inputVars, IInv, CompositionTypeOK,
           StepInRange, ObjectsFit, PointersFit, TimersFit, ThreadsFit,
           RootFits, Served, Joining, InStop
  <2>3. PointersFit'
    BY <1>23
       DEF Submit, threadVars, inputVars, IInv, CompositionTypeOK,
           StepInRange, ObjectsFit, PointersFit, TimersFit, ThreadsFit,
           RootFits, Served, Joining, InStop
  <2>4. TimersFit'
    BY <1>23
       DEF Submit, threadVars, inputVars, IInv, CompositionTypeOK,
           StepInRange, ObjectsFit, PointersFit, TimersFit, ThreadsFit,
           RootFits, Served, Joining, InStop
  <2>5. ThreadsFit'
    BY <1>23, UsesFacts
       DEF Submit, threadVars, inputVars, IInv, CompositionTypeOK,
           StepInRange, ObjectsFit, PointersFit, TimersFit, ThreadsFit,
           RootFits, Served, Joining, InStop, Submitters
  <2>6. RootFits'
    BY <1>23
       DEF Submit, threadVars, inputVars, IInv, CompositionTypeOK,
           StepInRange, ObjectsFit, PointersFit, TimersFit, ThreadsFit,
           RootFits, Served, Joining, InStop
  <2> QED BY <1>0, <2>1, <2>2, <2>3, <2>4, <2>5, <2>6 DEF IInv
<1>24. CASE SmokeTimer
  BY <1>0, <1>24
     DEF SmokeTimer, threadVars, inputVars, IInv, CompositionTypeOK,
         StepInRange, ObjectsFit, PointersFit, TimersFit, ThreadsFit,
         RootFits, Served, Joining, InStop, Submitters
<1>25. CASE OnClose
  BY <1>0, <1>25
     DEF OnClose, BeginStop, threadVars, inputVars, IInv, CompositionTypeOK,
         StepInRange, ObjectsFit, PointersFit, TimersFit, ThreadsFit,
         RootFits, Served, Joining, InStop, Submitters
<1>26. CASE DismissBox
  BY <1>0, <1>26
     DEF DismissBox, BeginStop, threadVars, inputVars, IInv,
         CompositionTypeOK, StepInRange, ObjectsFit, PointersFit, TimersFit,
         ThreadsFit, RootFits, Served, Joining, InStop, Submitters
<1>27. CASE Rest
  BY <1>0, <1>27
     DEF Rest, vars, threadVars, inputVars, IInv, CompositionTypeOK,
         StepInRange, ObjectsFit, PointersFit, TimersFit, ThreadsFit,
         RootFits, Served, Joining, InStop, Submitters
<1>28. CASE UNCHANGED vars
  BY <1>28
     DEF vars, threadVars, inputVars, IInv, CompositionTypeOK, StepInRange,
         ObjectsFit, PointersFit, TimersFit, ThreadsFit, RootFits, Served,
         Joining, InStop
<1> QED BY <1>1, <1>2, <1>3, <1>4, <1>5, <1>6, <1>7, <1>8, <1>9, <1>10, <1>11,
           <1>12, <1>13, <1>14, <1>15, <1>16, <1>17, <1>18, <1>19, <1>20,
           <1>21, <1>22, <1>23, <1>24, <1>25, <1>26, <1>27, <1>28
           DEF Next, Starting, Stopping, Threads

-----------------------------------------------------------------------------
(* The program starts in the invariant.                                    *)
LEMMA InitHolds == Init => IInv
<1> SUFFICES ASSUME Init PROVE IInv
  OBVIOUS
<1>1. CompositionTypeOK
  <2>1. tasks = << >>
    BY DEF Init
  <2>2. tasks \in Seq(Submitters)
    BY <2>1, EmptySeq
  <2>3. step \in 1 .. Len(BuildOrder) /\ submitted \in 0 .. MaxTasks
    BY CompositionAssumption, Lengths DEF Init
  <2> QED BY <2>2, <2>3 DEF Init, CompositionTypeOK, UiPlaces
<1>2. StepInRange /\ ObjectsFit /\ PointersFit /\ TimersFit /\ RootFits
  BY DEF Init, StepInRange, ObjectsFit, PointersFit, TimersFit, RootFits,
         Served, InStop, Joining
<1>3. ThreadsFit
  BY DEF Init, ThreadsFit, Served, Submitters
<1> QED BY <1>1, <1>2, <1>3 DEF IInv

(* The lists are followed in range, every object, pointer, timer and       *)
(* thread is where the place of the UI thread says, in every reachable     *)
(* state.                                                                  *)
THEOREM Invariance == Spec => []IInv
BY InitHolds, StepKeeps, PTL DEF Spec

(* Every variable of the composition keeps the values its comment says.    *)
THEOREM TypeCorrect == Spec => []CompositionTypeOK
BY Invariance, PTL DEF IInv

(* At no step of starting, rolling back or stopping does the shell, a      *)
(* thread, a task or an object refer to what was destroyed.                *)
THEOREM DanglesCorrect == Spec => []NothingDangles
<1>1. IInv => NothingDangles
  <2> SUFFICES ASSUME IInv PROVE NothingDangles
    OBVIOUS
  <2>1. bound \subseteq alive /\ (shellRef => "shell" \in alive)
    BY DEF IInv, PointersFit
  <2>2. \A o \in alive : Uses[o] \subseteq alive
    BY DEF IInv, ObjectsFit
  <2>3. {tasks[i] : i \in DOMAIN tasks} \subseteq alive
    <3>1. tasks \in Seq(Submitters)
      BY DEF IInv, CompositionTypeOK
    <3>2. \A i \in DOMAIN tasks : tasks[i] \in Submitters /\ tasks # << >>
      BY <3>1
    <3> QED BY <3>2 DEF IInv, ThreadsFit
  <2>4. /\ worker \notin {"none", "gone"} => "operationExecutor" \in alive
        /\ monitor = "running" => "monitoringWorker" \in alive
        /\ worker \in Submitters => worker \in alive
    BY DEF IInv, ThreadsFit
  <2> QED BY <2>1, <2>2, <2>3, <2>4 DEF NothingDangles, Held
<1> QED BY <1>1, Invariance, PTL

(* A failed start leaves only the shell, without references, timers or     *)
(* threads; the end of the process leaves nothing.                         *)
THEOREM LeftBehindCorrect == Spec => []NothingIsLeftBehind
<1>1. IInv => NothingIsLeftBehind
  BY DEF IInv, NothingIsLeftBehind, CompositionTypeOK, ObjectsFit, PointersFit,
         TimersFit, ThreadsFit, RootFits, Served, InStop, Joining, Submitters
<1> QED BY <1>1, Invariance, PTL

(* As long as a task is queued or running, monitoring runs and has not     *)
(* been told to stop.                                                      *)
THEOREM TasksCorrect == Spec => []TasksRunUnderMonitoring
<1>1. IInv => TasksRunUnderMonitoring
  BY DEF IInv, TasksRunUnderMonitoring, ThreadsFit
<1> QED BY <1>1, Invariance, PTL
=============================================================================
