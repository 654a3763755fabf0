-------------------------- MODULE MonitoringProofs ---------------------------
(***************************************************************************)
(* Proofs about Monitoring, for any models, workpieces, healths and        *)
(* periods.  The argument: a tick asks for every class at most once, and   *)
(* what is left of the tick is exactly what is reserved; the assembler     *)
(* always holds what the last replies said; and the store lags behind the  *)
(* assembler by at most the one snapshot that is being published.          *)
(***************************************************************************)
EXTENDS MonitoringUi, MachineModelSessionProofs

Requests == [class: Classes, workpiece: Workpieces \cup {NoWorkpiece}]

(* What is left of a tick: at most one request of each class.              *)
RequestShape ==
    /\ requests \in Seq(Requests)
    /\ \A i, j \in 1 .. Len(requests) :
          requests[i].class = requests[j].class => i = j
    /\ \A i \in 1 .. Len(requests) :
          requests[i].class = "OnDemand" => requests[i].workpiece \in Workpieces

(* The reply in hand is one to the request in hand.                        *)
ReplyShape ==
    monitor \in {"observing", "reporting", "accepting"} =>
        reply \in Reads(Head(requests).class)

AssemblerTypeOK ==
    /\ health \in Healths \cup {Nothing}
    /\ standard \in {Nothing} \cup SUBSET Workpieces
    /\ detail \in Workpieces \cup {NoWorkpiece}
    /\ classFreshness \in [Periodic -> Freshnesses \cup {Nothing}]
    /\ current \in Snapshots \cup {Nothing}

(* What makes a snapshot worth a version of its own.                       *)
News(old, new) ==
    \/ <<new.health, new.standard, new.detail>> # <<old.health, old.standard, old.detail>>
    \/ /\ new.freshness # old.freshness
       /\ new.freshness.state # "Fresh" \/ old.freshness.state # "Fresh"

Follows(old, new) ==
    /\ new \in Snapshots
    /\ IF old = Nothing THEN new.version = 1
       ELSE new.version = old.version + 1 /\ News(old, new)

(* The store has the assembler's snapshot, or the one before it.           *)
StoreShape ==
    /\ store \in Snapshots \cup {Nothing}
    /\ IF monitor = "publishing" THEN Follows(store, current) ELSE store = current

(* The thread exists once it was started.                                  *)
ControlShape == controller = "starting" <=> monitor = "absent"

IInv ==
    /\ TypeOK /\ ControlShape /\ RequestShape /\ ReplyShape /\ InFlightIsRunning
    /\ AssemblerTypeOK /\ StoreShape

(* Concatenation, by index.                                                *)
LEMMA ConcatByIndex ==
    ASSUME NEW S, NEW s \in Seq(S), NEW t \in Seq(S)
    PROVE  /\ s \o t \in Seq(S)
           /\ Len(s \o t) = Len(s) + Len(t)
           /\ Len(s) \in Nat /\ Len(t) \in Nat
           /\ \A i \in 1 .. Len(s) + Len(t) :
                 (s \o t)[i] = IF i <= Len(s) THEN s[i] ELSE t[i - Len(s)]
  OBVIOUS

(* A tick asks once for each class that is due, since each contributes at  *)
(* most one request.                                                       *)
LEMMA DueRequestsShape ==
    ASSUME PlanTypeOK
    PROVE  /\ DueRequests \in Seq(Requests)
           /\ \A i, j \in 1 .. Len(DueRequests) :
                 DueRequests[i].class = DueRequests[j].class => i = j
           /\ \A i \in 1 .. Len(DueRequests) :
                 DueRequests[i].class = "OnDemand" => DueRequests[i].workpiece \in Workpieces
           /\ {DueRequests[k].class : k \in 1 .. Len(DueRequests)} = {c \in Classes : IsDue(c)}
<1> DEFINE r(c) == [class |-> c, workpiece |-> IF c = "OnDemand" THEN target ELSE NoWorkpiece]
           C == Ask("Critical")  S == Ask("Standard")  O == Ask("OnDemand")
           CS == C \o S
<1>1. \A c \in Classes : r(c) \in Requests /\ r(c).class = c
  BY DEF PlanTypeOK, Requests, Classes
<1>2. IsDue("OnDemand") => r("OnDemand").workpiece \in Workpieces
  BY DEF IsDue, PlanTypeOK, Periodic
<1>3. Classes = {"Critical", "Standard", "OnDemand"}
  BY DEF Classes, Periodic
<1>4. \A c \in Classes : /\ Ask(c) = IF IsDue(c) THEN << r(c) >> ELSE << >>
                         /\ Ask(c) \in Seq(Requests)
                         /\ Len(Ask(c)) = IF IsDue(c) THEN 1 ELSE 0
                         /\ IsDue(c) => Ask(c)[1] = r(c)
  <2> TAKE c \in Classes
  <2>1. Ask(c) = IF IsDue(c) THEN << r(c) >> ELSE << >>
    BY DEF Ask
  <2>2. r(c) \in Requests
    BY <1>1
  <2> HIDE DEF r
  <2>3. QED
    BY <2>1, <2>2
<1> HIDE DEF r
<1>5. /\ CS \in Seq(Requests) /\ Len(CS) = Len(C) + Len(S)
      /\ \A i \in 1 .. Len(C) + Len(S) : CS[i] = IF i <= Len(C) THEN C[i] ELSE S[i - Len(C)]
  BY <1>3, <1>4, ConcatByIndex
<1>6. /\ DueRequests \in Seq(Requests) /\ Len(DueRequests) = Len(CS) + Len(O)
      /\ \A i \in 1 .. Len(CS) + Len(O) :
            DueRequests[i] = IF i <= Len(CS) THEN CS[i] ELSE O[i - Len(CS)]
  <2>1. DueRequests = CS \o O
    BY DEF DueRequests
  <2>2. CS \in Seq(Requests) /\ O \in Seq(Requests)
    BY <1>5, <1>3, <1>4
  <2> HIDE DEF CS, O
  <2>3. QED
    BY <2>1, <2>2, ConcatByIndex
<1>7. /\ Len(C) = IF IsDue("Critical") THEN 1 ELSE 0
      /\ Len(S) = IF IsDue("Standard") THEN 1 ELSE 0
      /\ Len(O) = IF IsDue("OnDemand") THEN 1 ELSE 0
      /\ IsDue("Critical") => C[1] = r("Critical") /\ r("Critical").class = "Critical"
      /\ IsDue("Standard") => S[1] = r("Standard") /\ r("Standard").class = "Standard"
      /\ IsDue("OnDemand") => O[1] = r("OnDemand") /\ r("OnDemand").class = "OnDemand"
  BY <1>1, <1>3, <1>4
<1> HIDE DEF C, S, O, CS
<1>8. \A i \in 1 .. Len(DueRequests) :
         \/ i = 1 /\ IsDue("Critical") /\ DueRequests[i].class = "Critical"
         \/ i = Len(C) + 1 /\ IsDue("Standard") /\ DueRequests[i].class = "Standard"
         \/ /\ i = Len(C) + Len(S) + 1 /\ IsDue("OnDemand")
            /\ DueRequests[i].class = "OnDemand" /\ DueRequests[i] = r("OnDemand")
  BY <1>5, <1>6, <1>7
<1>9. /\ IsDue("Critical") => /\ 1 \in 1 .. Len(DueRequests)
                              /\ DueRequests[1].class = "Critical"
      /\ IsDue("Standard") => /\ Len(C) + 1 \in 1 .. Len(DueRequests)
                              /\ DueRequests[Len(C) + 1].class = "Standard"
      /\ IsDue("OnDemand") => /\ Len(C) + Len(S) + 1 \in 1 .. Len(DueRequests)
                              /\ DueRequests[Len(C) + Len(S) + 1].class = "OnDemand"
  BY <1>5, <1>6, <1>7
<1>10. {DueRequests[k].class : k \in 1 .. Len(DueRequests)} = {c \in Classes : IsDue(c)}
  BY <1>3, <1>8, <1>9
<1>11. QED
  BY <1>2, <1>6, <1>8, <1>10

LEMMA InitIInv == Init => IInv
<1> SUFFICES ASSUME Init PROVE IInv
  OBVIOUS
<1> USE DEF Init
<1>1. SessionTypeOK
  BY SessionInitOK
<1>2. PlanTypeOK
  <2>1. \A c \in Periodic : Period[c] \in Nat /\ wait[c] = 0
    BY PlanAssumption DEF PlanInit
  <2>2. \A c \in Periodic : wait[c] \in 0 .. Period[c]
    BY <2>1
  <2>3. QED
    BY <2>2 DEF PlanInit, PlanTypeOK
<1>3. machine \in Machines
  <2>1. 0 \in 0 .. MaxTime
    BY MonitoringAssumption
  <2>2. QED
    BY <2>1 DEF Machines
<1>4. TypeOK /\ ControlShape
  BY <1>1, <1>2, <1>3, MonitoringAssumption DEF TypeOK, ControlShape
<1>5. RequestShape /\ ReplyShape /\ InFlightIsRunning
  BY DEF RequestShape, ReplyShape, InFlightIsRunning, PlanInit
<1>6. AssemblerTypeOK /\ StoreShape
  BY MonitoringAssumption DEF AssemblerInit, AssemblerTypeOK, StoreShape, Periodic
<1>7. QED
  BY <1>4, <1>5, <1>6 DEF IInv

(* What TryAssemble may assemble is a snapshot.                            *)
LEMMA AssembledType ==
    ASSUME AssemblerTypeOK, health' \in Healths, standard' \in SUBSET Workpieces,
           detail' \in Workpieces \cup {NoWorkpiece},
           NEW critical \in Freshnesses, NEW std \in Freshnesses
    PROVE  /\ CombinedFreshness(critical, std) \in Freshnesses
           /\ [version   |-> IF current = Nothing THEN 1 ELSE current.version + 1,
               health    |-> health',
               standard  |-> standard',
               detail    |-> detail',
               freshness |-> CombinedFreshness(critical, std)] \in Snapshots
<1>1. CombinedFreshness(critical, std) \in Freshnesses
  BY MonitoringAssumption DEF CombinedFreshness, Freshness, Freshnesses, ReadErrors
<1>2. QED
  BY <1>1 DEF AssemblerTypeOK, Snapshots

(* Assembling gives the next version of the snapshot, and for news only.   *)
LEMMA AssembleStep ==
    ASSUME AssemblerTypeOK, TryAssemble,
           health' \in Healths \cup {Nothing},
           standard' \in {Nothing} \cup SUBSET Workpieces,
           detail' \in Workpieces \cup {NoWorkpiece},
           classFreshness' \in [Periodic -> Freshnesses \cup {Nothing}]
    PROVE  /\ AssemblerTypeOK'
           /\ current' = current \/ Follows(current, current')
<1> DEFINE critical == classFreshness'["Critical"]
           std      == classFreshness'["Standard"]
           combined == CombinedFreshness(critical, std)
           snapshot == [version   |-> IF current = Nothing THEN 1 ELSE current.version + 1,
                        health    |-> health',
                        standard  |-> standard',
                        detail    |-> detail',
                        freshness |-> combined]
<1>1. CASE current' = current
  BY <1>1 DEF AssemblerTypeOK
<1>2. CASE current' # current
  <2>1. /\ current' = snapshot
        /\ health' # Nothing /\ standard' # Nothing
        /\ critical # Nothing /\ std # Nothing
        /\ current = Nothing \/ ~NoChange(current, snapshot)
    BY <1>2 DEF TryAssemble
  <2>2. critical \in Freshnesses /\ std \in Freshnesses
    BY <2>1 DEF Periodic
  <2>3. combined \in Freshnesses /\ snapshot \in Snapshots
    BY <2>1, <2>2, AssembledType
  <2>4. ASSUME current # Nothing PROVE News(current, snapshot)
    <3>1. current \in Snapshots /\ ~NoChange(current, snapshot)
      BY <2>1, <2>4 DEF AssemblerTypeOK
    <3>2. current.freshness \in Freshnesses
      BY <3>1 DEF Snapshots
    <3>3. ASSUME ~FreshnessEquivalent(current.freshness, combined)
          PROVE  /\ combined # current.freshness
                 /\ combined.state # "Fresh" \/ current.freshness.state # "Fresh"
      BY <3>3, <3>2, <2>3 DEF FreshnessEquivalent, Freshnesses
    <3>4. QED
      BY <3>1, <3>3 DEF NoChange, News
  <2>5. Follows(current, snapshot)
    BY <2>3, <2>4 DEF Follows, AssemblerTypeOK, Snapshots
  <2>6. QED
    BY <2>1, <2>3, <2>5 DEF AssemblerTypeOK
<1>3. QED
  BY <1>1, <1>2

(* The first request and those after it.                                   *)
LEMMA HeadAndTail ==
    ASSUME RequestShape, requests # << >>
    PROVE  /\ Len(requests) \in Nat \ {0}
           /\ Head(requests) = requests[1] /\ Head(requests) \in Requests
           /\ Tail(requests) \in Seq(Requests)
           /\ Len(Tail(requests)) = Len(requests) - 1
           /\ \A i \in 1 .. Len(requests) - 1 : Tail(requests)[i] = requests[i + 1]
           /\ Len(requests) > 1 <=> Tail(requests) # << >>
<1>1. requests \in Seq(Requests) /\ requests # << >>
  BY DEF RequestShape
<1>2. /\ Len(requests) \in Nat \ {0}
      /\ Head(requests) = requests[1] /\ Head(requests) \in Requests
  BY <1>1
<1>3. /\ Tail(requests) \in Seq(Requests)
      /\ Len(Tail(requests)) = Len(requests) - 1
      /\ \A i \in 1 .. Len(requests) - 1 : Tail(requests)[i] = requests[i + 1]
  BY <1>1
<1>4. Len(requests) > 1 <=> Tail(requests) # << >>
  <2>1. \A t \in Seq(Requests) : t = << >> <=> Len(t) = 0
    OBVIOUS
  <2>2. Tail(requests) = << >> <=> Len(Tail(requests)) = 0
    BY <1>3, <2>1, Zenon
  <2>3. Len(requests) > 1 <=> Len(Tail(requests)) # 0
    BY <1>2, <1>3
  <2>4. QED
    BY <2>2, <2>3, Zenon
<1>5. QED
  BY <1>2, <1>3, <1>4

LEMMA TailShape ==
    ASSUME RequestShape, requests # << >>, requests' = Tail(requests)
    PROVE  /\ RequestShape'
           /\ {requests'[k].class : k \in 1 .. Len(requests')} =
                {requests[k].class : k \in 2 .. Len(requests)}
<1> DEFINE n == Len(requests)
<1>1. /\ n \in Nat \ {0}
      /\ requests' \in Seq(Requests) /\ Len(requests') = n - 1
      /\ \A i \in 1 .. n - 1 : requests'[i] = requests[i + 1]
  BY HeadAndTail
<1>2. \A i \in 1 .. n - 1 : i + 1 \in 1 .. n /\ i + 1 \in 2 .. n
  BY <1>1
<1>3. \A i \in 2 .. n : i - 1 \in 1 .. n - 1 /\ requests'[i - 1] = requests[i]
  BY <1>1
<1>4. RequestShape'
  <2>1. \A i, j \in 1 .. Len(requests') : requests'[i].class = requests'[j].class => i = j
    <3> TAKE i, j \in 1 .. Len(requests')
    <3>1. /\ i + 1 \in 1 .. n /\ requests'[i] = requests[i + 1]
          /\ j + 1 \in 1 .. n /\ requests'[j] = requests[j + 1]
      BY <1>1, <1>2
    <3>2. requests[i + 1].class = requests[j + 1].class => i + 1 = j + 1
      BY <3>1 DEF RequestShape
    <3>3. QED
      BY <3>1, <3>2
  <2>2. \A i \in 1 .. Len(requests') :
           requests'[i].class = "OnDemand" => requests'[i].workpiece \in Workpieces
    BY <1>1, <1>2 DEF RequestShape
  <2>3. QED
    BY <1>1, <2>1, <2>2 DEF RequestShape
<1>5. {requests'[k].class : k \in 1 .. Len(requests')} = {requests[k].class : k \in 2 .. n}
  <2> DEFINE new(k) == requests'[k].class
             old(k) == requests[k].class
  <2>1. \A k \in 1 .. Len(requests') : k + 1 \in 2 .. n /\ new(k) = old(k + 1)
    BY <1>1, <1>2
  <2>2. \A m \in 2 .. n : m - 1 \in 1 .. Len(requests') /\ new(m - 1) = old(m)
    BY <1>1, <1>3
  <2> HIDE DEF new, old
  <2>3. {new(k) : k \in 1 .. Len(requests')} = {old(k) : k \in 2 .. n}
    BY <2>1, <2>2
  <2>4. QED
    BY <2>3 DEF new, old
<1>6. QED
  BY <1>4, <1>5

(* The steps that leave the tick and what it made alone.                   *)
LEMMA TickKept ==
    ASSUME IInv, UNCHANGED <<requests, reply, monitor, inFlight, assemblerVars, store>>
    PROVE  RequestShape' /\ ReplyShape' /\ InFlightIsRunning'
           /\ AssemblerTypeOK' /\ StoreShape'
<1>1. RequestShape' /\ ReplyShape'
  BY DEF IInv, RequestShape, ReplyShape
<1>2. InFlightIsRunning'
  BY DEF IInv, InFlightIsRunning
<1>3. AssemblerTypeOK' /\ StoreShape'
  BY DEF IInv, AssemblerTypeOK, StoreShape, assemblerVars, Follows, News
<1>4. QED
  BY <1>1, <1>2, <1>3

LEMMA ElapseStep == ASSUME IInv, Elapse PROVE IInv'
<1> USE DEF Elapse
<1>1. \A c \in Periodic : wait'[c] \in 0 .. Period[c]
  <2> TAKE c \in Periodic
  <2>1. wait[c] \in 0 .. Period[c] /\ Period[c] \in Nat
    BY PlanAssumption DEF IInv, TypeOK, PlanTypeOK
  <2>2. wait'[c] = IF wait[c] > 0 THEN wait[c] - 1 ELSE 0
    BY DEF PlanElapse
  <2>3. QED
    BY <2>1, <2>2
<1>2. PlanTypeOK'
  BY <1>1 DEF IInv, TypeOK, PlanTypeOK, PlanElapse
<1>3. now' \in 0 .. MaxTime
  BY MonitoringAssumption DEF IInv, TypeOK
<1>4. SessionTypeOK'
  BY SessionStutter DEF IInv, TypeOK
<1>5. TypeOK' /\ ControlShape'
  BY <1>2, <1>3, <1>4 DEF IInv, TypeOK, ControlShape, tickVars, controlVars
<1>6. QED
  BY <1>5, TickKept DEF IInv, tickVars, PlanElapse

(* The next frame is a machine's, whatever it differs in.                  *)
LEMMA StampedOK ==
    ASSUME NEW m \in Machines, now \in 0 .. MaxTime PROVE Stamped(m) \in Machines
<1> DEFINE t == IF \E c \in Classes : m.link[c] = "held" THEN m.at ELSE now
<1>1. t \in 0 .. MaxTime
  BY DEF Machines
<1>2. Stamped(m) = [m EXCEPT !.at = t]
  BY DEF Stamped, Machines
<1> HIDE DEF t
<1>3. QED
  BY <1>1, <1>2 DEF Machines

LEMMA ChangeMachineStep == ASSUME IInv, ChangeMachine PROVE IInv'
<1> USE DEF ChangeMachine
<1>1. machine \in Machines /\ \A c \in Classes : Links(c) \subseteq {"up", "held", "down"}
  BY DEF IInv, TypeOK, Links
<1>2. machine' \in Machines
  <2>1. PICK m \in Machines : machine' = Stamped(m)
    <3>1. CASE \E h \in Healths : machine' = Stamped([machine EXCEPT !.health = h])
      <4>1. PICK h \in Healths : machine' = Stamped([machine EXCEPT !.health = h])
        BY <3>1
      <4>2. [machine EXCEPT !.health = h] \in Machines
        BY <1>1 DEF Machines
      <4>3. QED
        BY <4>1, <4>2
    <3>2. CASE \E p \in SUBSET Workpieces :
                  machine' = Stamped([machine EXCEPT !.present = p])
      <4>1. PICK p \in SUBSET Workpieces :
               machine' = Stamped([machine EXCEPT !.present = p])
        BY <3>2
      <4>2. [machine EXCEPT !.present = p] \in Machines
        BY <1>1 DEF Machines
      <4>3. QED
        BY <4>1, <4>2
    <3>3. CASE \E a \in Replies : machine' = Stamped([machine EXCEPT !.model = a])
      <4>1. PICK a \in Replies : machine' = Stamped([machine EXCEPT !.model = a])
        BY <3>3
      <4>2. [machine EXCEPT !.model = a] \in Machines
        BY <1>1 DEF Machines
      <4>3. QED
        BY <4>1, <4>2
    <3>4. CASE \E c \in Classes : \E l \in Links(c) :
                  machine' = Stamped([machine EXCEPT !.link[c] = l])
      <4>0. PICK c \in Classes : \E l \in Links(c) :
               machine' = Stamped([machine EXCEPT !.link[c] = l])
        BY <3>4
      <4>1. PICK l \in Links(c) :
               machine' = Stamped([machine EXCEPT !.link[c] = l])
        BY <4>0
      <4>2. [machine EXCEPT !.link[c] = l] \in Machines
        BY <1>1 DEF Machines
      <4>3. QED
        BY <4>1, <4>2
    <3>5. QED
      BY <3>1, <3>2, <3>3, <3>4
  <2>2. QED
    BY <2>1, StampedOK DEF IInv, TypeOK
<1>3. changes' \in 0 .. MaxChanges
  BY MonitoringAssumption DEF IInv, TypeOK
<1>4. SessionTypeOK' /\ PlanTypeOK'
  BY SessionStutter DEF IInv, TypeOK, PlanTypeOK, planVars
<1>5. TypeOK' /\ ControlShape'
  BY <1>2, <1>3, <1>4 DEF IInv, TypeOK, ControlShape, tickVars, controlVars
<1>6. QED
  BY <1>5, TickKept DEF IInv, tickVars, planVars

LEMMA DueStep == ASSUME IInv, MonitorDue PROVE IInv'
<1> USE DEF MonitorDue
<1>1. requests = << >> /\ inFlight = {}
  BY DEF IInv, TypeOK, InFlightIsRunning
<1>2. PlanTypeOK'
  <2>1. \A c \in Periodic : wait'[c] \in 0 .. Period[c]
    <3> TAKE c \in Periodic
    <3>1. wait[c] \in 0 .. Period[c] /\ Period[c] \in 0 .. Period[c]
      BY PlanAssumption DEF IInv, TypeOK, PlanTypeOK
    <3>2. wait'[c] = IF IsDue(c) THEN Period[c] ELSE wait[c]
      BY DEF Due
    <3>3. QED
      BY <3>1, <3>2
  <2>2. pending' \in BOOLEAN /\ (pending' => pending)
    BY DEF Due, IInv, TypeOK, PlanTypeOK
  <2>3. inFlight' \subseteq Classes
    BY DEF Due, IInv, TypeOK, PlanTypeOK
  <2>4. QED
    BY <2>1, <2>2, <2>3 DEF Due, IInv, TypeOK, PlanTypeOK
<1>3. TypeOK' /\ ControlShape'
  BY <1>1, <1>2, SessionStutter DEF IInv, TypeOK, ControlShape, worldVars, controlVars
<1>4. /\ RequestShape'
      /\ {requests'[k].class : k \in 1 .. Len(requests')} = {c \in Classes : IsDue(c)}
  BY DueRequestsShape DEF RequestShape, IInv, TypeOK
<1>5. InFlightIsRunning'
  BY <1>1, <1>4 DEF InFlightIsRunning, Due
<1>6. ReplyShape' /\ AssemblerTypeOK' /\ StoreShape'
  BY DEF IInv, ReplyShape, AssemblerTypeOK, StoreShape, assemblerVars
<1>7. QED
  BY <1>3, <1>4, <1>5, <1>6 DEF IInv

LEMMA ExitStep == ASSUME IInv, MonitorExit PROVE IInv'
<1> USE DEF MonitorExit
<1>1. TypeOK' /\ ControlShape'
  BY SessionStutter
     DEF IInv, TypeOK, PlanTypeOK, planVars, ControlShape, worldVars, tickVars, controlVars
<1>2. RequestShape' /\ ReplyShape' /\ InFlightIsRunning'
  BY DEF IInv, RequestShape, ReplyShape, InFlightIsRunning, tickVars, planVars
<1>3. AssemblerTypeOK' /\ StoreShape'
  BY DEF IInv, AssemblerTypeOK, StoreShape, assemblerVars
<1>4. QED
  BY <1>1, <1>2, <1>3 DEF IInv

(* What is read is of the kind that was asked for.                         *)
LEMMA AnswerShape ==
    ASSUME machine \in Machines, NEW r \in Requests,
           r.class = "OnDemand" => r.workpiece \in Workpieces
    PROVE  Answer(r) \in Reads(r.class)
<1> DEFINE value == CASE r.class = "Critical" -> machine.health
                      [] r.class = "Standard" -> machine.present
                      [] r.class = "OnDemand" -> r.workpiece
           stale == Freshness("Stale", machine.at, "Unavailable")
           fresh == Freshness("Fresh", machine.at, "none")
<1>1. r.class \in {"Critical", "Standard", "OnDemand"}
  BY DEF Requests, Classes, Periodic
<1>2. value \in ValuesOf(r.class)
  BY <1>1 DEF ValuesOf, Machines
<1>3. stale \in Freshnesses /\ fresh \in Freshnesses
  <2>1. machine.at \in 0 .. MaxTime
    BY DEF Machines
  <2>2. QED
    BY <2>1 DEF Freshness, Freshnesses
<1>4. Answer(r) =
        CASE machine.link[r.class] = "down" -> [error |-> "Timeout"]
          [] r.class = "OnDemand" /\ value \notin machine.present -> [error |-> "NotFound"]
          [] machine.link[r.class] = "held" -> [value |-> value, freshness |-> stale]
          [] OTHER -> [value |-> value, freshness |-> fresh]
  BY DEF Answer
<1> HIDE DEF value, stale, fresh
<1>5. \/ Answer(r) = [error |-> "Timeout"] \/ Answer(r) = [error |-> "NotFound"]
      \/ Answer(r) = [value |-> value, freshness |-> stale]
      \/ Answer(r) = [value |-> value, freshness |-> fresh]
  BY <1>4, Zenon
<1>6. QED
  BY <1>2, <1>3, <1>5 DEF Reads, GoodReads, BadReads, ReadErrors

LEMMA ReadStep == ASSUME IInv, MonitorRead PROVE IInv'
<1> USE DEF MonitorRead
<1>1. requests # << >> /\ monitor' \in {"observing", "accepting"}
  BY DEF IInv, TypeOK
<1>2. Head(requests) \in Requests /\ Head(requests) = requests[1] /\ 1 \in 1 .. Len(requests)
  BY <1>1, HeadAndTail DEF IInv
<1>3. Answer(Head(requests)) \in Reads(Head(requests).class)
  <2>1. Head(requests).class = "OnDemand" => Head(requests).workpiece \in Workpieces
    BY <1>2 DEF IInv, RequestShape
  <2>2. QED
    BY <2>1, <1>2, AnswerShape DEF IInv, TypeOK
<1>4. TypeOK' /\ ControlShape'
  BY <1>1, SessionStutter
     DEF IInv, TypeOK, PlanTypeOK, planVars, ControlShape, worldVars, controlVars
<1>5. RequestShape' /\ ReplyShape' /\ InFlightIsRunning'
  BY <1>1, <1>3 DEF IInv, RequestShape, ReplyShape, InFlightIsRunning, planVars
<1>6. AssemblerTypeOK' /\ StoreShape'
  BY <1>1 DEF IInv, AssemblerTypeOK, StoreShape, assemblerVars
<1>7. QED
  BY <1>4, <1>5, <1>6 DEF IInv

LEMMA ObserveMachineStep == ASSUME IInv, MonitorObserve PROVE IInv'
<1> USE DEF MonitorObserve
<1>1. machine.model \in Answers
  BY MonitoringAssumption DEF IInv, TypeOK, Machines
<1>2. SessionTypeOK'
  BY <1>1, ObserveStep DEF IInv, TypeOK
<1>3. monitor' \in {"reporting", "accepting"}
  OBVIOUS
<1>4. TypeOK' /\ ControlShape'
  BY <1>2, <1>3
     DEF IInv, TypeOK, PlanTypeOK, planVars, ControlShape, worldVars, tickVars, controlVars
<1>5. RequestShape' /\ ReplyShape' /\ InFlightIsRunning'
  BY <1>3 DEF IInv, RequestShape, ReplyShape, InFlightIsRunning, planVars, tickVars
<1>6. AssemblerTypeOK' /\ StoreShape'
  BY <1>3 DEF IInv, AssemblerTypeOK, StoreShape, assemblerVars
<1>7. QED
  BY <1>4, <1>5, <1>6 DEF IInv

LEMMA ReportStep == ASSUME IInv, MonitorReport PROVE IInv'
<1> USE DEF MonitorReport
<1>1. TypeOK' /\ ControlShape'
  BY SessionStutter
     DEF IInv, TypeOK, PlanTypeOK, planVars, ControlShape, worldVars, tickVars, controlVars
<1>2. RequestShape' /\ ReplyShape' /\ InFlightIsRunning'
  BY DEF IInv, RequestShape, ReplyShape, InFlightIsRunning, planVars, tickVars
<1>3. AssemblerTypeOK' /\ StoreShape'
  BY DEF IInv, AssemblerTypeOK, StoreShape, assemblerVars
<1>4. QED
  BY <1>1, <1>2, <1>3 DEF IInv

(* Going on with the tick once the first request is no longer in flight.   *)
LEMMA NextRequestStep ==
    ASSUME RequestShape, requests # << >>, NextRequest,
           inFlight' = {requests[k].class : k \in 2 .. Len(requests)}
    PROVE  /\ RequestShape' /\ ReplyShape' /\ InFlightIsRunning'
           /\ monitor' \in {"reading", "idle"}
           /\ monitor' = "idle" <=> requests' = << >>
<1>1. requests' = Tail(requests) /\ monitor' \in {"reading", "idle"}
  BY DEF NextRequest
<1>2. RequestShape' /\ inFlight' = {requests'[k].class : k \in 1 .. Len(requests')}
  BY <1>1, TailShape
<1>3. monitor' = "idle" <=> requests' = << >>
  BY HeadAndTail DEF NextRequest
<1>4. QED
  BY <1>1, <1>2, <1>3 DEF ReplyShape, InFlightIsRunning

(* Taking a reply in keeps the assembler's types.                          *)
LEMMA TakeInStep ==
    ASSUME AssemblerTypeOK, NEW c \in Classes, reply \in Reads(c),
           IF Failed(reply) THEN AcceptFailure(c, reply.error)
                            ELSE AcceptSuccess(c, reply.value, reply.freshness)
    PROVE  AssemblerTypeOK' /\ (current' = current \/ Follows(current, current'))
<1>1. c \in {"Critical", "Standard", "OnDemand"} /\ Periodic = {"Critical", "Standard"}
  BY DEF Classes, Periodic
<1>2. CASE Failed(reply) /\ c = "OnDemand"
  BY <1>2 DEF AcceptFailure, AssemblerTypeOK, assemblerVars
<1>3. CASE Failed(reply) /\ c # "OnDemand"
  <2>1. reply.error \in ReadErrors
    BY <1>3 DEF Failed, Reads, GoodReads, BadReads
  <2>2. /\ classFreshness' = [classFreshness EXCEPT ![c] = MarkFailed(@, reply.error)]
        /\ UNCHANGED <<health, standard, detail>> /\ TryAssemble
    BY <1>3 DEF AcceptFailure
  <2>3. classFreshness[c] \in Freshnesses \cup {Nothing}
    BY <1>1, <1>3 DEF AssemblerTypeOK
  <2>4. MarkFailed(classFreshness[c], reply.error) \in Freshnesses
    BY <2>1, <2>3, MonitoringAssumption DEF MarkFailed, Freshness, Freshnesses
  <2>5. classFreshness' \in [Periodic -> Freshnesses \cup {Nothing}]
    BY <2>2, <2>4 DEF AssemblerTypeOK
  <2>6. QED
    BY <2>2, <2>5, AssembleStep DEF AssemblerTypeOK
<1>4. CASE ~Failed(reply)
  <2>1. reply.value \in ValuesOf(c) /\ reply.freshness \in Freshnesses
    BY <1>4 DEF Failed, Reads, GoodReads, BadReads
  <2>2. AcceptSuccess(c, reply.value, reply.freshness)
    BY <1>4
  <2>3. /\ health' \in Healths \cup {Nothing}
        /\ standard' \in {Nothing} \cup SUBSET Workpieces
        /\ detail' \in Workpieces \cup {NoWorkpiece}
    BY <1>1, <2>1, <2>2 DEF AcceptSuccess, ValuesOf, AssemblerTypeOK
  <2>4. classFreshness' \in [Periodic -> Freshnesses \cup {Nothing}]
    BY <1>1, <2>1, <2>2 DEF AcceptSuccess, AssemblerTypeOK
  <2>5. QED
    BY <2>2, <2>3, <2>4, AssembleStep DEF AcceptSuccess
<1>5. QED
  BY <1>1, <1>2, <1>3, <1>4

LEMMA AcceptStep == ASSUME IInv, MonitorAccept PROVE IInv'
<1> DEFINE c == Head(requests).class
<1> USE DEF MonitorAccept
<1>1. requests # << >> /\ RequestShape
  BY DEF IInv, TypeOK
<1>2. /\ Len(requests) \in Nat \ {0}
      /\ Head(requests) = requests[1] /\ Head(requests) \in Requests
  BY <1>1, HeadAndTail
<1>3. c \in Classes /\ reply \in Reads(c)
  BY <1>2 DEF Requests, IInv, ReplyShape
<1>4. AssemblerTypeOK' /\ (current' = current \/ Follows(current, current'))
  BY <1>3, TakeInStep DEF IInv
<1>5. inFlight' = {requests[k].class : k \in 2 .. Len(requests)}
  <2>1. inFlight' = {requests[k].class : k \in 1 .. Len(requests)} \ {requests[1].class}
    BY <1>2 DEF MarkComplete, IInv, InFlightIsRunning
  <2>2. \A k \in 2 .. Len(requests) :
           k \in 1 .. Len(requests) /\ requests[k].class # requests[1].class
    BY <1>1, <1>2 DEF RequestShape
  <2>3. \A k \in 1 .. Len(requests) : k = 1 \/ k \in 2 .. Len(requests)
    BY <1>2
  <2>4. QED
    BY <2>1, <2>2, <2>3
<1>6. store = current /\ store \in Snapshots \cup {Nothing} /\ store' = store
  BY DEF IInv, StoreShape
<1>7. PlanTypeOK' /\ SessionTypeOK'
  BY SessionStutter DEF IInv, TypeOK, PlanTypeOK, MarkComplete
<1>8. CASE current' = current
  <2>1. NextRequest
    BY <1>8
  <2>2. /\ RequestShape' /\ ReplyShape' /\ InFlightIsRunning'
        /\ monitor' \in {"reading", "idle"}
        /\ monitor' = "idle" <=> requests' = << >>
    BY <1>1, <1>5, <2>1, NextRequestStep
  <2>3. TypeOK' /\ ControlShape'
    BY <1>7, <2>2 DEF IInv, TypeOK, ControlShape, worldVars, controlVars
  <2>4. StoreShape'
    BY <1>6, <1>8, <2>2 DEF StoreShape
  <2>5. QED
    BY <1>4, <2>2, <2>3, <2>4 DEF IInv
<1>9. CASE current' # current
  <2>1. monitor' = "publishing" /\ requests' = requests
    BY <1>9
  <2>2. RequestShape' /\ ReplyShape' /\ InFlightIsRunning'
    BY <1>1, <1>5, <2>1 DEF RequestShape, ReplyShape, InFlightIsRunning
  <2>3. TypeOK' /\ ControlShape'
    BY <1>1, <1>7, <2>1 DEF IInv, TypeOK, ControlShape, worldVars, controlVars
  <2>4. StoreShape'
    BY <1>4, <1>6, <1>9, <2>1 DEF StoreShape
  <2>5. QED
    BY <1>4, <2>2, <2>3, <2>4 DEF IInv
<1>10. QED
  BY <1>8, <1>9

LEMMA PublishStep == ASSUME IInv, MonitorPublish PROVE IInv'
<1> USE DEF MonitorPublish
<1>1. Follows(store, current) /\ current \in Snapshots /\ store \in Snapshots \cup {Nothing}
  BY DEF IInv, StoreShape, Follows
<1>2. ~(store # Nothing /\ current.version <= store.version)
  BY <1>1 DEF Follows, Snapshots
<1>3. monitor' = "notifying" /\ store' = current /\ UNCHANGED requests /\ requests # << >>
  BY <1>2 DEF IInv, TypeOK
<1>4. TypeOK' /\ ControlShape'
  BY <1>3, SessionStutter
     DEF IInv, TypeOK, PlanTypeOK, planVars, ControlShape, worldVars, controlVars
<1>5. RequestShape' /\ ReplyShape' /\ InFlightIsRunning'
  BY <1>3 DEF IInv, RequestShape, ReplyShape, InFlightIsRunning, planVars
<1>6. AssemblerTypeOK' /\ StoreShape'
  BY <1>1, <1>3 DEF IInv, AssemblerTypeOK, StoreShape, assemblerVars
<1>7. QED
  BY <1>4, <1>5, <1>6 DEF IInv

LEMMA NotifyStep == ASSUME IInv, MonitorNotify PROVE IInv'
<1> USE DEF MonitorNotify
<1>1. requests # << >> /\ RequestShape
  BY DEF IInv, TypeOK
<1>2. inFlight' = {requests[k].class : k \in 2 .. Len(requests)}
  BY DEF IInv, InFlightIsRunning, planVars
<1>3. /\ RequestShape' /\ ReplyShape' /\ InFlightIsRunning'
      /\ monitor' \in {"reading", "idle"}
      /\ monitor' = "idle" <=> requests' = << >>
  BY <1>1, <1>2, NextRequestStep
<1>4. TypeOK' /\ ControlShape'
  BY <1>3, SessionStutter
     DEF IInv, TypeOK, PlanTypeOK, planVars, ControlShape, worldVars, controlVars
<1>5. AssemblerTypeOK' /\ StoreShape'
  BY <1>3 DEF IInv, AssemblerTypeOK, StoreShape, assemblerVars
<1>6. QED
  BY <1>3, <1>4, <1>5 DEF IInv

LEMMA StartStep == ASSUME IInv, Start PROVE IInv'
<1> USE DEF Start
<1>1. monitor = "absent" /\ requests = << >>
  BY DEF IInv, ControlShape, TypeOK
<1>2. TypeOK' /\ ControlShape'
  BY <1>1, SessionStutter
     DEF IInv, TypeOK, PlanTypeOK, planVars, ControlShape, worldVars, tickVars
<1>3. RequestShape' /\ ReplyShape' /\ InFlightIsRunning'
  BY <1>1 DEF IInv, RequestShape, ReplyShape, InFlightIsRunning, planVars, tickVars
<1>4. AssemblerTypeOK' /\ StoreShape'
  BY <1>1 DEF IInv, AssemblerTypeOK, StoreShape, assemblerVars
<1>5. QED
  BY <1>2, <1>3, <1>4 DEF IInv

LEMMA RequestDetailStep ==
    ASSUME IInv, NEW w \in Workpieces, RequestDetail(w) PROVE IInv'
<1> USE DEF RequestDetail
<1>1. PlanTypeOK'
  BY PlanAssumption DEF RequestOnDemand, IInv, TypeOK, PlanTypeOK
<1>2. selects' \in 0 .. MaxSelects
  BY MonitoringAssumption DEF IInv, TypeOK
<1>3. TypeOK' /\ ControlShape'
  BY <1>1, <1>2, SessionStutter DEF IInv, TypeOK, ControlShape, worldVars, tickVars
<1>4. QED
  BY <1>3, TickKept DEF IInv, tickVars, RequestOnDemand

LEMMA ControllerStep ==
    ASSUME IInv, Stop \/ Join \/ Rest \/ UNCHANGED vars PROVE IInv'
<1>1. /\ UNCHANGED <<sessionVars, planVars, assemblerVars, worldVars, monitor,
                     tickVars, store, selects>>
      /\ \/ UNCHANGED controller
         \/ controller # "starting" /\ controller' \in {"joining", "stopped"}
  BY DEF Stop, Join, Rest, vars, controlVars
<1>2. TypeOK'
  BY <1>1, SessionStutter
     DEF IInv, TypeOK, PlanTypeOK, planVars, worldVars, tickVars
<1>3. ControlShape'
  BY <1>1 DEF IInv, ControlShape
<1>4. QED
  BY <1>1, <1>2, <1>3, TickKept DEF IInv, tickVars, planVars

(* The inductive invariant.                                                *)
THEOREM Invariance == Spec => []IInv
<1>1. IInv /\ [Next]_vars => IInv'
  <2> SUFFICES ASSUME IInv, [Next]_vars PROVE IInv'
    OBVIOUS
  <2>1. CASE Elapse \/ ChangeMachine
    BY <2>1, ElapseStep, ChangeMachineStep
  <2>2. CASE MonitorDue \/ MonitorExit \/ MonitorRead
    BY <2>2, DueStep, ExitStep, ReadStep
  <2>3. CASE MonitorObserve \/ MonitorReport
    BY <2>3, ObserveMachineStep, ReportStep
  <2>4. CASE MonitorAccept \/ MonitorPublish \/ MonitorNotify
    BY <2>4, AcceptStep, PublishStep, NotifyStep
  <2>5. CASE Start \/ Stop \/ Join \/ Rest \/ UNCHANGED vars
    BY <2>5, StartStep, ControllerStep
  <2>6. CASE \E w \in Workpieces : RequestDetail(w)
    BY <2>6, RequestDetailStep
  <2>7. QED
    BY <2>1, <2>2, <2>3, <2>4, <2>5, <2>6 DEF Next
<1>2. QED
  BY <1>1, InitIInv, PTL DEF Spec

(* The types of the monitoring: the parts of MonitoringCoordinator::Tick   *)
(* always fit together.                                                    *)
THEOREM TypeCorrect == Spec => []TypeOK
<1>1. IInv => TypeOK
  BY DEF IInv
<1>2. QED
  BY <1>1, Invariance, PTL

(* A class is reserved exactly as long as its read is to be taken in, so   *)
(* no failure of a read and no refused publication loses it.               *)
THEOREM InFlightCorrect == Spec => []InFlightIsRunning
<1>1. IInv => InFlightIsRunning
  BY DEF IInv
<1>2. QED
  BY <1>1, Invariance, PTL

(* Versions are published one after the other, and each one is news.       *)
THEOREM NewsCorrect == Spec => EveryVersionIsNews
<1> DEFINE A == store' # store =>
          IF store = Nothing THEN store'.version = 1
          ELSE /\ store'.version = store.version + 1
               /\ \/ <<store'.health, store'.standard, store'.detail>>
                       # <<store.health, store.standard, store.detail>>
                  \/ /\ store'.freshness # store.freshness
                     /\ store'.freshness.state # "Fresh" \/ store.freshness.state # "Fresh"
<1>1. IInv /\ [Next]_vars => [A]_vars
  <2> SUFFICES ASSUME IInv, Next, store' # store PROVE A
    OBVIOUS
  <2>1. MonitorPublish
    BY DEF Next, Elapse, ChangeMachine, MonitorDue, MonitorExit, MonitorRead,
           MonitorObserve, MonitorReport, MonitorAccept, MonitorNotify, Start, Stop,
           Join, RequestDetail, Rest, vars
  <2>2. Follows(store, current) /\ store' = current
    BY <2>1 DEF MonitorPublish, IInv, StoreShape
  <2>3. QED
    BY <2>2 DEF Follows, News
<1>2. QED
  BY <1>1, Invariance, PTL DEF Spec, EveryVersionIsNews

(* The profile is fixed whatever the provider answers while monitoring.    *)
THEOREM ProfileCorrect == Spec => ProfileIsFixed
<1> DEFINE A == /\ profile # NoModel => profile' = profile
                /\ session = "MismatchLatched" => session' = "MismatchLatched"
                /\ session # "Unresolved" => session' # "Unresolved"
<1>1. IInv /\ [Next]_vars => [A]_sessionVars
  <2> SUFFICES ASSUME IInv, Next, sessionVars' # sessionVars PROVE A
    BY DEF vars
  <2>1. MonitorObserve
    BY DEF Next, Elapse, ChangeMachine, MonitorDue, MonitorExit, MonitorRead,
           MonitorReport, MonitorAccept, MonitorPublish, MonitorNotify, Start, Stop,
           Join, RequestDetail, Rest, vars
  <2>2. machine.model \in Answers /\ SessionTypeOK /\ Observe(machine.model)
    BY <2>1, MonitoringAssumption DEF MonitorObserve, IInv, TypeOK, Machines
  <2>3. QED
    BY <2>2, ObserveStep
<1>2. QED
  BY <1>1, Invariance, PTL DEF Spec, ProfileIsFixed
-----------------------------------------------------------------------------
(* What is known of a class: the last good value and the freshness that    *)
(* the last reply left.                                                    *)
Known(c) ==
    /\ lastGood[c] \in GoodReads(c) \cup {Nothing}
    /\ lastReply[c] \in Reads(c) \cup {Nothing}
    /\ CASE lastReply[c] = Nothing -> lastGood[c] = Nothing /\ classFreshness[c] = Nothing
         [] lastReply[c] # Nothing /\ ~Failed(lastReply[c]) ->
               /\ lastGood[c] = lastReply[c]
               /\ classFreshness[c] = lastReply[c].freshness
         [] lastReply[c] # Nothing /\ Failed(lastReply[c]) ->
               /\ classFreshness[c] \in Freshnesses
               /\ classFreshness[c].state # "Fresh"
               /\ lastGood[c] # Nothing =>
                     classFreshness[c].lastSuccessfulRead
                         = lastGood[c].freshness.lastSuccessfulRead

ValueOf(good) == IF good = Nothing THEN Nothing ELSE good.value

(* The snapshot says what is known, up to the time of fresh data.          *)
SnapshotIsKnown ==
    IF \E c \in Periodic : lastGood[c] = Nothing
    THEN current = Nothing
    ELSE /\ current \in Snapshots
         /\ current.health = health /\ current.standard = standard
         /\ FreshnessEquivalent(current.freshness,
               CombinedFreshness(classFreshness["Critical"], classFreshness["Standard"]))

AssembledShape ==
    /\ DOMAIN lastGood = Periodic /\ DOMAIN lastReply = Periodic
    /\ \A c \in Periodic : Known(c)
    /\ health = ValueOf(lastGood["Critical"])
    /\ standard = ValueOf(lastGood["Standard"])
    /\ SnapshotIsKnown

LEMMA InitAssembled == Init => AssembledShape
  BY MonitoringAssumption
     DEF Init, AssemblerInit, AssembledShape, Known, ValueOf, SnapshotIsKnown, Periodic

(* After assembling, the snapshot is the old one or says what was given.   *)
LEMMA AssembleKnown ==
    ASSUME AssemblerTypeOK, AssemblerTypeOK', TryAssemble
    PROVE  /\ health' = Nothing \/ standard' = Nothing => current' = current
           /\ health' # Nothing /\ standard' # Nothing
              /\ classFreshness'["Critical"] # Nothing
              /\ classFreshness'["Standard"] # Nothing =>
                 /\ current' \in Snapshots
                 /\ current'.health = health' /\ current'.standard = standard'
                 /\ FreshnessEquivalent(current'.freshness,
                       CombinedFreshness(classFreshness'["Critical"],
                                         classFreshness'["Standard"]))
<1> DEFINE combined == CombinedFreshness(classFreshness'["Critical"],
                                         classFreshness'["Standard"])
           snapshot == [version   |-> IF current = Nothing THEN 1 ELSE current.version + 1,
                        health    |-> health',
                        standard  |-> standard',
                        detail    |-> detail',
                        freshness |-> combined]
           missing == \/ health' = Nothing \/ standard' = Nothing
                      \/ classFreshness'["Critical"] = Nothing
                      \/ classFreshness'["Standard"] = Nothing
<1>1. current' = IF missing \/ (current # Nothing /\ NoChange(current, snapshot))
                 THEN current ELSE snapshot
  BY DEF TryAssemble
<1>2. FreshnessEquivalent(combined, combined)
  BY DEF FreshnessEquivalent
<1>3. ASSUME ~missing
      PROVE  /\ current' # Nothing
             /\ current'.health = health' /\ current'.standard = standard'
             /\ FreshnessEquivalent(current'.freshness, combined)
  <2>1. CASE current # Nothing /\ NoChange(current, snapshot)
    <3>1. current' = current
      BY <1>1, <2>1
    <3>2. /\ current.health = health' /\ current.standard = standard'
          /\ FreshnessEquivalent(current.freshness, combined)
      BY <2>1 DEF NoChange
    <3>3. QED
      BY <3>1, <3>2, <2>1
  <2>2. CASE ~(current # Nothing /\ NoChange(current, snapshot))
    <3>1. current' = snapshot
      BY <1>1, <1>3, <2>2
    <3>2. classFreshness'["Critical"] \in Freshnesses /\ classFreshness'["Standard"] \in Freshnesses
      BY <1>3 DEF AssemblerTypeOK, Periodic
    <3>3. snapshot \in Snapshots
      BY <1>3, <3>2, AssembledType DEF AssemblerTypeOK
    <3>4. current' # Nothing
      BY <3>1, <3>3, MonitoringAssumption
    <3>5. QED
      BY <3>1, <3>4, <1>2
  <2>3. QED
    BY <2>1, <2>2
<1>4. QED
  BY <1>1, <1>3 DEF AssemblerTypeOK

(* What is known of a class stays known while its fields stay.             *)
LEMMA KnownKept ==
    ASSUME NEW d, Known(d), lastReply'[d] = lastReply[d],
           lastGood'[d] = lastGood[d], classFreshness'[d] = classFreshness[d]
    PROVE  Known(d)'
<1>1. Failed(lastReply'[d]) <=> Failed(lastReply[d])
  BY DEF Failed
<1> QED
  BY <1>1 DEF Known

(* The reply that is taken in becomes what is known of its class.          *)
LEMMA AcceptKnown ==
    ASSUME IInv, AssembledShape, MonitorAccept
    PROVE  /\ DOMAIN lastGood' = Periodic /\ DOMAIN lastReply' = Periodic
           /\ \A d \in Periodic : Known(d)'
           /\ health' = ValueOf(lastGood'["Critical"])
           /\ standard' = ValueOf(lastGood'["Standard"])
           /\ \A d \in Periodic : lastGood'[d] = Nothing => lastGood[d] = Nothing
           /\ UNCHANGED <<assemblerVars, lastGood>> \/ TryAssemble
<1> USE DEF MonitorAccept
<1>0. PICK c : c = Head(requests).class
  OBVIOUS
<1>1. requests # << >> /\ RequestShape
  BY DEF IInv, TypeOK
<1>2. c \in Classes /\ reply \in Reads(c)
  BY <1>0, <1>1, HeadAndTail DEF Requests, IInv, ReplyShape
<1>3. c \in {"Critical", "Standard", "OnDemand"} /\ Periodic = {"Critical", "Standard"}
  BY <1>2 DEF Classes, Periodic
<1>4. /\ \A d \in Periodic : Known(d)
      /\ health = ValueOf(lastGood["Critical"]) /\ standard = ValueOf(lastGood["Standard"])
      /\ classFreshness \in [Periodic -> Freshnesses \cup {Nothing}]
      /\ DOMAIN lastGood = Periodic /\ DOMAIN lastReply = Periodic
  BY DEF AssembledShape, IInv, AssemblerTypeOK
<1>5. reply # Nothing
  BY <1>2, MonitoringAssumption
<1>6. CASE c = "OnDemand"
  <2>1. /\ UNCHANGED <<lastReply, lastGood, health, standard>>
        /\ classFreshness' = classFreshness
        /\ UNCHANGED assemblerVars \/ TryAssemble
    BY <1>0, <1>3, <1>4, <1>6 DEF AcceptFailure, AcceptSuccess, assemblerVars
  <2>2. \A d \in Periodic : Known(d)'
    <3> TAKE d \in Periodic
    <3>1. Known(d) /\ lastReply'[d] = lastReply[d] /\ lastGood'[d] = lastGood[d]
          /\ classFreshness'[d] = classFreshness[d]
      BY <1>4, <2>1
    <3> QED
      BY <3>1, KnownKept
  <2>3. QED
    BY <1>4, <2>1, <2>2
<1>7. CASE c \in Periodic /\ Failed(reply)
  <2>1. reply.error \in ReadErrors
    BY <1>2, <1>7 DEF Failed, Reads, GoodReads, BadReads
  <2>2. /\ lastReply' = [lastReply EXCEPT ![c] = reply]
        /\ UNCHANGED <<lastGood, health, standard>> /\ TryAssemble
        /\ classFreshness' =
              [classFreshness EXCEPT ![c] = MarkFailed(classFreshness[c], reply.error)]
    BY <1>0, <1>3, <1>7 DEF AcceptFailure
  <2>3. classFreshness[c] \in Freshnesses \cup {Nothing}
    BY <1>7 DEF IInv, AssemblerTypeOK
  <2>4. LET f == MarkFailed(classFreshness[c], reply.error) IN
           /\ f \in Freshnesses /\ f.state # "Fresh"
           /\ classFreshness[c] # Nothing =>
                 f.lastSuccessfulRead = classFreshness[c].lastSuccessfulRead
    BY <2>1, <2>3, MonitoringAssumption DEF MarkFailed, Freshness, Freshnesses
  <2>5. lastGood[c] # Nothing =>
           /\ classFreshness[c] # Nothing
           /\ classFreshness[c].lastSuccessfulRead = lastGood[c].freshness.lastSuccessfulRead
    BY <1>4, <1>7, MonitoringAssumption DEF Known, Reads, GoodReads
  <2>6. /\ lastReply'[c] = reply /\ lastGood'[c] = lastGood[c]
        /\ classFreshness'[c] = MarkFailed(classFreshness[c], reply.error)
        /\ DOMAIN lastReply' = Periodic
        /\ \A d \in Periodic \ {c} : /\ lastReply'[d] = lastReply[d]
                                    /\ classFreshness'[d] = classFreshness[d]
    BY <1>4, <1>7, <2>2
  <2>7. lastGood[c] \in GoodReads(c) \cup {Nothing}
    BY <1>4, <1>7 DEF Known
  <2>8. Known(c)'
    BY <1>2, <1>5, <1>7, <2>2, <2>4, <2>5, <2>6, <2>7 DEF Known
  <2>9. \A d \in Periodic \ {c} : Known(d)'
    <3> TAKE d \in Periodic \ {c}
    <3>1. Known(d) /\ lastReply'[d] = lastReply[d] /\ lastGood'[d] = lastGood[d]
          /\ classFreshness'[d] = classFreshness[d]
      BY <1>4, <2>2, <2>6
    <3> QED
      BY <3>1, KnownKept
  <2>10. QED
    BY <1>4, <1>7, <2>2, <2>6, <2>8, <2>9
<1>8. CASE c \in Periodic /\ ~Failed(reply)
  <2>1. reply \in GoodReads(c) /\ reply.freshness \in Freshnesses
    BY <1>2, <1>8 DEF Failed, Reads, GoodReads, BadReads
  <2>2. /\ lastReply' = [lastReply EXCEPT ![c] = reply]
        /\ lastGood' = [lastGood EXCEPT ![c] = reply]
        /\ health' = IF c = "Critical" THEN reply.value ELSE health
        /\ standard' = IF c = "Standard" THEN reply.value ELSE standard
        /\ classFreshness' = [d \in {"Critical", "Standard"} |->
                                IF d = c THEN reply.freshness ELSE classFreshness[d]]
        /\ TryAssemble
    BY <1>0, <1>8 DEF AcceptSuccess
  <2>3. /\ lastReply'[c] = reply /\ lastGood'[c] = reply
        /\ classFreshness'[c] = reply.freshness
        /\ DOMAIN lastReply' = Periodic /\ DOMAIN lastGood' = Periodic
        /\ \A d \in Periodic \ {c} : /\ lastReply'[d] = lastReply[d]
                                    /\ lastGood'[d] = lastGood[d]
                                    /\ classFreshness'[d] = classFreshness[d]
    BY <1>3, <1>4, <1>8, <2>2
  <2>4. Known(c)'
    BY <1>2, <1>5, <1>8, <2>1, <2>3 DEF Known
  <2>5. \A d \in Periodic \ {c} : Known(d)'
    <3> TAKE d \in Periodic \ {c}
    <3>1. Known(d) /\ lastReply'[d] = lastReply[d] /\ lastGood'[d] = lastGood[d]
          /\ classFreshness'[d] = classFreshness[d]
      BY <1>4, <2>3
    <3> QED
      BY <3>1, KnownKept
  <2>6. health' = ValueOf(lastGood'["Critical"]) /\ standard' = ValueOf(lastGood'["Standard"])
    BY <1>3, <1>4, <1>5, <1>8, <2>2, <2>3 DEF ValueOf
  <2>7. QED
    BY <1>4, <1>5, <1>8, <2>2, <2>3, <2>4, <2>5, <2>6
<1>9. QED
  BY <1>3, <1>6, <1>7, <1>8

(* Taking a reply in keeps it so.                                           *)
LEMMA AcceptAssembled ==
    ASSUME IInv, AssembledShape, MonitorAccept PROVE AssembledShape'
<1>1. AssemblerTypeOK /\ AssemblerTypeOK' /\ SnapshotIsKnown
  BY AcceptStep DEF IInv, AssembledShape
<1>2. /\ DOMAIN lastGood' = Periodic /\ DOMAIN lastReply' = Periodic
      /\ \A d \in Periodic : Known(d)'
      /\ health' = ValueOf(lastGood'["Critical"])
      /\ standard' = ValueOf(lastGood'["Standard"])
      /\ \A d \in Periodic : lastGood'[d] = Nothing => lastGood[d] = Nothing
      /\ UNCHANGED <<assemblerVars, lastGood>> \/ TryAssemble
  BY AcceptKnown
<1>3. ASSUME TryAssemble, NEW d \in Periodic, lastGood'[d] = Nothing
      PROVE  current' = Nothing
  <2>1. current = Nothing
    BY <1>1, <1>2, <1>3 DEF SnapshotIsKnown
  <2>2. health' = Nothing \/ standard' = Nothing
    BY <1>2, <1>3 DEF Periodic, ValueOf
  <2>3. QED
    BY <1>1, <1>3, <2>1, <2>2, AssembleKnown
<1>4. ASSUME TryAssemble, \A d \in Periodic : lastGood'[d] # Nothing
      PROVE  /\ current' \in Snapshots
             /\ current'.health = health' /\ current'.standard = standard'
             /\ FreshnessEquivalent(current'.freshness,
                   CombinedFreshness(classFreshness'["Critical"],
                                     classFreshness'["Standard"]))
  <2>1. "Critical" \in Periodic /\ "Standard" \in Periodic
    BY DEF Periodic
  <2>2. \A d \in Periodic : lastGood'[d] \in GoodReads(d)
    BY <1>2, <1>4 DEF Known
  <2>3. lastGood'["Critical"].value \in Healths
    BY <2>1, <2>2 DEF GoodReads, ValuesOf
  <2>4. lastGood'["Standard"].value \in SUBSET Workpieces
    BY <2>1, <2>2 DEF GoodReads, ValuesOf
  <2>5. health' # Nothing /\ standard' # Nothing
    BY <1>2, <1>4, <2>1, <2>3, <2>4, MonitoringAssumption DEF ValueOf
  <2>6. \A d \in Periodic : classFreshness'[d] \in Freshnesses
    <3> TAKE d \in Periodic
    <3>1. Known(d)' /\ lastGood'[d] # Nothing /\ lastGood'[d] \in GoodReads(d)
      BY <1>2, <1>4, <2>2
    <3>2. lastGood'[d].freshness \in Freshnesses
      BY <3>1 DEF GoodReads
    <3>3. QED
      BY <3>1, <3>2 DEF Known
  <2>7. classFreshness'["Critical"] # Nothing /\ classFreshness'["Standard"] # Nothing
    BY <2>1, <2>6, MonitoringAssumption
  <2>8. QED
    BY <1>1, <1>4, <2>5, <2>7, AssembleKnown
<1>5. SnapshotIsKnown'
  <2>1. CASE UNCHANGED <<assemblerVars, lastGood>>
    BY <1>1, <2>1 DEF SnapshotIsKnown, assemblerVars
  <2>2. CASE TryAssemble
    BY <1>3, <1>4, <2>2 DEF SnapshotIsKnown
  <2>3. QED
    BY <1>2, <2>1, <2>2
<1>6. QED
  BY <1>2, <1>5 DEF AssembledShape

(* What the assembler holds follows from the replies taken in so far.      *)
THEOREM AssembledCorrect == Spec => []AssembledShape
<1>1. IInv /\ AssembledShape /\ [Next]_vars => AssembledShape'
  <2> SUFFICES ASSUME IInv, AssembledShape, [Next]_vars PROVE AssembledShape'
    OBVIOUS
  <2>1. CASE MonitorAccept
    BY <2>1, AcceptAssembled
  <2>2. CASE UNCHANGED <<assemblerVars, historyVars>>
    BY <2>2 DEF AssembledShape, Known, SnapshotIsKnown, assemblerVars, historyVars
  <2>3. MonitorAccept \/ UNCHANGED <<assemblerVars, historyVars>>
    BY DEF Next, Elapse, ChangeMachine, MonitorDue, MonitorExit, MonitorRead,
           MonitorObserve, MonitorReport, MonitorPublish, MonitorNotify, Start, Stop,
           Join, RequestDetail, Rest, vars
  <2>4. QED
    BY <2>1, <2>2, <2>3
<1>2. QED
  BY <1>1, InitAssembled, Invariance, PTL DEF Spec

(* What is published is what the last reads said: the last good values, a  *)
(* fresh state only if every last read was good and fresh, and otherwise   *)
(* the time of the older of the last good reads.                           *)
THEOREM PublishedCorrect == Spec => []PublishedIsLatest
<1>1. IInv /\ AssembledShape => PublishedIsLatest
  <2> SUFFICES ASSUME IInv, AssembledShape, monitor # "publishing",
                      \A c \in Periodic : lastGood[c] # Nothing
               PROVE  /\ store # Nothing
                      /\ store.health = lastGood["Critical"].value
                      /\ store.standard = lastGood["Standard"].value
                      /\ store.freshness.state = "Fresh" <=>
                            \A c \in Periodic : ~Failed(lastReply[c])
                                                /\ lastReply[c].freshness.state = "Fresh"
                      /\ store.freshness.state # "Fresh" =>
                            LET at == {lastGood[c].freshness.lastSuccessfulRead :
                                          c \in Periodic}
                            IN  /\ store.freshness.lastSuccessfulRead \in at
                                /\ \A t \in at : store.freshness.lastSuccessfulRead <= t
    <3>1. ASSUME IInv, AssembledShape, monitor # "publishing",
                 \E c \in Periodic : lastGood[c] = Nothing
          PROVE  store = Nothing
      BY <3>1 DEF IInv, StoreShape, AssembledShape, SnapshotIsKnown
    <3>2. QED
      BY <3>1 DEF PublishedIsLatest
  <2> DEFINE critical == classFreshness["Critical"]
             std == classFreshness["Standard"]
  <2>1. store = current /\ current \in Snapshots
    BY DEF IInv, StoreShape, AssembledShape, SnapshotIsKnown
  <2>2. /\ store.health = health /\ store.standard = standard
        /\ FreshnessEquivalent(store.freshness, CombinedFreshness(critical, std))
    BY <2>1 DEF AssembledShape, SnapshotIsKnown
  <2>3. "Critical" \in Periodic /\ "Standard" \in Periodic
        /\ Periodic = {"Critical", "Standard"}
    BY DEF Periodic
  <2>4. health = lastGood["Critical"].value /\ standard = lastGood["Standard"].value
    BY <2>3 DEF AssembledShape, ValueOf
  <2>5. ASSUME NEW c \in Periodic
        PROVE  /\ classFreshness[c] \in Freshnesses
               /\ classFreshness[c].state = "Fresh" <=>
                     ~Failed(lastReply[c]) /\ lastReply[c].freshness.state = "Fresh"
               /\ classFreshness[c].lastSuccessfulRead
                     = lastGood[c].freshness.lastSuccessfulRead
    <3>1. Known(c) /\ lastGood[c] # Nothing
      BY DEF AssembledShape
    <3>2. lastGood[c].freshness \in Freshnesses
      BY <3>1 DEF Known, GoodReads
    <3>3. QED
      BY <3>1, <3>2 DEF Known
  <2>6. critical \in Freshnesses /\ std \in Freshnesses
    BY <2>3, <2>5
  <2>7. /\ critical.lastSuccessfulRead \in Int /\ std.lastSuccessfulRead \in Int
        /\ critical.state \in {"Fresh", "Stale", "Unavailable"}
        /\ std.state \in {"Fresh", "Stale", "Unavailable"}
    BY <2>6 DEF Freshnesses
  <2>8. store.freshness.state = "Fresh" <=> critical.state = "Fresh" /\ std.state = "Fresh"
    BY <2>2, <2>7 DEF FreshnessEquivalent, CombinedFreshness, Freshness
  <2>9. store.freshness.state # "Fresh" =>
           /\ store.freshness.lastSuccessfulRead
                 \in {critical.lastSuccessfulRead, std.lastSuccessfulRead}
           /\ store.freshness.lastSuccessfulRead <= critical.lastSuccessfulRead
           /\ store.freshness.lastSuccessfulRead <= std.lastSuccessfulRead
    BY <2>2, <2>7 DEF FreshnessEquivalent, CombinedFreshness, Freshness
  <2>10. {lastGood[c].freshness.lastSuccessfulRead : c \in Periodic}
            = {critical.lastSuccessfulRead, std.lastSuccessfulRead}
    BY <2>3, <2>5
  <2>11. store # Nothing
    BY <2>1, MonitoringAssumption
  <2>12. store.freshness.state = "Fresh" <=>
            \A c \in Periodic : ~Failed(lastReply[c])
                                /\ lastReply[c].freshness.state = "Fresh"
    BY <2>3, <2>5, <2>8
  <2>13. QED
    BY <2>2, <2>4, <2>9, <2>10, <2>11, <2>12
<1>2. QED
  BY <1>1, Invariance, AssembledCorrect, PTL
(* Seen from the session, monitoring is a sequence of observations, each   *)
(* of one answer of the provider (ObserveMachineModel).                    *)
THEOREM MonitoringObserves == Spec => SessionSpec
<1>1. Init => SessionInit
  BY DEF Init
<1>2. IInv /\ [Next]_vars => [SessionNext]_sessionVars
  <2> SUFFICES ASSUME IInv, [Next]_vars PROVE [SessionNext]_sessionVars
    OBVIOUS
  <2>1. CASE MonitorObserve
    <3>1. machine.model \in Answers
      BY MonitoringAssumption DEF IInv, TypeOK, Machines
    <3> QED
      BY <2>1, <3>1 DEF MonitorObserve, SessionNext
  <2>2. CASE ~MonitorObserve
    BY <2>2 DEF Next, Elapse, ChangeMachine, MonitorDue, MonitorExit, MonitorRead,
         MonitorReport, MonitorAccept, MonitorPublish, MonitorNotify, Start, Stop,
         Join, RequestDetail, Rest, vars
  <2> QED
    BY <2>1, <2>2
<1> QED
  BY <1>1, <1>2, Invariance, PTL DEF Spec, SessionSpec

-----------------------------------------------------------------------------
(* A step of the monitoring with the UI thread is one of the monitoring,   *)
(* or one of the screens that the monitoring does not see.                 *)
LEMMA UiStep == [UiNext]_allVars => [Next]_vars
  BY DEF UiNext, Background, AcceptReply, PostSnapshotChanged, PostModelChanged,
         OnSnapshotChanged, OnMachineModelStateChanged, SelectWorkpiece, Lifecycle,
         UiRest, Next, allVars

(* The UI thread changes nothing of what is proved of the monitoring alone *)
(* (the sinks only post, the presenters only read).                        *)
THEOREM MonitoringUnderUi == UiSpec => Spec
<1>1. UiInit => Init
  BY DEF UiInit
<1> QED
  BY <1>1, UiStep, PTL DEF UiSpec, Spec

(* Nothing is on its way to the screens: no message waits, the last one    *)
(* was not lost, and the monitoring thread is not about to post one.       *)
NothingUnderway ==
    /\ snapshotMail = 0 /\ modelMail = 0
    /\ delivered
    /\ monitor \notin {"notifying", "reporting"}

UiInv ==
    /\ snapshotMail \in Nat /\ modelMail \in Nat /\ delivered \in BOOLEAN
    /\ NothingUnderway => ScreensCurrent

(* An observation that is not reported changes nothing that is shown.      *)
LEMMA UnreportedChangesNothing ==
    ASSUME SessionTypeOK, NEW answer \in Answers, Observe(answer), ~Reports(answer)
    PROVE  UNCHANGED <<session, profile>>
<1>1. CASE session = "MismatchLatched"
  BY <1>1 DEF Observe, sessionVars
<1>2. CASE session # "MismatchLatched" /\ ObserveModel(answer)
  <2>1. CodeOf(answer) = answer /\ answer \notin Transient
    BY <1>2, SessionAssumption DEF ObserveModel, CodeOf, Transient, ErrorCodes
  <2> QED
    BY <1>2, <2>1 DEF ObserveModel, Reports
<1>3. CASE session # "MismatchLatched" /\ ObserveFailure(answer)
  <2>1. answer # profile \/ session = "Unresolved"
    BY <1>3 DEF ObserveFailure, SessionTypeOK
  <2> QED
    BY <1>3, <2>1 DEF ObserveFailure, Reports, SessionTypeOK
<1> QED
  BY <1>1, <1>2, <1>3 DEF Observe

(* A step that is not seen on the screens and starts no message.           *)
LEMMA Unseen ==
    ASSUME UiInv, UNCHANGED <<store, session, profile, shown, selection>>,
           UNCHANGED <<snapshotMail, modelMail, delivered>>,
           monitor' = monitor \/ monitor \notin {"notifying", "reporting"}
    PROVE  UiInv'
<1>1. NothingUnderway' => NothingUnderway
  BY DEF NothingUnderway
<1>2. ScreensCurrent => ScreensCurrent'
  BY DEF ScreensCurrent
<1> QED
  BY <1>1, <1>2 DEF UiInv

LEMMA UiNextInv == IInv /\ UiInv /\ [UiNext]_allVars => UiInv'
<1> SUFFICES ASSUME IInv, UiInv, [UiNext]_allVars PROVE UiInv'
  OBVIOUS
<1>1. CASE Background
  <2>1. UNCHANGED <<shown, selection, snapshotMail, modelMail, delivered>>
    BY <1>1 DEF Background, uiVars, screenVars
  <2>2. CASE Elapse \/ ChangeMachine \/ MonitorDue \/ MonitorExit \/ MonitorRead
    <3>1. /\ UNCHANGED <<store, session, profile>>
          /\ monitor' = monitor \/ monitor \notin {"notifying", "reporting"}
      BY <2>2 DEF Elapse, ChangeMachine, MonitorDue, MonitorExit, MonitorRead, sessionVars
    <3> QED
      BY <2>1, <3>1, Unseen
  <2>3. CASE MonitorObserve
    <3>1. /\ SessionTypeOK /\ machine.model \in Answers
          /\ Observe(machine.model) /\ UNCHANGED store
          /\ monitor = "observing"
          /\ ~Reports(machine.model) \/ monitor' = "reporting"
      BY <2>3, MonitoringAssumption DEF MonitorObserve, IInv, TypeOK, Machines
    <3>2. CASE ~Reports(machine.model)
      <4>1. UNCHANGED <<session, profile>>
        BY <3>1, <3>2, UnreportedChangesNothing
      <4> QED
        BY <2>1, <3>1, <4>1, Unseen
    <3>3. CASE monitor' = "reporting"
      BY <2>1, <3>3 DEF UiInv, NothingUnderway
    <3> QED
      BY <3>1, <3>2, <3>3
  <2>4. CASE MonitorPublish
    <3>1. /\ UNCHANGED <<session, profile>> /\ monitor = "publishing"
          /\ UNCHANGED store \/ monitor' = "notifying"
      BY <2>4 DEF MonitorPublish, sessionVars
    <3>2. CASE UNCHANGED store
      BY <2>1, <3>1, <3>2, Unseen
    <3>3. CASE monitor' = "notifying"
      BY <2>1, <3>3 DEF UiInv, NothingUnderway
    <3> QED
      BY <3>1, <3>2, <3>3
  <2> QED
    BY <1>1, <2>2, <2>3, <2>4 DEF Background
<1>2. CASE AcceptReply
  <2>1. /\ UNCHANGED <<store, session, profile, shown, selection>>
        /\ UNCHANGED <<snapshotMail, modelMail, delivered>>
        /\ monitor = "accepting"
    BY <1>2 DEF AcceptReply, MonitorAccept, sessionVars, screenVars
  <2> QED
    BY <2>1, Unseen
<1>3. CASE PostSnapshotChanged \/ PostModelChanged
  <2>1. /\ delivered' \in BOOLEAN
        /\ \/ snapshotMail' = Post(snapshotMail) /\ modelMail' = modelMail
           \/ modelMail' = Post(modelMail) /\ snapshotMail' = snapshotMail
    BY <1>3 DEF PostSnapshotChanged, PostModelChanged, PostOutcome
  <2>2. snapshotMail' \in Nat /\ modelMail' \in Nat
    BY <2>1 DEF UiInv, Post
  <2>3. ~NothingUnderway'
    BY <2>1 DEF UiInv, Post, NothingUnderway
  <2> QED
    BY <2>1, <2>2, <2>3 DEF UiInv
<1>4. CASE OnSnapshotChanged \/ OnMachineModelStateChanged
  <2>1. /\ RedrawStatus /\ DropSelection
        /\ UNCHANGED <<store, session, profile, delivered>>
        /\ snapshotMail' \in Nat /\ modelMail' \in Nat
    BY <1>4 DEF OnSnapshotChanged, OnMachineModelStateChanged, UiInv, vars, sessionVars
  <2>2. ScreensCurrent'
    BY <2>1 DEF RedrawStatus, DropSelection, ScreensCurrent
  <2> QED
    BY <2>1, <2>2 DEF UiInv
<1>5. ASSUME NEW w \in Workpieces, SelectWorkpiece(w) PROVE UiInv'
  <2>1. /\ UNCHANGED <<store, session, profile, shown, monitor>>
        /\ UNCHANGED <<snapshotMail, modelMail, delivered>>
        /\ selection' = w /\ w \in store.standard
    BY <1>5 DEF SelectWorkpiece, RequestDetail, sessionVars
  <2>2. NothingUnderway' => NothingUnderway
    BY <2>1 DEF NothingUnderway
  <2>3. ScreensCurrent => ScreensCurrent'
    BY <2>1 DEF ScreensCurrent
  <2> QED
    BY <2>1, <2>2, <2>3 DEF UiInv
<1>6. CASE Lifecycle \/ UiRest \/ UNCHANGED allVars
  <2>1. /\ UNCHANGED <<store, session, profile, shown, selection>>
        /\ UNCHANGED <<snapshotMail, modelMail, delivered>>
    BY <1>6 DEF Lifecycle, UiRest, Start, Stop, Join, Rest, allVars, vars, uiVars,
                screenVars, sessionVars
  <2>2. monitor' = monitor \/ monitor \notin {"notifying", "reporting"}
    BY <1>6 DEF IInv, ControlShape, Lifecycle, UiRest, Start, Stop, Join, Rest, allVars, vars
  <2> QED
    BY <2>1, <2>2, Unseen
<1> QED
  BY <1>1, <1>2, <1>3, <1>4, <1>5, <1>6 DEF UiNext

(* Whatever the order of the messages and whichever of them were lost: the *)
(* status bar, the machine model on display and the selection agree with   *)
(* the store and the session, or something that redraws them is on its     *)
(* way, or the last message was lost (SnapshotMessageSink 10-27,           *)
(* MachineModelStateMessageSink, ObserveMachineModel).                     *)
THEOREM ScreensAreCurrent == UiSpec => [](NothingUnderway => ScreensCurrent)
<1>1. UiInit => UiInv
  BY DEF UiInit, Init, SessionInit, UiInv, ScreensCurrent
<1>2. UiSpec => []IInv
  BY MonitoringUnderUi, Invariance, PTL
<1>3. UiInv => (NothingUnderway => ScreensCurrent)
  BY DEF UiInv
<1> QED
  BY <1>1, <1>2, <1>3, UiNextInv, PTL DEF UiSpec
=============================================================================
