------------------------ MODULE ScenarioLoaderProofs ------------------------
(***************************************************************************)
(* Proofs about ScenarioLoader, for any files, whatever their rows say and *)
(* in whatever order they stand, and for any sizes of the unsigned types.  *)
(*                                                                         *)
(* The argument: while frames are built, the rows taken up so far (Taken)  *)
(* are all earlier than those left, and of each address the responses hold *)
(* the value of the latest row taken.  A frame is a function of the        *)
(* responses, and later rows cannot change what an earlier frame says.     *)
(***************************************************************************)
EXTENDS ScenarioLoader, FiniteSetTheorems, SequenceTheorems, TLAPS

Phases == {"reading", "building", "playing", "refused", "threw"}

TypeOK ==
    /\ IsFile(lines)
    /\ next \in Nat \ {0}
    /\ headerRead \in BOOLEAN
    /\ rows \subseteq Given
    /\ phase \in Phases
    /\ frames \in Seq({frames[n] : n \in DOMAIN frames})
    /\ elapsed \in Nat
    /\ version \in Nat
    /\ writes \in Nat

(* The rows that the frames built so far have taken up, and their times.   *)
Taken == Given \ rows
Times == {lines[i].at : i \in Taken}

(* Of the rows taken, i is the latest that gives an address its value.     *)
Latest(i) ==
    \A j \in Taken : lines[j].addr = lines[i].addr => lines[j].at <= lines[i].at

(* Before the end of the file: the rows are those of the lines read.       *)
ReadingFits ==
    phase = "reading" =>
        /\ rows = {i \in Given : i < next}
        /\ frames = <<>> /\ responses = <<>> /\ lastRead = 0

(* After it: no two rows compete, the rows taken are earlier than those    *)
(* left, and the responses are the latest values.                          *)
RowsFit ==
    phase \in {"building", "playing"} =>
        /\ \A i, j \in Given :
             lines[i].at = lines[j].at /\ lines[i].addr = lines[j].addr => i = j
        /\ \E i \in Given : lines[i].at = 0
        /\ \A i \in Taken, j \in rows : lines[i].at < lines[j].at
        /\ \A a \in DOMAIN responses : \E i \in Taken :
             lines[i].addr = a /\ lines[i].value = responses[a] /\ Latest(i)

(* The frames are those of the times taken, in order, from zero.           *)
FramesFit ==
    phase \in {"building", "playing"} =>
        /\ Len(frames) = Cardinality(Times)
        /\ \A n \in DOMAIN frames : frames[n].at \in Times
        /\ \A m, n \in DOMAIN frames : m < n => frames[m].at < frames[n].at
        /\ frames # <<>> => frames[1].at = 0
        /\ \A n \in DOMAIN frames : FrameFollowsTheFile(frames[n])

(* The last good frame so far is the one that lastRead names.              *)
LastReadFits ==
    phase \in {"reading", "building", "playing"} =>
        LET good == Good(Len(frames))
        IN  /\ good = {} => lastRead = 0
            /\ \A m \in good :
                 (\A k \in good : k <= m) => lastRead = frames[m].capturedAt

PlayingFits == phase = "playing" => rows = {} /\ frames # <<>>

IInv ==
    /\ TypeOK /\ ReadingFits /\ RowsFit /\ FramesFit
    /\ \A n \in DOMAIN frames : frames[n].version = n
    /\ FramesAreConsistent
    /\ LastReadIsTheLastGood /\ LastReadFits /\ PlayingFits

(* A scenario all of whose frames were built is accepted: their times      *)
(* increase from zero, so that CreateScenario never refuses them.          *)
BuiltIsAccepted ==
    phase = "building" /\ rows = {} =>
        /\ frames # <<>> /\ frames[1].at = 0
        /\ \A i \in 2..Len(frames) : frames[i].at > frames[i - 1].at

-----------------------------------------------------------------------------
(* The first check that fails says what BuildFrame ends in.                *)
LEMMA VerdictOfChecks ==
  ASSUME NEW r
  PROVE  IF Failures(r) = {} THEN Verdict(r) = "building"
         ELSE Verdict(r) \in {"refused", "threw"}
<1>1. DOMAIN Checks(r) = 1 .. 8
  BY DEF Checks
<1>2. \A i \in 1 .. 8 : Checks(r)[i][2] \in {"refused", "threw"}
  BY DEF Checks
<1>3. ASSUME Failures(r) # {}
      PROVE  (CHOOSE i \in Failures(r) : \A j \in Failures(r) : i <= j) \in 1 .. 8
  <2> SUFFICES ASSUME ~\E i \in Failures(r) : \A j \in Failures(r) : i <= j PROVE FALSE
    BY <1>1 DEF Failures
  <2>0. Failures(r) \subseteq 1 .. 8
    BY <1>1 DEF Failures
  <2>1. 1 \notin Failures(r)
    BY <2>0
  <2>2. 2 \notin Failures(r)
    BY <2>0, <2>1
  <2>3. 3 \notin Failures(r)
    BY <2>0, <2>1, <2>2
  <2>4. 4 \notin Failures(r)
    BY <2>0, <2>1, <2>2, <2>3
  <2>5. 5 \notin Failures(r)
    BY <2>0, <2>1, <2>2, <2>3, <2>4
  <2>6. 6 \notin Failures(r)
    BY <2>0, <2>1, <2>2, <2>3, <2>4, <2>5
  <2>7. 7 \notin Failures(r)
    BY <2>0, <2>1, <2>2, <2>3, <2>4, <2>5, <2>6
  <2>8. 8 \notin Failures(r)
    BY <2>0, <2>1, <2>2, <2>3, <2>4, <2>5, <2>6, <2>7
  <2> QED
    BY <1>3, <2>0, <2>1, <2>2, <2>3, <2>4, <2>5, <2>6, <2>7, <2>8
<1> QED
  BY <1>2, <1>3 DEF Verdict

(* A frame is built only when none of the checks fails.                    *)
LEMMA VerdictPasses ==
  ASSUME NEW r, Verdict(r) = "building"
  PROVE  \A i \in 1 .. 8 : Checks(r)[i][1]
<1>1. DOMAIN Checks(r) = 1 .. 8
  BY DEF Checks
<1> QED
  BY <1>1, VerdictOfChecks DEF Failures

LEMMA CheckedResponses ==
  ASSUME NEW r, Verdict(r) = "building"
  PROVE  /\ HealthReadable(r)
         /\ Number(r, "WorkpieceCount", 0) >= 0
         /\ \A w \in ToSet(Ids(r)) : WorkpieceReadable(r, w)
         /\ QueueValid(r)
         /\ SlotsValid(r)
         /\ \A d \in 1 .. Number(r, "DestinationCount", 0) : DestinationReadable(r, d)
<1>1. /\ Checks(r)[1][1] /\ Checks(r)[3][1] /\ Checks(r)[5][1] /\ Checks(r)[6][1] /\ Checks(r)[8][1]
  BY VerdictPasses
<1>2. HealthReadable(r)
  BY <1>1 DEF Checks
<1>3. Number(r, "WorkpieceCount", 0) >= 0
  BY <1>1 DEF Checks
<1>4. \A i \in DOMAIN Ids(r) : WorkpieceReadable(r, Ids(r)[i])
  BY <1>1 DEF Checks
<1>5. QueueValid(r) /\ SlotsValid(r)
  BY <1>1 DEF Checks
<1>6. \A d \in 1 .. Number(r, "DestinationCount", 0) : DestinationReadable(r, d)
  BY <1>1 DEF Checks
<1> QED
  BY <1>2, <1>3, <1>4, <1>5, <1>6 DEF ToSet

(* What the priority of a workpiece of the queue is.                       *)
LEMMA QueueByPriority ==
  ASSUME NEW r, QueueValid(r), NEW p \in DOMAIN Queue(r)
  PROVE  Queue(r)[p] \in ToSet(Ids(r)) /\ Priority(r, Queue(r)[p]) = p
<1>1. p \in 1 .. Len(Ids(r))
  BY DEF Queue
<1>2. \E w \in ToSet(Ids(r)) : Priority(r, w) = p
  BY <1>1 DEF QueueValid
<1> QED
  BY <1>1, <1>2 DEF Queue

(* A frame says what the responses say that it was built from.             *)
LEMMA FrameShowsResponses ==
  ASSUME NEW r, NEW at, NEW before, Verdict(r) = "building",
         \A a \in DOMAIN r : Says(a, at, r[a])
  PROVE  FrameFollowsTheFile(Frame(r, at, before))
<1> DEFINE f == Frame(r, at, before)
<1>1. /\ f.at = at /\ f.connection = Word(r, "Connection", 0)
      /\ f.workpieces = Queue(r)
      /\ f.location = [w \in ToSet(Ids(r)) |-> Location(r, w)]
      /\ f.status = [w \in ToSet(Ids(r)) |-> Word(r, "Status", w)]
      /\ f.destinations = [d \in 1 .. Number(r, "DestinationCount", 0) |->
                             Word(r, "Availability", d)]
  BY DEF Frame
<1> HIDE DEF f
<1>2. \A id, k : Word(r, id, k) # "" => Says(<<id, k, 0>>, at, Word(r, id, k))
  BY DEF Word
<1>3. \A id, k : Number(r, id, k) # Unreadable =>
                   Says(<<id, k, 0>>, at, Number(r, id, k))
  BY DEF Number
<1>4. Says(<<"Connection", 0, 0>>, f.at, f.connection)
  <2>1. Word(r, "Connection", 0) # ""
    BY CheckedResponses DEF HealthReadable, ConnectionStates
  <2>2. Says(<<"Connection", 0, 0>>, at, Word(r, "Connection", 0))
    BY <1>2, <2>1
  <2> QED
    BY <1>1, <2>2
<1>5. ASSUME NEW p \in DOMAIN f.workpieces, NEW w, w = f.workpieces[p]
      PROVE  /\ Says(<<"Priority", w, 0>>, f.at, p)
             /\ Says(<<"Status", w, 0>>, f.at, f.status[w])
             /\ Says(<<"LocationType", w, 0>>, f.at, f.location[w].kind)
  <2>1. w \in ToSet(Ids(r)) /\ Priority(r, w) = p /\ p \in 1 .. Len(Ids(r))
    BY <1>1, <1>5, QueueByPriority, CheckedResponses DEF Queue
  <2>2. WorkpieceReadable(r, w)
    BY <2>1, CheckedResponses
  <2>3. p # Unreadable
    BY <2>1 DEF Unreadable
  <2>4. Says(<<"Priority", w, 0>>, f.at, p)
    BY <1>1, <1>3, <2>1, <2>3 DEF Priority
  <2>5. Says(<<"Status", w, 0>>, f.at, f.status[w])
    <3>1. Word(r, "Status", w) # ""
      BY <2>2 DEF WorkpieceReadable, Statuses
    <3>2. Says(<<"Status", w, 0>>, at, Word(r, "Status", w))
      BY <1>2, <3>1
    <3>3. f.status[w] = Word(r, "Status", w)
      BY <1>1, <2>1
    <3> QED
      BY <1>1, <3>2, <3>3
  <2>6. Word(r, "LocationType", w) # ""
    BY <2>2 DEF WorkpieceReadable, LocationReadable, PlaceReadable
  <2>7. f.location[w].kind = Word(r, "LocationType", w)
    BY <1>1, <2>1 DEF Location
  <2>8. Says(<<"LocationType", w, 0>>, at, Word(r, "LocationType", w))
    BY <1>2, <2>6
  <2> QED
    BY <1>1, <2>4, <2>5, <2>7, <2>8
<1>6. ASSUME NEW d \in DOMAIN f.destinations
      PROVE  Says(<<"Availability", d, 0>>, f.at, f.destinations[d])
  <2>1. d \in 1 .. Number(r, "DestinationCount", 0)
    BY <1>1
  <2>2. Word(r, "Availability", d) # ""
    BY <2>1, CheckedResponses DEF DestinationReadable, Availabilities
  <2>3. Says(<<"Availability", d, 0>>, at, Word(r, "Availability", d))
    BY <1>2, <2>2
  <2> QED
    BY <1>1, <2>1, <2>3
<1> QED
  BY <1>4, <1>5, <1>6 DEF FrameFollowsTheFile, f

(* No two workpieces of a frame share a slot, none lies outside the rack.  *)
LEMMA FrameIsConsistent ==
  ASSUME NEW r, NEW at, NEW before, Verdict(r) = "building",
         Number(r, "WorkpieceCount", 0) \in Int
  PROVE  RackIsConsistent(Frame(r, at, before))
<1> DEFINE f == Frame(r, at, before)
<1> DEFINE place == [w \in OnRack(r) |-> Location(r, w)]
<1>1. /\ f.occupied = OnRack(r) /\ f.layout = Layout(r)
      /\ f.location = [w \in ToSet(Ids(r)) |-> Location(r, w)]
  BY DEF Frame
<1>2. SlotsValid(r)
  BY CheckedResponses
<1>3. \A w \in OnRack(r) : w \in ToSet(Ids(r)) /\ f.location[w] = Location(r, w)
  BY <1>1 DEF OnRack
<1> HIDE DEF f
<1>4. IsFiniteSet(OnRack(r))
  <2>1. IsFiniteSet(1 .. Number(r, "WorkpieceCount", 0))
    BY FS_Interval
  <2>2. ToSet(Ids(r)) = {Number(r, "WorkpieceId", i) : i \in 1 .. Number(r, "WorkpieceCount", 0)}
    BY DEF ToSet, Ids
  <2>3. IsFiniteSet(ToSet(Ids(r)))
    <3> DEFINE id == [i \in 1 .. Number(r, "WorkpieceCount", 0) |-> Number(r, "WorkpieceId", i)]
    <3>1. id \in Surjection(1 .. Number(r, "WorkpieceCount", 0), ToSet(Ids(r)))
      BY <2>2 DEF Surjection
    <3> QED
      BY <2>1, <3>1, FS_Surjection
  <2> QED
    BY <2>3, FS_Subset DEF OnRack
<1>5. {f.location[w] : w \in f.occupied} = {place[w] : w \in OnRack(r)}
  BY <1>1, <1>3
<1>6. place \in Bijection(OnRack(r), {place[w] : w \in OnRack(r)})
  BY <1>2 DEF SlotsValid, Bijection, Injection, Surjection, IsInjective
<1>7. Cardinality({place[w] : w \in OnRack(r)}) = Cardinality(OnRack(r))
  BY <1>4, <1>6, FS_Bijection DEF ExistsBijection
<1>8. \A w \in f.occupied : HasSlot(f.layout, f.location[w])
  BY <1>1, <1>2, <1>3 DEF SlotsValid
<1> QED
  BY <1>1, <1>5, <1>7, <1>8 DEF f, RackIsConsistent

-----------------------------------------------------------------------------
(* Rows, responses and frames.                                             *)

LEMMA RowTypes ==
  ASSUME TypeOK
  PROVE  /\ IsFiniteSet(Given)
         /\ \A i \in Given : lines[i].at \in Nat
         /\ \A i \in Given : lines[i].addr[1] \in Counts =>
                              lines[i].value \in Nat \cup {Unreadable}
<1>1. IsFiniteSet(1 .. Len(lines))
  <2>1. Len(lines) \in Nat
    BY DEF TypeOK, IsFile
  <2> QED
    BY <2>1, FS_Interval
<1>2. Given \subseteq 1 .. Len(lines)
  BY DEF Given, TypeOK, IsFile
<1> QED
  BY <1>1, <1>2, FS_Subset DEF Given, TypeOK, IsFile

LEMMA TimesAreFinite == ASSUME TypeOK PROVE IsFiniteSet(Times)
<1> DEFINE time == [i \in Taken |-> lines[i].at]
<1>1. IsFiniteSet(Taken)
  BY RowTypes, FS_Subset DEF Taken
<1>2. time \in Surjection(Taken, Times)
  BY DEF Times, Surjection
<1> QED
  BY <1>1, <1>2, FS_Surjection

(* Once the given rows are taken up, the last of them at time at, r holds  *)
(* their latest values, and they are all that the file says at that time.  *)
RowsAreTaken(at, r, taken) ==
    /\ \A i \in taken : lines[i].at <= at
    /\ \A i \in rows \ RowsAt(at) : at < lines[i].at
    /\ taken = Given \ (rows \ RowsAt(at))
    /\ \A a \in DOMAIN r : \E i \in taken :
         /\ lines[i].addr = a /\ lines[i].value = r[a]
         /\ \A j \in taken : lines[j].addr = lines[i].addr => lines[j].at <= lines[i].at
    /\ \A a \in DOMAIN r : Says(a, at, r[a])

(* Taking up the rows of the earliest time left: the responses then hold   *)
(* what the rows say at that time, and are the latest values again.        *)
LEMMA TakeRows ==
  ASSUME IInv, phase = "building",
         NEW at \in {lines[i].at : i \in rows}, \A i \in rows : at <= lines[i].at,
         NEW r, r = With(responses, RowsAt(at)),
         NEW taken, taken = Taken \cup RowsAt(at)
  PROVE  RowsAreTaken(at, r, taken)
<1>0. /\ TypeOK
      /\ RowsFit
  BY DEF IInv
<1>a. \A i \in Given : lines[i].at \in Nat
  BY <1>0, RowTypes
<1>b. rows \subseteq Given
  BY <1>0 DEF TypeOK
<1>1. rows \subseteq Given /\ at \in Nat
  BY <1>a, <1>b
<1>2. \A i \in RowsAt(at) : i \in Given /\ i \in rows /\ lines[i].at = at
  BY <1>1 DEF RowsAt
<1>3. \A i \in Taken : i \in Given /\ lines[i].at < at
  BY <1>0, <1>1 DEF RowsFit, Taken
<1>4. \A i \in rows \ RowsAt(at) : at < lines[i].at
  BY <1>a, <1>1 DEF RowsAt
<1>5. \A i \in taken : i \in Given /\ lines[i].at <= at
  BY <1>a, <1>1, <1>2, <1>3
<1>6. taken = Given \ (rows \ RowsAt(at))
  BY <1>1, <1>2 DEF Taken
<1>7. ASSUME NEW a \in DOMAIN r
      PROVE  \E i \in taken :
              /\ lines[i].addr = a /\ lines[i].value = r[a]
              /\ \A j \in taken : lines[j].addr = lines[i].addr => lines[j].at <= lines[i].at
  <2>1. CASE \E i \in RowsAt(at) : lines[i].addr = a
    <3> DEFINE i == CHOOSE i \in RowsAt(at) : lines[i].addr = a
    <3>1. i \in RowsAt(at) /\ lines[i].addr = a
      BY <2>1
    <3>2. r[a] = lines[i].value
      BY <1>7, <2>1 DEF With
    <3> HIDE DEF i
    <3> QED
      BY <1>2, <1>5, <3>1, <3>2
  <2>2. CASE ~\E i \in RowsAt(at) : lines[i].addr = a
    <3>1. a \in DOMAIN responses /\ r[a] = responses[a]
      BY <1>7, <2>2 DEF With
    <3>2. PICK i \in Taken : lines[i].addr = a /\ lines[i].value = responses[a] /\ Latest(i)
      BY <1>0, <3>1 DEF RowsFit
    <3> QED
      BY <2>2, <3>1, <3>2 DEF Latest
  <2> QED
    BY <2>1, <2>2
<1>8. ASSUME NEW a \in DOMAIN r PROVE Says(a, at, r[a])
  <2>1. PICK i \in taken :
              /\ lines[i].addr = a /\ lines[i].value = r[a]
              /\ \A j \in taken : lines[j].addr = lines[i].addr => lines[j].at <= lines[i].at
    BY <1>7
  <2>2. ASSUME NEW j \in Given, lines[j].addr = a, lines[j].at <= at, j # i
        PROVE  lines[j].at < lines[i].at
    <3>1. j \in taken
      BY <1>4, <1>6, <2>2, <1>a, <1>1
    <3>2. lines[j].at <= lines[i].at
      BY <2>1, <2>2, <3>1
    <3>3. lines[j].at # lines[i].at
      BY <1>0, <1>5, <2>1, <2>2 DEF RowsFit
    <3> QED
      BY <1>a, <1>5, <2>2, <3>2, <3>3
  <2> QED
    BY <1>5, <2>1, <2>2 DEF Says, Governing
<1> QED
  BY <1>4, <1>5, <1>6, <1>7, <1>8 DEF RowsAreTaken

(* The number of workpieces is a number, and what else the responses hold. *)
LEMMA CountsAreNumbers ==
  ASSUME TypeOK, NEW r, NEW k,
         \A a \in DOMAIN r : \E i \in Given : lines[i].addr = a /\ lines[i].value = r[a]
  PROVE  \A id \in Counts : Number(r, id, k) \in Int
<1> SUFFICES ASSUME NEW id \in Counts PROVE Number(r, id, k) \in Int
  OBVIOUS
<1>1. CASE <<id, k, 0>> \in DOMAIN r
  <2>1. PICK i \in Given : lines[i].addr = <<id, k, 0>> /\ lines[i].value = r[<<id, k, 0>>]
    BY <1>1
  <2>2. lines[i].addr[1] \in Counts
    BY <2>1
  <2>3. lines[i].value \in Nat \cup {Unreadable}
    BY <2>2, RowTypes
  <2> QED
    BY <1>1, <2>1, <2>3 DEF Number, Unreadable
<1>2. CASE <<id, k, 0>> \notin DOMAIN r
  BY <1>2 DEF Number, Unreadable
<1> QED
  BY <1>1, <1>2

LEMMA AppendFrame ==
  ASSUME frames \in Seq({frames[n] : n \in DOMAIN frames}),
         NEW f, frames' = Append(frames, f)
  PROVE  /\ (frames \in Seq({frames[n] : n \in DOMAIN frames}))'
         /\ Len(frames) \in Nat /\ DOMAIN frames = 1 .. Len(frames)
         /\ Len(frames') = Len(frames) + 1 /\ DOMAIN frames' = 1 .. Len(frames) + 1
         /\ \A n \in DOMAIN frames : frames'[n] = frames[n]
         /\ frames'[Len(frames) + 1] = f
<1> DEFINE S == {frames[n] : n \in DOMAIN frames} \cup {f}
<1>1. frames \in Seq(S)
  <2>1. frames \in [1 .. Len(frames) -> S] /\ Len(frames) \in Nat
    OBVIOUS
  <2> QED
    BY <2>1
<1>2. f \in S
  OBVIOUS
<1>3. Len(frames) \in Nat /\ DOMAIN frames = 1 .. Len(frames)
  OBVIOUS
<1> HIDE DEF S
<1>4. /\ frames' \in Seq(S)
      /\ Len(frames') = Len(frames) + 1
      /\ \A n \in 1 .. Len(frames) : frames'[n] = frames[n]
      /\ frames'[Len(frames) + 1] = f
  BY <1>1, <1>2
<1>5. DOMAIN frames' = 1 .. Len(frames) + 1
  BY <1>1, <1>3, <1>4
<1>6. frames' \in Seq({frames'[n] : n \in DOMAIN frames'})
  BY <1>3, <1>4, <1>5
<1> QED
  BY <1>3, <1>4, <1>5, <1>6

(* The good frames up to one that was there before.                        *)
LEMMA GoodStays ==
  ASSUME Len(frames) \in Nat, DOMAIN frames = 1 .. Len(frames),
         \A n \in DOMAIN frames : frames'[n] = frames[n]
  PROVE  \A n \in 0 .. Len(frames) : Good(n)' = Good(n)
BY DEF Good

(* What the frames say of the file depends on nothing else.                *)
LEMMA SaysStays ==
  ASSUME lines' = lines, NEW f, NEW g, g = f, FrameFollowsTheFile(f)
  PROVE  FrameFollowsTheFile(g)'
<1>1. \A addr, at, value : Says(addr, at, value) => Says(addr, at, value)'
  <2> SUFFICES ASSUME NEW addr, NEW at, NEW value, Says(addr, at, value)
               PROVE  Says(addr, at, value)'
    OBVIOUS
  <2>1. Governing(addr, at)' = Governing(addr, at)
    BY DEF Governing, Given
  <2> QED
    BY <2>1 DEF Says
<1> QED
  BY <1>1 DEF FrameFollowsTheFile

(* A step that leaves file, rows, frames and phase as they are.            *)
LEMMA LoadedStays ==
  ASSUME IInv, UNCHANGED <<loading, phase>>,
         elapsed' \in Nat, version' \in Nat, writes' \in Nat
  PROVE  IInv'
<1>1. UNCHANGED <<lines, next, headerRead, rows, model, responses, frames, lastRead, phase>>
  BY DEF loading
<1>2. TypeOK'
  BY <1>1 DEF IInv, TypeOK, Given, IsFile
<1>3. ReadingFits' /\ PlayingFits'
  BY <1>1 DEF IInv, ReadingFits, PlayingFits, Given
<1>4. Given' = Given /\ Taken' = Taken /\ Times' = Times
  BY <1>1 DEF Given, Taken, Times
<1>5. RowsFit'
  BY <1>1, <1>4 DEF IInv, RowsFit, Latest
<1>6. FramesFit'
  <2>1. \A n \in DOMAIN frames : FrameFollowsTheFile(frames[n]) => FrameFollowsTheFile(frames[n])'
    BY <1>1, SaysStays
  <2> QED
    BY <1>1, <1>4, <2>1 DEF IInv, FramesFit
<1>7. (\A n \in DOMAIN frames : frames[n].version = n)' /\ FramesAreConsistent'
  <2>1. frames' = frames
    BY <1>1
  <2>2. (\A n \in DOMAIN frames : frames[n].version = n) /\ FramesAreConsistent
    BY DEF IInv
  <2>3. FramesAreConsistent'
    <3>1. \A n \in DOMAIN frames' : RackIsConsistent(frames'[n])
      BY <2>1, <2>2 DEF FramesAreConsistent
    <3> QED
      BY <3>1 DEF FramesAreConsistent, RackIsConsistent, HasSlot
  <2> QED
    BY <2>1, <2>2, <2>3
<1>8. LastReadIsTheLastGood' /\ LastReadFits'
  BY <1>1 DEF IInv, LastReadIsTheLastGood, LastReadFits, Good
<1> QED
  BY <1>2, <1>3, <1>5, <1>6, <1>7, <1>8 DEF IInv

-----------------------------------------------------------------------------
(* The invariant.                                                          *)

LEMMA InitIInv == Init => IInv
<1> SUFFICES ASSUME Init PROVE IInv
  OBVIOUS
<1>0. /\ next = 1 /\ headerRead = FALSE /\ rows = {} /\ phase = "reading"
      /\ responses = << >> /\ frames = << >> /\ lastRead = 0
      /\ elapsed = 0 /\ version = 0 /\ writes = 0
  BY DEF Init
<1>1. Len(frames) = 0 /\ DOMAIN frames = {}
  BY <1>0
<1>2. IsFile(lines)
  BY LoaderAssumption DEF Init
<1>3. TypeOK
  <2>1. frames \in Seq({frames[n] : n \in DOMAIN frames})
    BY <1>0
  <2>2. rows \subseteq Given /\ headerRead \in BOOLEAN /\ phase \in Phases
    BY <1>0 DEF Phases
  <2>3. next \in Nat \ {0} /\ elapsed \in Nat /\ version \in Nat /\ writes \in Nat
    BY <1>0
  <2> QED
    BY <1>2, <2>1, <2>2, <2>3 DEF TypeOK
<1>4. ReadingFits
  <2>1. Given \subseteq 1 .. Len(lines)
    BY <1>2 DEF Given, IsFile
  <2>2. \A i \in Given : ~(i < 1)
    BY <2>1
  <2> QED
    BY <1>0, <2>2 DEF ReadingFits
<1>5. RowsFit /\ FramesFit /\ PlayingFits
  BY DEF Init, RowsFit, FramesFit, PlayingFits
<1>6. LastReadIsTheLastGood /\ LastReadFits /\ FramesAreConsistent
  BY <1>0, <1>1 DEF FramesAreConsistent, LastReadIsTheLastGood, LastReadFits, Good
<1> QED
  BY <1>1, <1>3, <1>4, <1>5, <1>6 DEF IInv

LEMMA ReadLineIInv == IInv /\ ReadLine => IInv'
<1> SUFFICES ASSUME IInv, ReadLine PROVE IInv'
  OBVIOUS
<1>1. /\ phase = "reading" /\ phase' \in {"reading", "refused"}
      /\ next \in DOMAIN lines /\ next' = next + 1
      /\ UNCHANGED <<lines, model, responses, frames, lastRead>>
      /\ UNCHANGED <<elapsed, active, version, writes>>
      /\ headerRead' \in {headerRead, TRUE}
  BY DEF ReadLine, playing
<1>2. Given' = Given /\ Good(Len(frames))' = Good(Len(frames))
  BY <1>1 DEF Given, Good
<1>3. /\ rows' \in {rows, rows \cup {next}}
      /\ rows' = rows \cup {next} => next \in Given
      /\ phase' = "reading" => (next \in Given => rows' = rows \cup {next})
  BY <1>1 DEF ReadLine, Given, TypeOK, IInv
<1>4. TypeOK'
  <2>1. TypeOK
    BY DEF IInv
  <2>a. next' \in Nat \ {0}
    BY <1>1, <2>1 DEF TypeOK
  <2>b. headerRead' \in BOOLEAN
    BY <1>1, <2>1 DEF TypeOK
  <2>c. phase' \in Phases
    BY <1>1 DEF Phases
  <2>2. next' \in Nat \ {0} /\ headerRead' \in BOOLEAN /\ phase' \in Phases
    BY <2>a, <2>b, <2>c
  <2>3. rows' \subseteq Given
    BY <1>3, <2>1 DEF TypeOK
  <2>4. IsFile(lines)' /\ (frames \in Seq({frames[n] : n \in DOMAIN frames}))'
    BY <1>1, <2>1 DEF TypeOK, IsFile
  <2> QED
    BY <1>1, <1>2, <2>1, <2>2, <2>3, <2>4 DEF TypeOK
<1>5. ReadingFits'
  <2> SUFFICES ASSUME phase' = "reading" PROVE rows' = {i \in Given : i < next'}
    BY <1>1, <1>2 DEF ReadingFits, IInv
  <2>1. rows = {i \in Given : i < next}
    BY <1>1 DEF ReadingFits, IInv
  <2>2. \A i \in Given : i \in Nat
    BY DEF Given, IInv, TypeOK, IsFile
  <2>3. next \in Nat
    BY DEF IInv, TypeOK
  <2>4. \A i \in Given : i < next' <=> (i < next \/ i = next)
    BY <1>1, <2>2, <2>3
  <2> QED
    BY <1>3, <2>1, <2>2, <2>3, <2>4
<1>6. RowsFit' /\ FramesFit' /\ PlayingFits'
  BY <1>1 DEF RowsFit, FramesFit, PlayingFits
<1>7. DOMAIN frames' = {}
  BY <1>1 DEF IInv, ReadingFits
<1>8. LastReadFits'
  BY <1>1, <1>2 DEF IInv, LastReadFits
<1> QED
  BY <1>4, <1>5, <1>6, <1>7, <1>8 DEF IInv, FramesAreConsistent, LastReadIsTheLastGood

LEMMA EndOfFileIInv == IInv /\ EndOfFile => IInv'
<1> SUFFICES ASSUME IInv, EndOfFile PROVE IInv'
  OBVIOUS
<1>1. /\ phase = "reading" /\ phase' \in {"building", "refused"}
      /\ next \notin DOMAIN lines
      /\ UNCHANGED <<lines, next, headerRead, rows, responses, frames, lastRead>>
      /\ UNCHANGED <<elapsed, active, version, writes>>
  BY DEF EndOfFile, playing
<1>2. /\ Given' = Given /\ Good(Len(frames))' = Good(Len(frames))
      /\ Taken' = Taken /\ Times' = Times
  BY <1>1 DEF Given, Good, Taken, Times
<1>3. /\ TypeOK /\ rows = {i \in Given : i < next}
      /\ frames = << >> /\ responses = << >>
  BY <1>1 DEF IInv, ReadingFits
<1>4. TypeOK'
  BY <1>1, <1>2 DEF TypeOK, IInv, Phases, IsFile
<1>5. rows = Given
  <2>1. \A i \in Given : i \in 1 .. Len(lines)
    BY <1>3 DEF Given, TypeOK, IsFile
  <2>2. next \in Nat \ {0} /\ next \notin 1 .. Len(lines) /\ Len(lines) \in Nat
    BY <1>1, <1>3 DEF TypeOK, IsFile
  <2>3. \A i \in Given : i < next
    BY <2>1, <2>2
  <2> QED
    BY <1>3, <2>3
<1>6. Taken = {} /\ Times = {}
  BY <1>5 DEF Taken, Times
<1>7. RowsFit'
  <2> SUFFICES ASSUME phase' = "building" PROVE RowsFit'
    BY <1>1 DEF RowsFit
  <2>1. NoDuplicate /\ \E i \in rows : lines[i].at = 0
    BY DEF EndOfFile
  <2>2. DOMAIN responses' = {}
    BY <1>1, <1>3
  <2> QED
    BY <1>1, <1>2, <1>5, <1>6, <2>1, <2>2 DEF RowsFit, NoDuplicate
<1>8. FramesFit'
  <2>1. Len(frames') = 0 /\ DOMAIN frames' = {} /\ frames' = << >>
    BY <1>1, <1>3
  <2>2. Cardinality(Times') = 0
    BY <1>2, <1>6, FS_EmptySet
  <2> QED
    BY <2>1, <2>2 DEF FramesFit
<1>9. ReadingFits' /\ PlayingFits'
  BY <1>1 DEF ReadingFits, PlayingFits
<1>10. DOMAIN frames' = {}
  BY <1>1, <1>3
<1>11. LastReadFits'
  BY <1>1, <1>2 DEF IInv, LastReadFits
<1> QED
  BY <1>4, <1>7, <1>8, <1>9, <1>10, <1>11 DEF IInv, FramesAreConsistent, LastReadIsTheLastGood

(* When no row is left, there are frames: one for the row at time zero.    *)
LEMMA FramesWereBuilt ==
  ASSUME IInv, phase = "building", rows = {}
  PROVE  frames # << >> /\ 1 \in DOMAIN frames /\ Len(frames) \in Nat \ {0}
<1>1. TypeOK /\ RowsFit /\ FramesFit
  BY DEF IInv
<1>2. Times # {}
  <2>1. PICK i \in Given : lines[i].at = 0
    BY <1>1 DEF RowsFit
  <2>2. i \in Taken
    BY <2>1 DEF Taken
  <2> QED
    BY <2>2 DEF Times
<1>3. Cardinality(Times) # 0 /\ Cardinality(Times) \in Nat
  BY <1>1, <1>2, TimesAreFinite, FS_EmptySet, FS_CardinalityType
<1>4. Len(frames) = Cardinality(Times)
  BY <1>1 DEF FramesFit
<1>5. Len(frames) \in Nat /\ DOMAIN frames = 1 .. Len(frames)
  BY <1>1 DEF TypeOK
<1> QED
  BY <1>3, <1>4, <1>5

LEMMA CreateScenarioIInv == IInv /\ CreateScenario => IInv'
<1> SUFFICES ASSUME IInv, CreateScenario PROVE IInv'
  OBVIOUS
<1>1. /\ phase = "building" /\ phase' = "playing" /\ rows = {}
      /\ UNCHANGED <<lines, next, headerRead, rows, responses, frames, lastRead>>
      /\ UNCHANGED <<elapsed, active, writes>> /\ version' = frames[1].version
  BY DEF CreateScenario, loading
<1>2. /\ Given' = Given /\ Good(Len(frames))' = Good(Len(frames))
      /\ Taken' = Taken /\ Times' = Times
  BY <1>1 DEF Given, Good, Taken, Times
<1>3. frames # << >> /\ version' \in Nat
  <2>1. frames # << >> /\ 1 \in DOMAIN frames
    BY <1>1, FramesWereBuilt
  <2>2. frames[1].version = 1
    BY <2>1 DEF IInv
  <2> QED
    BY <1>1, <2>1, <2>2
<1>4. TypeOK'
  BY <1>1, <1>2, <1>3 DEF TypeOK, IInv, Phases, IsFile
<1>5. RowsFit'
  BY <1>1, <1>2 DEF RowsFit, IInv, Latest
<1>6. FramesFit'
  <2>1. \A n \in DOMAIN frames : FrameFollowsTheFile(frames[n]) => FrameFollowsTheFile(frames[n])'
    BY <1>1, SaysStays
  <2> QED
    BY <1>1, <1>2, <2>1 DEF IInv, FramesFit
<1>7. (\A n \in DOMAIN frames : frames[n].version = n)' /\ FramesAreConsistent'
  <2>1. \A n \in DOMAIN frames' : RackIsConsistent(frames'[n]) /\ frames'[n].version = n
    BY <1>1 DEF IInv, FramesAreConsistent
  <2> QED
    BY <2>1 DEF FramesAreConsistent, RackIsConsistent, HasSlot
<1>8. LastReadIsTheLastGood' /\ LastReadFits'
  BY <1>1 DEF IInv, LastReadIsTheLastGood, LastReadFits, Good
<1>9. ReadingFits' /\ PlayingFits'
  BY <1>1, <1>3 DEF ReadingFits, PlayingFits
<1> QED
  BY <1>4, <1>5, <1>6, <1>7, <1>8, <1>9 DEF IInv

(* With the frame just built, the good frames are one more or the same.    *)
LEMMA GoodGrows ==
  ASSUME frames \in Seq({frames[n] : n \in DOMAIN frames}),
         NEW r, NEW at, NEW before, frames' = Append(frames, Frame(r, at, before)),
         NEW N, N = Len(frames) + 1
  PROVE  Good(N)' = Good(Len(frames)) \cup (IF Reached(r) THEN {N} ELSE {})
<1> DEFINE g == Frame(r, at, before)
<1>1. /\ Len(frames) \in Nat /\ DOMAIN frames = 1 .. Len(frames)
      /\ \A n \in DOMAIN frames : frames'[n] = frames[n]
      /\ frames'[N] = g
  BY AppendFrame
<1>2. g.connection \in {"connected", "degraded"} <=> Reached(r)
  BY DEF Frame, Reached
<1> HIDE DEF g
<1>3. \A m \in 1 .. N : m \in 1 .. Len(frames) \/ m = N
  BY <1>1
<1>4. N \in Good(N)' <=> Reached(r)
  BY <1>1, <1>2 DEF Good
<1>5. \A m \in 1 .. Len(frames) : m \in Good(N)' <=> m \in Good(Len(frames))
  BY <1>1 DEF Good
<1>6. /\ Good(Len(frames)) \subseteq 1 .. Len(frames)
      /\ Good(N)' \subseteq 1 .. N
  BY <1>1 DEF Good
<1> QED
  BY <1>1, <1>3, <1>4, <1>5, <1>6

LEMMA LastReadGrows ==
  ASSUME IInv, phase = "building",
         NEW r, NEW at, frames' = Append(frames, Frame(r, at, lastRead)),
         lastRead' = ReadTime(r, at, lastRead)
  PROVE  LastReadIsTheLastGood' /\ LastReadFits'
<1> DEFINE g == Frame(r, at, lastRead)
<1> PICK N : N = Len(frames) + 1
  OBVIOUS
<1>0. frames \in Seq({frames[n] : n \in DOMAIN frames})
  BY DEF IInv, TypeOK
<1>1. /\ Len(frames) \in Nat /\ DOMAIN frames = 1 .. Len(frames)
      /\ Len(frames') = N /\ DOMAIN frames' = 1 .. N
      /\ \A n \in DOMAIN frames : frames'[n] = frames[n]
      /\ frames'[N] = g
  BY <1>0, AppendFrame
<1>2. /\ g.freshness = Freshness(r) /\ g.capturedAt = Ticks(at)
      /\ g.lastRead = ReadTime(r, at, lastRead)
  BY DEF Frame
<1>3. g.freshness = "Fresh" <=> Reached(r)
  BY <1>2 DEF Freshness
<1>4. Good(N)' = Good(Len(frames)) \cup (IF Reached(r) THEN {N} ELSE {})
  BY <1>0, GoodGrows
<1>5. Good(Len(frames)) \subseteq 1 .. Len(frames)
  BY DEF Good
<1>6. \A n \in 0 .. Len(frames) : Good(n)' = Good(n)
  BY <1>1, GoodStays
<1> HIDE DEF g
<1>7. /\ Good(N)' = {} => lastRead' = 0
      /\ \A m \in Good(N)' : (\A k \in Good(N)' : k <= m) => lastRead' = frames'[m].capturedAt
  <2>1. CASE Reached(r)
    <3>1. lastRead' = g.capturedAt
      BY <1>2, <2>1 DEF ReadTime
    <3>2. N \in Good(N)'
      BY <1>4, <2>1
    <3>3. \A m \in Good(N)' : N <= m => m = N
      BY <1>1, <1>4, <1>5, <2>1
    <3> QED
      BY <1>1, <3>1, <3>2, <3>3
  <2>2. CASE ~Reached(r)
    <3>1. lastRead' = lastRead /\ Good(N)' = Good(Len(frames))
      BY <1>4, <2>2 DEF ReadTime
    <3>2. \A m \in Good(Len(frames)) : frames'[m] = frames[m]
      BY <1>1, <1>5
    <3>3. LastReadFits
      BY DEF IInv
    <3>4. /\ Good(Len(frames)) = {} => lastRead = 0
          /\ \A m \in Good(Len(frames)) :
               (\A k \in Good(Len(frames)) : k <= m) => lastRead = frames[m].capturedAt
      BY <3>3 DEF LastReadFits
    <3> QED
      BY <3>1, <3>2, <3>4
  <2> QED
    BY <2>1, <2>2
<1>8. LastReadFits'
  BY <1>1, <1>7 DEF LastReadFits
<1>9. ASSUME NEW n \in DOMAIN frames'
      PROVE  /\ (frames'[n].freshness = "Fresh") <=> (n \in Good(n)')
             /\ Good(n)' = {} => frames'[n].lastRead = 0
             /\ \A m \in Good(n)' :
                  (\A k \in Good(n)' : k <= m) => frames'[n].lastRead = frames'[m].capturedAt
  <2>1. CASE n = N
    <3>1. frames'[n].freshness = "Fresh" <=> Reached(r)
      BY <1>1, <1>3, <2>1
    <3>2. N \in Good(N)' <=> Reached(r)
      BY <1>1, <1>4, <1>5
    <3>3. frames'[n].lastRead = lastRead'
      BY <1>1, <1>2, <2>1
    <3> QED
      BY <1>7, <2>1, <3>1, <3>2, <3>3
  <2>2. CASE n \in 1 .. Len(frames)
    <3>1. Good(n)' = Good(n) /\ frames'[n] = frames[n] /\ n \in DOMAIN frames
      BY <1>1, <1>6, <2>2
    <3>2. Good(n) \subseteq DOMAIN frames
      BY <1>1, <2>2 DEF Good
    <3>3. \A m \in Good(n) : frames'[m] = frames[m]
      BY <1>1, <3>2
    <3>4. LastReadIsTheLastGood
      BY DEF IInv
    <3> QED
      BY <3>1, <3>3, <3>4 DEF LastReadIsTheLastGood
  <2>3. n = N \/ n \in 1 .. Len(frames)
    BY <1>1
  <2> QED
    BY <2>1, <2>2, <2>3
<1>10. LastReadIsTheLastGood'
  BY <1>9 DEF LastReadIsTheLastGood
<1> QED
  BY <1>8, <1>10

LEMMA BuildFrameIInv == IInv /\ BuildFrame => IInv'
<1> SUFFICES ASSUME IInv, BuildFrame PROVE IInv'
  OBVIOUS
<1>1. /\ phase = "building"
      /\ UNCHANGED <<lines, next, headerRead>>
      /\ UNCHANGED <<elapsed, active, version, writes>>
  BY DEF BuildFrame, playing
<1>2. PICK at \in {lines[i].at : i \in rows} :
        /\ \A i \in rows : at <= lines[i].at
        /\ rows' = rows \ RowsAt(at)
        /\ responses' = With(responses, RowsAt(at))
        /\ phase' = Verdict(With(responses, RowsAt(at)))
        /\ IF Verdict(With(responses, RowsAt(at))) = "building"
           THEN /\ frames' = Append(frames, Frame(With(responses, RowsAt(at)), at, lastRead))
                /\ lastRead' = ReadTime(With(responses, RowsAt(at)), at, lastRead)
           ELSE frames' = << >> /\ UNCHANGED lastRead
  BY DEF BuildFrame
<1>3. PICK r : r = With(responses, RowsAt(at))
  OBVIOUS
<1>4. PICK taken : taken = Taken \cup RowsAt(at)
  OBVIOUS
<1>5. /\ \A i \in taken : lines[i].at <= at
      /\ \A i \in rows \ RowsAt(at) : at < lines[i].at
      /\ taken = Given \ (rows \ RowsAt(at))
      /\ \A a \in DOMAIN r : \E i \in taken :
           /\ lines[i].addr = a /\ lines[i].value = r[a]
           /\ \A j \in taken : lines[j].addr = lines[i].addr => lines[j].at <= lines[i].at
      /\ \A a \in DOMAIN r : Says(a, at, r[a])
  <2>1. /\ phase = "building"
        /\ \A i \in rows : at <= lines[i].at
    BY <1>1, <1>2
  <2>2. RowsAreTaken(at, r, taken)
    BY <2>1, <1>3, <1>4, TakeRows
  <2> QED
    BY <2>2 DEF RowsAreTaken
<1>6. Given' = Given /\ Taken' = taken
  BY <1>1, <1>2, <1>5 DEF Given, Taken
<1>7. TypeOK /\ RowsFit /\ FramesFit
  BY DEF IInv
<1>8. \A i \in Given : lines[i].at \in Nat
  BY <1>7, RowTypes
<1>9. ReadingFits' /\ PlayingFits'
  BY <1>1, <1>2, VerdictOfChecks DEF ReadingFits, PlayingFits
<1>10. ASSUME frames' \in Seq({frames'[n] : n \in DOMAIN frames'}) PROVE TypeOK'
  <2>1. rows' \subseteq Given
    BY <1>2, <1>7 DEF TypeOK
  <2>2. phase' \in Phases
    BY <1>2, VerdictOfChecks DEF Phases
  <2>3. IsFile(lines)' /\ next' \in Nat \ {0} /\ headerRead' \in BOOLEAN
    BY <1>1, <1>7 DEF TypeOK, IsFile
  <2>4. elapsed' \in Nat /\ version' \in Nat /\ writes' \in Nat
    BY <1>1, <1>7 DEF TypeOK
  <2> QED
    BY <1>6, <1>10, <2>1, <2>2, <2>3, <2>4 DEF TypeOK
<1>11. CASE Verdict(r) # "building"
  <2>1. frames' = << >> /\ phase' \in {"refused", "threw"}
    BY <1>2, <1>3, <1>11, VerdictOfChecks
  <2>2. TypeOK'
    BY <1>10, <2>1
  <2>3. DOMAIN frames' = {}
    BY <2>1
  <2> QED
    BY <1>9, <2>1, <2>2, <2>3
       DEF IInv, RowsFit, FramesFit, FramesAreConsistent, LastReadFits,
           LastReadIsTheLastGood
<1>12. CASE Verdict(r) = "building"
  <2> PICK N : N = Len(frames) + 1
    OBVIOUS
  <2>1. /\ frames' = Append(frames, Frame(r, at, lastRead))
        /\ lastRead' = ReadTime(r, at, lastRead)
        /\ phase' = "building" /\ responses' = r
    BY <1>2, <1>3, <1>12
  <2>2. /\ frames' \in Seq({frames'[n] : n \in DOMAIN frames'})
        /\ Len(frames) \in Nat /\ DOMAIN frames = 1 .. Len(frames)
        /\ Len(frames') = N /\ DOMAIN frames' = 1 .. N
        /\ \A n \in DOMAIN frames : frames'[n] = frames[n]
        /\ frames'[N] = Frame(r, at, lastRead)
    BY <1>7, <2>1, AppendFrame DEF TypeOK
  <2>3. TypeOK'
    BY <1>10, <2>2
  <2>4. RowsFit'
    <3>1. \A i \in taken, j \in rows' : lines[i].at < lines[j].at
      BY <1>2, <1>5, <1>6, <1>7, <1>8 DEF TypeOK
    <3>2. \A i : Latest(i)' <=> \A j \in taken : lines[j].addr = lines[i].addr => lines[j].at <= lines[i].at
      BY <1>1, <1>6 DEF Latest
    <3> QED
      BY <1>1, <1>5, <1>6, <1>7, <2>1, <3>1, <3>2 DEF RowsFit
  <2>5. FramesFit'
    <3>1. FrameFollowsTheFile(frames'[N])
      BY <1>5, <1>12, <2>2, FrameShowsResponses
    <3>2. frames'[N].at = at
      BY <2>2 DEF Frame
    <3>3. Times' = Times \cup {at}
      BY <1>1, <1>2, <1>4, <1>6 DEF Times, RowsAt
    <3>4. \A t \in Times : t < at
      BY <1>1, <1>2, <1>7 DEF RowsFit, Times
    <3>5. at \in Nat /\ \A t \in Times : t \in Nat
      BY <1>2, <1>7, <1>8 DEF TypeOK, Times, Taken
    <3>6. Cardinality(Times') = Cardinality(Times) + 1
      <4>1. at \notin Times
        BY <3>4, <3>5
      <4> QED
        BY <1>7, <3>3, <4>1, TimesAreFinite, FS_AddElement
    <3>7. Len(frames') = Cardinality(Times')
      BY <1>1, <1>7, <2>2, <3>6 DEF FramesFit
    <3>8. \A n \in DOMAIN frames' : frames'[n].at \in Times'
      BY <1>1, <1>7, <2>2, <3>2, <3>3 DEF FramesFit
    <3>9. \A m, n \in DOMAIN frames' : m < n => frames'[m].at < frames'[n].at
      BY <1>1, <1>7, <2>2, <3>2, <3>4 DEF FramesFit
    <3>10. frames'[1].at = 0
      <4>1. CASE frames = << >>
        <5>1. Times = {}
          BY <1>1, <1>7, <4>1, TimesAreFinite, FS_EmptySet DEF FramesFit
        <5>2. PICK i \in Given : lines[i].at = 0
          BY <1>1, <1>7 DEF RowsFit
        <5>3. i \in rows
          BY <5>1, <5>2 DEF Times, Taken
        <5>4. at = 0
          BY <1>2, <3>5, <5>2, <5>3
        <5> QED
          BY <2>2, <3>2, <4>1, <5>4
      <4>2. CASE frames # << >>
        <5>1. 1 \in DOMAIN frames
          BY <1>7, <4>2 DEF TypeOK
        <5> QED
          BY <1>1, <1>7, <2>2, <4>2, <5>1 DEF FramesFit
      <4> QED
        BY <4>1, <4>2
    <3>11. \A n \in DOMAIN frames' : FrameFollowsTheFile(frames'[n])
      BY <1>1, <1>7, <2>2, <3>1 DEF FramesFit
    <3>12. \A n \in DOMAIN frames' : FrameFollowsTheFile(frames[n])'
      BY <1>1, <3>11, SaysStays
    <3> QED
      BY <3>7, <3>8, <3>9, <3>10, <3>12 DEF FramesFit
  <2>6. (\A n \in DOMAIN frames : frames[n].version = n)' /\ FramesAreConsistent'
    <3>1. Number(r, "WorkpieceCount", 0) \in Int
      BY <1>5, <1>7, CountsAreNumbers DEF Counts
    <3>2. frames'[N].version = N
      BY <2>2 DEF Frame
    <3>3. RackIsConsistent(frames'[N])
      BY <1>12, <2>2, <3>1, FrameIsConsistent
    <3>4. \A n \in DOMAIN frames : RackIsConsistent(frames[n]) /\ frames[n].version = n
      BY DEF IInv, FramesAreConsistent
    <3>5. \A n \in DOMAIN frames' : RackIsConsistent(frames'[n]) /\ frames'[n].version = n
      BY <2>2, <3>2, <3>3, <3>4
    <3> QED
      BY <3>5 DEF FramesAreConsistent, RackIsConsistent, HasSlot
  <2>7. LastReadIsTheLastGood' /\ LastReadFits'
    BY <1>1, <2>1, LastReadGrows
  <2> QED
    BY <1>9, <2>3, <2>4, <2>5, <2>6, <2>7 DEF IInv
<1> QED
  BY <1>11, <1>12

-----------------------------------------------------------------------------
(* Playing.                                                                *)

(* The clock always finds a frame, and a new one gets a later version.     *)
LEMMA Synchronizing ==
  ASSUME IInv, phase = "playing"
  PROVE  /\ Synchronized \in DOMAIN frames
         /\ SynchronizedVersion \in Nat
         /\ SynchronizedVersion >= version
         /\ Synchronized # active => SynchronizedVersion > version
<1> DEFINE Begun == {i \in DOMAIN frames : frames[i].at <= elapsed \div TicksPerMs}
<1>1. /\ Len(frames) \in Nat /\ DOMAIN frames = 1 .. Len(frames) /\ Len(frames) # 0
  BY DEF IInv, TypeOK, PlayingFits
<1>2. Cardinality(Begun) \in 0 .. Len(frames)
  <2>1. IsFiniteSet(1 .. Len(frames)) /\ Cardinality(1 .. Len(frames)) = Len(frames)
    BY <1>1, FS_Interval
  <2>2. Begun \subseteq 1 .. Len(frames)
    BY <1>1
  <2>3. IsFiniteSet(Begun) /\ Cardinality(Begun) <= Len(frames)
    BY <2>1, <2>2, FS_Subset
  <2>4. Cardinality(Begun) \in Nat
    BY <2>3, FS_CardinalityType
  <2> QED
    BY <1>1, <2>3, <2>4
<1>3. Synchronized = IF Cardinality(Begun) = 0 THEN 1 ELSE Cardinality(Begun)
  BY DEF Synchronized, FrameIndexAt
<1> HIDE DEF Begun
<1>4. Synchronized \in DOMAIN frames
  BY <1>1, <1>2, <1>3
<1>5. frames[Synchronized].version = Synchronized /\ Synchronized \in Nat
  BY <1>1, <1>4 DEF IInv
<1>6. version \in Nat
  BY DEF IInv, TypeOK
<1> QED
  BY <1>4, <1>5, <1>6 DEF SynchronizedVersion, VersionOf

LEMMA PlayIInv == IInv /\ (Tick \/ Read \/ Write) => IInv'
<1> SUFFICES ASSUME IInv, Tick \/ Read \/ Write PROVE IInv'
  OBVIOUS
<1>1. elapsed \in Nat /\ version \in Nat /\ writes \in Nat
  BY DEF IInv, TypeOK
<1>2. UNCHANGED <<loading, phase>>
  BY DEF Tick, Read, Write
<1>3. CASE Tick
  BY <1>1, <1>2, <1>3, LoadedStays DEF Tick
<1>4. CASE Read
  BY <1>1, <1>2, <1>4, Synchronizing, LoadedStays DEF Read
<1>5. CASE Write
  BY <1>1, <1>2, <1>5, Synchronizing, LoadedStays DEF Write
<1> QED
  BY <1>3, <1>4, <1>5

LEMMA StepIInv == IInv /\ [Next]_vars => IInv'
<1> SUFFICES ASSUME IInv, [Next]_vars PROVE IInv'
  OBVIOUS
<1>1. CASE UNCHANGED vars
  <2>1. UNCHANGED <<loading, phase>> /\ UNCHANGED <<elapsed, version, writes>>
    BY <1>1 DEF vars, playing
  <2> QED
    BY <2>1, LoadedStays DEF IInv, TypeOK
<1>2. CASE Next
  BY <1>1, <1>2, ReadLineIInv, EndOfFileIInv, BuildFrameIInv, CreateScenarioIInv, PlayIInv
     DEF Next, Done
<1> QED
  BY <1>1, <1>2

(* The inductive invariant of loading and playing a scenario.              *)
THEOREM Invariance == Spec => []IInv
<1>1. Init => IInv
  BY InitIInv
<1>2. IInv /\ [Next]_vars => IInv'
  BY StepIInv
<1> QED
  BY <1>1, <1>2, PTL DEF Spec

(* The types, for any files and any sizes of the unsigned types.           *)
THEOREM TypeCorrect == Spec => []TypeOK
<1>1. IInv => TypeOK
  BY DEF IInv
<1> QED
  BY <1>1, Invariance, PTL

(* A scenario that plays has one frame for each time of its file, whose    *)
(* values are those of the latest row of each address (Parse, ReadRows).   *)
THEOREM FileCorrect == Spec => []FramesFollowTheFile
<1>1. IInv => FramesFollowTheFile
  <2> SUFFICES ASSUME IInv, phase = "playing" PROVE FramesFollowTheFile
    BY DEF FramesFollowTheFile
  <2>1. FramesFit /\ rows = {}
    BY DEF IInv, PlayingFits
  <2>2. Times = {lines[i].at : i \in Given}
    BY <2>1 DEF Times, Taken
  <2> QED
    BY <2>1, <2>2 DEF FramesFit, FramesFollowTheFile
<1> QED
  BY <1>1, Invariance, PTL

(* Whatever mixture of rows a frame is, its rack holds one workpiece per   *)
(* slot, in its own layout (BuildFrame).                                   *)
THEOREM ConsistentCorrect == Spec => []FramesAreConsistent
<1>1. IInv => FramesAreConsistent
  BY DEF IInv
<1> QED
  BY <1>1, Invariance, PTL

(* The time of the last good read is that of the latest frame that was     *)
(* good, over any run of bad ones (BuildFrame, lastSuccessfulRead).        *)
THEOREM LastReadCorrect == Spec => []LastReadIsTheLastGood
<1>1. IInv => LastReadIsTheLastGood
  BY DEF IInv
<1> QED
  BY <1>1, Invariance, PTL

(* FakeScenario::Create never refuses what Parse has built: the times of   *)
(* the frames increase from zero.                                          *)
THEOREM AcceptedCorrect == Spec => []BuiltIsAccepted
<1>1. IInv => BuiltIsAccepted
  <2> SUFFICES ASSUME IInv, phase = "building", rows = {}
               PROVE  /\ frames # << >> /\ frames[1].at = 0
                      /\ \A i \in 2 .. Len(frames) : frames[i].at > frames[i - 1].at
    BY DEF BuiltIsAccepted
  <2>1. frames # << >> /\ Len(frames) \in Nat /\ DOMAIN frames = 1 .. Len(frames)
    BY FramesWereBuilt DEF IInv, TypeOK
  <2>2. frames[1].at = 0 /\ \A m, n \in DOMAIN frames : m < n => frames[m].at < frames[n].at
    BY <2>1 DEF IInv, FramesFit
  <2>3. \A n \in DOMAIN frames : frames[n].at \in Nat
    <3>1. \A t \in Times : t \in Nat
      BY RowTypes DEF IInv, Times, Taken
    <3> QED
      BY <3>1 DEF IInv, FramesFit
  <2>4. \A i \in 2 .. Len(frames) :
          i \in DOMAIN frames /\ i - 1 \in DOMAIN frames /\ i - 1 < i
    BY <2>1
  <2> QED
    BY <2>1, <2>2, <2>3, <2>4
<1> QED
  BY <1>1, Invariance, PTL

(* Another frame, or a write, always comes with a later version, however   *)
(* many frames lie between two reads (SynchronizeFrameLocked).             *)
THEOREM VersionCorrect == Spec => ChangesHaveLaterVersions
<1>1. ASSUME IInv, [Next]_vars, phase = "playing", <<active, writes>>' # <<active, writes>>
      PROVE  version' > version
  <2>1. Read \/ Write
    BY <1>1 DEF Next, ReadLine, EndOfFile, BuildFrame, CreateScenario, Tick, Done,
                vars, playing
  <2>2. version \in Nat /\ writes \in Nat
    BY <1>1 DEF IInv, TypeOK
  <2>3. CASE Read
    BY <1>1, <2>3, Synchronizing DEF Read
  <2>4. CASE Write
    BY <1>1, <2>2, <2>4, Synchronizing DEF Write
  <2> QED
    BY <2>1, <2>3, <2>4
<1>2. IInv /\ [Next]_vars =>
        [phase = "playing" /\ <<active, writes>>' # <<active, writes>>
            => version' > version]_vars
  BY <1>1
<1> QED
  BY <1>2, Invariance, PTL DEF Spec, ChangesHaveLaterVersions
=============================================================================
