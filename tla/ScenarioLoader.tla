--------------------------- MODULE ScenarioLoader ---------------------------
(***************************************************************************)
(* The mock machine: CsvScenarioLoader turns a file of timed responses     *)
(* into a FakeScenario, and FakeMachineGateway plays it by the clock.      *)
(*                                                                         *)
(* A line of the file is blank (or a comment), the header, malformed (any  *)
(* line ParseCsvFields or the four ParseUnsigned of ReadRows refuses, one  *)
(* with another number of fields, an unregistered data id), or a row: at a *)
(* time, the value the machine answers for an address                      *)
(* <<data, sub id 1, sub id 2>>.  Responses are cumulative: a later row    *)
(* replaces the value of its address and leaves the others, so a frame is  *)
(* a mixture of rows of many times.  A text that is not an unsigned number *)
(* reads as Unreadable, and so does an address nobody gave.                *)
(*                                                                         *)
(* The unsigned types keep their order of magnitude: Max32 and MaxMs stand *)
(* for the largest uint32 and milliseconds::rep, MaxElements for           *)
(* vector::max_size, and a time of the clock wraps at 2 * MaxMs + 2.       *)
(*                                                                         *)
(* The operators called Slip... are plausible programming errors, used to  *)
(* show that the properties can fail; no action uses them.                 *)
(***************************************************************************)
EXTENDS Integers, Sequences, FiniteSets, SequencesExt

CONSTANTS
    Files,        \* the files to load: a function from names to lines
    MachineCodes, \* the machine model codes the loader knows
    Max32, MaxMs, MaxElements,
    TicksPerMs,   \* clock ticks in a millisecond
    BootTicks,    \* what the steady clock shows when the scenario starts
    MaxElapsed,   \* bound on the ticks played
    MaxWrites     \* bound on the writes the machine takes

Unreadable == -1

LineKinds == {"skip", "header", "malformed", "row"}
Counts    == {"LevelCount", "WorkpieceCount", "DestinationCount"}

IsFile(f) ==
    /\ Len(f) \in Nat /\ DOMAIN f = 1..Len(f)
    /\ \A i \in DOMAIN f :
         /\ f[i].kind \in LineKinds
         /\ f[i].kind = "row" =>
              /\ f[i].at \in Nat
              /\ f[i].addr[1] \in Counts => f[i].value \in Nat \cup {Unreadable}

ASSUME LoaderAssumption ==
    /\ \A name \in DOMAIN Files : IsFile(Files[name])
    /\ Max32 \in Nat /\ MaxMs \in Nat /\ MaxElements \in Nat
    /\ TicksPerMs \in Nat \ {0} /\ BootTicks \in Nat
    /\ MaxElapsed \in Nat /\ MaxWrites \in Nat

VARIABLES
    lines,     \* the file being loaded
    next,      \* the next line to read
    headerRead,
    rows,      \* the lines of the rows that no frame has taken up yet
    phase,     \* "reading", "building", "playing", "refused", "threw"
    model,     \* the declared machine model
    responses, \* address |-> the latest value
    frames,    \* the frames built so far
    lastRead,  \* lastSuccessfulRead
    elapsed,   \* ticks since the scenario started
    active,    \* activeFrameIndex_
    version,   \* the version of the machine's state
    writes     \* history: writes the machine took

loading == <<lines, next, headerRead, rows, model, responses, frames, lastRead>>
playing == <<elapsed, active, version, writes>>
vars    == <<loading, phase, playing>>

-----------------------------------------------------------------------------
(* Reading values.                                                         *)

Word(r, id, k)   == IF <<id, k, 0>> \in DOMAIN r THEN r[<<id, k, 0>>] ELSE ""
Number(r, id, k) ==
    IF <<id, k, 0>> \in DOMAIN r THEN r[<<id, k, 0>>] ELSE Unreadable

ConnectionStates == {"connected", "degraded", "disconnected", "unknown"}
Modes            == {"manual", "automatic", "unknown"}
Statuses         == {"waiting", "machining", "completed", "interrupted",
                     "transport", "unknown"}
Availabilities   == {"available", "occupied", "unavailable", "unknown"}

HealthReadable(r) ==
    /\ Word(r, "Connection", 0) \in ConnectionStates
    /\ Word(r, "Mode", 0) \in Modes
    /\ \A id \in {"Error", "Warning"} : Number(r, id, 0) \in {0, 1}
    /\ <<"Message", 0, 0>> \in DOMAIN r

(* RackLayout::Create, RackLayout::Contains.                               *)
Layout(r) ==
    [l \in 1..Number(r, "LevelCount", 0) |-> Number(r, "PositionCount", l)]
LayoutValid(layout) ==
    Len(layout) \in 1..5 /\ \A l \in 1..Len(layout) : layout[l] \in 3..13
HasSlot(layout, slot) ==
    slot.first \in 1..Len(layout) /\ slot.second \in 1..layout[slot.first]

(* A location or a destination k, whose words and numbers are filed under  *)
(* the three given names.                                                  *)
PlaceReadable(r, type, primary, secondary, k) ==
    \/ Word(r, type, k) \in {"setup", "machining"} /\ Number(r, primary, k) >= 0
    \/ Word(r, type, k) = "rack" /\ Number(r, primary, k) \in 0..Max32
                                 /\ Number(r, secondary, k) \in 0..Max32

LocationReadable(r, w) ==
    \/ Word(r, "LocationType", w) \in {"transport", "unknown"}
    \/ PlaceReadable(r, "LocationType", "LocationPrimary",
                     "LocationSecondary", w)

Location(r, w) == [kind   |-> Word(r, "LocationType", w),
                   first  |-> Number(r, "LocationPrimary", w),
                   second |-> Number(r, "LocationSecondary", w)]

DestinationReadable(r, d) ==
    /\ PlaceReadable(r, "DestinationType", "DestinationPrimary",
                     "DestinationSecondary", d)
    /\ Word(r, "Availability", d) \in Availabilities

(* Instruction i of workpiece w is filed under <<w, i>>.                   *)
InstructionsReadable(r, w) ==
    LET n == Number(r, "InstructionCount", w)
        order(i) == IF <<"InstructionOrder", w, i>> \in DOMAIN r
                    THEN r[<<"InstructionOrder", w, i>>] ELSE Unreadable
    IN  /\ n \in 0..10
        /\ \A i \in 1..n : /\ <<"InstructionName", w, i>> \in DOMAIN r
                           /\ r[<<"InstructionName", w, i>>] # ""
                           /\ order(i) \in 1..Max32
        /\ \A i, j \in 1..n : order(i) = order(j) => i = j

(* MachiningInstructionSequence::Create sorts by execution order.          *)
Instructions(r, w) ==
    LET earlier(i, j) ==
            r[<<"InstructionOrder", w, i>>] < r[<<"InstructionOrder", w, j>>]
        inOrder == SetToSortSeq(1..Number(r, "InstructionCount", w), earlier)
    IN  [i \in DOMAIN inOrder |-> r[<<"InstructionName", w, inOrder[i]>>]]

-----------------------------------------------------------------------------
(* BuildFrame.                                                             *)

Ids(r) ==
    [i \in 1..Number(r, "WorkpieceCount", 0) |-> Number(r, "WorkpieceId", i)]
Priority(r, w) == Number(r, "Priority", w)

WorkpieceReadable(r, w) ==
    /\ w >= 0
    /\ LocationReadable(r, w)
    /\ Priority(r, w) \in 1..Max32
    /\ Word(r, "Status", w) \in Statuses
    /\ InstructionsReadable(r, w)

(* MachiningQueue::Create.                                                 *)
QueueValid(r) ==
    LET n == Len(Ids(r))
    IN  /\ Cardinality(ToSet(Ids(r))) = n
        /\ {Priority(r, w) : w \in ToSet(Ids(r))} = 1..n

OnRack(r) == {w \in ToSet(Ids(r)) : Location(r, w).kind = "rack"}

(* Slip: two workpieces may have one slot.                                 *)
SlipSlotsValid(r) ==
    \A w \in OnRack(r) : HasSlot(Layout(r), Location(r, w))

SlotsValid(r) ==
    /\ \A w \in OnRack(r) : HasSlot(Layout(r), Location(r, w))
    /\ \A w, v \in OnRack(r) : Location(r, w) = Location(r, v) => w = v

(* The checks of BuildFrame in their order.  Each reserve() throws when    *)
(* the count that was read is more than a vector can hold: the code        *)
(* compares the counts with the range of uint32 and size_t only.           *)
Checks(r) == <<
    <<HealthReadable(r) /\ Number(r, "LevelCount", 0) \in 0..Max32, "refused">>,
    <<Number(r, "LevelCount", 0) <= MaxElements, "threw">>,
    <<LayoutValid(Layout(r)) /\ Number(r, "WorkpieceCount", 0) >= 0, "refused">>,
    <<Number(r, "WorkpieceCount", 0) <= MaxElements, "threw">>,
    <<(\A i \in DOMAIN Ids(r) : WorkpieceReadable(r, Ids(r)[i])), "refused">>,
    <<QueueValid(r) /\ SlotsValid(r)
        /\ Number(r, "DestinationCount", 0) >= 0, "refused">>,
    <<Number(r, "DestinationCount", 0) <= MaxElements, "threw">>,
    <<(\A d \in 1..Number(r, "DestinationCount", 0) :
          DestinationReadable(r, d)), "refused">>
>>

Failures(r) == {i \in DOMAIN Checks(r) : ~Checks(r)[i][1]}

(* What BuildFrame ends in: the first check that fails, or "building".     *)
Verdict(r) ==
    IF Failures(r) = {} THEN "building"
    ELSE Checks(r)[CHOOSE i \in Failures(r) : \A j \in Failures(r) : i <= j][2]

(* duration_cast to the clock's unit multiplies and may wrap.              *)
Ticks(ms) ==
    ((TicksPerMs * ms + MaxMs + 1) % (2 * MaxMs + 2)) - (MaxMs + 1)

Reached(r) == Word(r, "Connection", 0) \in {"connected", "degraded"}

Freshness(r) ==
    IF Reached(r) THEN "Fresh"
    ELSE IF Word(r, "Connection", 0) = "disconnected" THEN "Stale"
    ELSE "Unavailable"

(* Slip: the time of the frame, whatever the connection.                   *)
SlipReadTime(r, at, before) == Ticks(at)

ReadTime(r, at, before) == IF Reached(r) THEN Ticks(at) ELSE before

Queue(r) ==
    [p \in 1..Len(Ids(r)) |->
        CHOOSE w \in ToSet(Ids(r)) : Priority(r, w) = p]

Frame(r, at, before) ==
    [at           |-> at,
     version      |-> Len(frames) + 1,
     capturedAt   |-> Ticks(at),
     connection   |-> Word(r, "Connection", 0),
     freshness    |-> Freshness(r),
     lastRead     |-> ReadTime(r, at, before),
     layout       |-> Layout(r),
     workpieces   |-> Queue(r),
     location     |-> [w \in ToSet(Ids(r)) |-> Location(r, w)],
     status       |-> [w \in ToSet(Ids(r)) |-> Word(r, "Status", w)],
     details      |-> [w \in ToSet(Ids(r)) |-> Instructions(r, w)],
     occupied     |-> OnRack(r),
     destinations |-> [d \in 1..Number(r, "DestinationCount", 0) |->
                         Word(r, "Availability", d)]]

-----------------------------------------------------------------------------
(* Parse.                                                                  *)

Init ==
    /\ \E name \in DOMAIN Files : lines = Files[name]
    /\ next = 1
    /\ headerRead = FALSE
    /\ rows = {}
    /\ phase = "reading"
    /\ model = ""
    /\ responses = <<>>
    /\ frames = <<>>
    /\ lastRead = 0
    /\ elapsed = 0
    /\ active = 1
    /\ version = 0
    /\ writes = 0

(* One line of ReadRows: the first that counts must be the header, the     *)
(* others rows whose time is in range.                                     *)
ReadLine ==
    /\ phase = "reading"
    /\ next \in DOMAIN lines
    /\ next' = next + 1
    /\ LET line == lines[next] IN
         \/ /\ line.kind = "skip"
            /\ UNCHANGED <<headerRead, rows, phase>>
         \/ /\ line.kind = "header" /\ ~headerRead
            /\ headerRead' = TRUE
            /\ UNCHANGED <<rows, phase>>
         \/ /\ line.kind = "row" /\ headerRead /\ line.at <= MaxMs
            /\ rows' = rows \cup {next}
            /\ UNCHANGED <<headerRead, phase>>
         \/ /\ \/ line.kind = "malformed"
               \/ line.kind = "header" /\ headerRead
               \/ line.kind = "row" /\ (~headerRead \/ line.at > MaxMs)
            /\ phase' = "refused"
            /\ UNCHANGED <<headerRead, rows>>
    /\ UNCHANGED <<lines, model, responses, frames, lastRead, playing>>

NoDuplicate ==
    \A i, j \in rows :
        lines[i].at = lines[j].at /\ lines[i].addr = lines[j].addr => i = j

(* ExtractMachineModel: every row of the data id declares this model, and  *)
(* one does so at time 0.                                                  *)
ModelRows == {i \in rows : lines[i].addr[1] = "MachineModel"}
Declared(code) ==
    /\ \A i \in ModelRows : /\ lines[i].addr = <<"MachineModel", 0, 0>>
                            /\ lines[i].value = code
    /\ \E i \in ModelRows : lines[i].at = 0

(* The end of ReadRows and the checks of Parse before the first frame.     *)
EndOfFile ==
    /\ phase = "reading"
    /\ next \notin DOMAIN lines
    /\ \/ /\ NoDuplicate
          /\ \E i \in rows : lines[i].at = 0
          /\ \E code \in MachineCodes : Declared(code) /\ model' = code
          /\ phase' = "building"
       \/ /\ \/ ~NoDuplicate
             \/ \A i \in rows : lines[i].at # 0
             \/ \A code \in MachineCodes : ~Declared(code)
          /\ phase' = "refused"
          /\ UNCHANGED model
    /\ UNCHANGED <<lines, next, headerRead, rows, responses, frames, lastRead,
                   playing>>

(* The rows of a time, and the responses with them.                        *)
RowsAt(at) == {i \in rows : lines[i].at = at}

(* Slip: an address that has a value keeps it (insert for assignment).     *)
SlipWith(r, group) ==
    [a \in DOMAIN r \cup {lines[i].addr : i \in group} |->
        IF a \in DOMAIN r THEN r[a]
        ELSE lines[CHOOSE i \in group : lines[i].addr = a].value]

With(r, group) ==
    [a \in DOMAIN r \cup {lines[i].addr : i \in group} |->
        IF \E i \in group : lines[i].addr = a
        THEN lines[CHOOSE i \in group : lines[i].addr = a].value
        ELSE r[a]]

(* A turn of the loop of Parse: the rows are sorted by time, so it takes   *)
(* those of the earliest time left.  A frame that is refused takes the     *)
(* frames before it with it.                                               *)
BuildFrame ==
    /\ phase = "building"
    /\ \E at \in {lines[i].at : i \in rows} :
         LET r == With(responses, RowsAt(at))
         IN  /\ \A i \in rows : at <= lines[i].at
             /\ rows' = rows \ RowsAt(at)
             /\ responses' = r
             /\ phase' = Verdict(r)
             /\ IF Verdict(r) = "building"
                THEN /\ frames' = Append(frames, Frame(r, at, lastRead))
                     /\ lastRead' = ReadTime(r, at, lastRead)
                ELSE frames' = <<>> /\ UNCHANGED lastRead
    /\ UNCHANGED <<lines, next, headerRead, model, playing>>

(* FakeScenario::Create, and the gateway constructed on the scenario.  It  *)
(* refuses times that do not increase from zero: were there any, the model *)
(* would deadlock here.                                                    *)
CreateScenario ==
    /\ phase = "building"
    /\ rows = {}
    /\ frames[1].at = 0
    /\ \A i \in 2..Len(frames) : frames[i].at > frames[i - 1].at
    /\ phase' = "playing"
    /\ version' = frames[1].version
    /\ UNCHANGED <<loading, elapsed, active, writes>>

-----------------------------------------------------------------------------
(* Playing.                                                                *)

(* FrameIndexAt: the last of the frames that have begun (upper_bound), or  *)
(* the first.                                                              *)
FrameIndexAt(ticks) ==
    LET begun == Cardinality({i \in DOMAIN frames :
                                frames[i].at <= ticks \div TicksPerMs})
    IN  IF begun = 0 THEN 1 ELSE begun

(* Slip: the frame's own version, even if writes have overtaken it.        *)
SlipVersionOf(i) == frames[i].version

VersionOf(i) ==
    IF frames[i].version <= version THEN version + 1 ELSE frames[i].version

(* SynchronizeFrameLocked.                                                 *)
Synchronized == FrameIndexAt(elapsed)
SynchronizedVersion ==
    IF Synchronized = active THEN version ELSE VersionOf(Synchronized)

Tick ==
    /\ phase = "playing"
    /\ elapsed < MaxElapsed
    /\ elapsed' = elapsed + 1
    /\ UNCHANGED <<loading, phase, active, version, writes>>

(* Read and the other calls that only synchronise.                         *)
Read ==
    /\ phase = "playing"
    /\ active' = Synchronized
    /\ version' = SynchronizedVersion
    /\ UNCHANGED <<loading, phase, elapsed, writes>>

(* A priority change or a transport the machine takes: IsWritableLocked on *)
(* the state after the synchronisation, then one version more.             *)
Write ==
    /\ phase = "playing"
    /\ writes < MaxWrites
    /\ frames[Synchronized].connection = "connected"
    /\ frames[Synchronized].freshness = "Fresh"
    /\ active' = Synchronized
    /\ version' = SynchronizedVersion + 1
    /\ writes' = writes + 1
    /\ UNCHANGED <<loading, phase, elapsed>>

Done == phase \in {"refused", "threw"} /\ UNCHANGED vars

Next ==
    \/ ReadLine \/ EndOfFile \/ BuildFrame \/ CreateScenario
    \/ Tick \/ Read \/ Write \/ Done

Spec == Init /\ [][Next]_vars

-----------------------------------------------------------------------------
(* Properties.                                                             *)

Given == {i \in DOMAIN lines : lines[i].kind = "row"}

(* Of the rows of the file, those that give addr its value at time at: the *)
(* latest not after it, and not one of two.                                *)
Governing(addr, at) ==
    LET earlier == {i \in Given : lines[i].addr = addr /\ lines[i].at <= at}
    IN  {i \in earlier : \A j \in earlier \ {i} : lines[j].at < lines[i].at}

Says(addr, at, value) == \E i \in Governing(addr, at) : lines[i].value = value

FrameFollowsTheFile(f) ==
    /\ Says(<<"Connection", 0, 0>>, f.at, f.connection)
    /\ \A p \in DOMAIN f.workpieces : LET w == f.workpieces[p] IN
         /\ Says(<<"Priority", w, 0>>, f.at, p)
         /\ Says(<<"Status", w, 0>>, f.at, f.status[w])
         /\ Says(<<"LocationType", w, 0>>, f.at, f.location[w].kind)
    /\ \A d \in DOMAIN f.destinations :
         Says(<<"Availability", d, 0>>, f.at, f.destinations[d])

(* Whatever the order of the lines of a file, a scenario that is accepted  *)
(* has one frame for each time of the file, and each frame shows what the  *)
(* latest row of each address says: no row of another time overwrites it,  *)
(* and no two rows compete (config/mock/machine-responses.csv:2).          *)
FramesFollowTheFile ==
    phase = "playing" =>
        /\ Len(frames) = Cardinality({lines[i].at : i \in Given})
        /\ \A n \in DOMAIN frames : FrameFollowsTheFile(frames[n])

RackIsConsistent(f) ==
    /\ \A w \in f.occupied : HasSlot(f.layout, f.location[w])
    /\ Cardinality({f.location[w] : w \in f.occupied})
         = Cardinality(f.occupied)

(* Responses are cumulative, so a row that is right by itself can clash    *)
(* with one of an earlier time.  In no frame that is built, and so in none *)
(* that is played, do two workpieces share a slot of the rack, or does one *)
(* lie outside a layout that another row has changed.                      *)
FramesAreConsistent == \A n \in DOMAIN frames : RackIsConsistent(frames[n])

(* Of the frames up to n, those for which the machine was reached.         *)
Good(n) ==
    {m \in 1..n : frames[m].connection \in {"connected", "degraded"}}

(* A frame is called Fresh exactly when the machine was reached for it,    *)
(* and lastSuccessfulRead names the latest frame for which it was: across  *)
(* any run of bad frames it stays, and it never names a bad one.           *)
LastReadIsTheLastGood ==
    \A n \in DOMAIN frames :
        /\ (frames[n].freshness = "Fresh") <=> (n \in Good(n))
        /\ Good(n) = {} => frames[n].lastRead = 0
        /\ \A m \in Good(n) :
             (\A k \in Good(n) : k <= m) =>
                frames[n].lastRead = frames[m].capturedAt

(* While a scenario plays, a change of what the machine shows (a new frame,*)
(* several frames skipped between two reads, a write) always comes with a  *)
(* later version, even when writes have counted further than the frames.   *)
ChangesHaveLaterVersions ==
    [][phase = "playing" /\ <<active, writes>>' # <<active, writes>>
            => version' > version]_vars

(* The age MachineStatusPresenter shows for data that is not up to date:   *)
(* IClock::Now less lastSuccessfulRead, not below zero.                    *)
ShownAge ==
    LET age == BootTicks + elapsed - frames[active].lastRead
    IN  IF age < 0 THEN 0 ELSE age

(* The data on the screen was good at most as long ago as the scenario has *)
(* been playing (MachineStatusPresenter.cpp:33, one series of the clock).  *)
StaleAgeIsTrue ==
    phase = "playing" /\ frames[active].freshness = "Stale" =>
        ShownAge <= elapsed
=============================================================================
