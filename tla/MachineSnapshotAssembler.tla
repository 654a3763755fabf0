---------------------- MODULE MachineSnapshotAssembler -----------------------
(***************************************************************************)
(* MachineSnapshotAssembler: collects what the monitoring reads return and *)
(* assembles a snapshot with a new version whenever something a screen can *)
(* observe has changed.  It belongs to the monitoring thread and has no    *)
(* mutex, so taking in one read result is one step.                        *)
(*                                                                         *)
(* A fragment is abstracted to one value per class: the health of the      *)
(* machine (Critical), the set of workpieces it reports, which stands for  *)
(* the four Standard areas, and the workpiece whose detail was read.       *)
(***************************************************************************)
EXTENDS Integers

CONSTANT Nothing   \* an empty optional

VARIABLES
    health,          \* health_
    standard,        \* rackLayout_, rackState_, workpieces_, destinations_
    detail,          \* workpieceDetail_
    classFreshness,  \* criticalFreshness_ and standardFreshness_
    current          \* current_: the last assembled snapshot

assemblerVars == <<health, standard, detail, classFreshness, current>>

Freshness(state, at, error) ==
    [state |-> state, lastSuccessfulRead |-> at, lastError |-> error]

AssemblerInit ==
    /\ health = Nothing
    /\ standard = Nothing
    /\ detail = Nothing
    /\ classFreshness = [c \in {"Critical", "Standard"} |-> Nothing]
    /\ current = Nothing

(* Slip: the time of the read always counts.                               *)
SlipFreshnessEqual(left, right) == left = right

(* FreshnessEquivalent: while data is fresh the time of the read is no     *)
(* observable difference.                                                  *)
FreshnessEquivalent(left, right) ==
    /\ left.state = right.state
    /\ left.lastError = right.lastError
    /\ left.state = "Fresh" \/ left.lastSuccessfulRead = right.lastSuccessfulRead

(* CombinedFreshness: the worse state, the older read, the error of        *)
(* Critical before that of Standard.                                       *)
CombinedFreshness(critical, std) ==
    Freshness(
        IF "Unavailable" \in {critical.state, std.state} THEN "Unavailable"
        ELSE IF "Stale" \in {critical.state, std.state} THEN "Stale" ELSE "Fresh",
        IF critical.lastSuccessfulRead < std.lastSuccessfulRead
        THEN critical.lastSuccessfulRead ELSE std.lastSuccessfulRead,
        IF critical.lastError # "none" THEN critical.lastError ELSE std.lastError)

(* No flag of SnapshotChangeFlag is set between the two snapshots.         *)
NoChange(old, new) ==
    /\ old.health = new.health
    /\ old.standard = new.standard
    /\ old.detail = new.detail
    /\ FreshnessEquivalent(old.freshness, new.freshness)

(* TryAssemble, called with the fields already updated: no snapshot before *)
(* every required area and both freshnesses are there, none without a      *)
(* change, and otherwise the next version.                                 *)
TryAssemble ==
    LET critical == classFreshness'["Critical"]
        std      == classFreshness'["Standard"]
        snapshot == [version   |-> IF current = Nothing THEN 1 ELSE current.version + 1,
                     health    |-> health',
                     standard  |-> standard',
                     detail    |-> detail',
                     freshness |-> CombinedFreshness(critical, std)]
        missing  == \/ health' = Nothing \/ standard' = Nothing
                    \/ critical = Nothing \/ std = Nothing
        held     == current # Nothing /\ NoChange(current, snapshot)
    IN  current' = IF missing \/ held THEN current ELSE snapshot

(* AcceptSuccess: only the areas of the class that was read are replaced,  *)
(* and a detail does not count for the freshness of the machine.           *)
AcceptSuccess(class, value, freshness) ==
    /\ health'   = IF class = "Critical" THEN value ELSE health
    /\ standard' = IF class = "Standard" THEN value ELSE standard
    /\ detail'   = IF class = "OnDemand" THEN value ELSE detail
    /\ classFreshness' = [c \in {"Critical", "Standard"} |->
                            IF c = class THEN freshness ELSE classFreshness[c]]
    /\ TryAssemble

(* Slip: the last good time is forgotten.                                  *)
SlipForgetGoodTime(freshness, error) ==
    Freshness(IF freshness = Nothing THEN "Unavailable" ELSE "Stale", 0, error)

(* markFailed: the last good time is kept.                                 *)
MarkFailed(freshness, error) ==
    IF freshness = Nothing THEN Freshness("Unavailable", 0, error)
    ELSE Freshness("Stale", freshness.lastSuccessfulRead, error)

(* AcceptFailure: a failed detail read changes nothing.                    *)
AcceptFailure(class, error) ==
    IF class = "OnDemand"
    THEN UNCHANGED assemblerVars
    ELSE /\ classFreshness' =
              [classFreshness EXCEPT ![class] = MarkFailed(@, error)]
         /\ UNCHANGED <<health, standard, detail>>
         /\ TryAssemble
=============================================================================
