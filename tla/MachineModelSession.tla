------------------------- MODULE MachineModelSession -------------------------
(***************************************************************************)
(* MachineModelSession: the machine model is resolved once, from the first *)
(* good observation, and is fixed from then on.  An answer that cannot     *)
(* come from that model latches a mismatch until the application restarts; *)
(* a transient failure of the connection does not.                         *)
(*                                                                         *)
(* Every operation is one critical section of the session's mutex, hence   *)
(* one step.  An answer of the model provider is a model or an error code. *)
(* (Slip...: see OperationExecutor.)                                       *)
(***************************************************************************)
CONSTANTS
    Models,        \* the models the profile registry knows
    OtherModels,   \* values of the enumeration without a profile
    NoModel        \* the empty optional

ErrorCodes ==
    {"Unavailable", "Timeout", "InternalFailure", "UnsupportedData",
     "InvalidResponse"}

NoError == "none"

ASSUME SessionAssumption ==
    /\ Models \cap OtherModels = {}
    /\ (Models \cup OtherModels) \cap ErrorCodes = {}
    /\ NoModel \notin Models

VARIABLES
    session,       \* state_
    profile,       \* profile_: the model whose profile is fixed
    sessionError   \* lastObservationError_: its code

sessionVars == <<session, profile, sessionError>>

Answers == Models \cup OtherModels \cup ErrorCodes

(* IsTransientFailure.                                                     *)
Transient == {"Unavailable", "Timeout", "InternalFailure"}

SessionInit ==
    /\ session = "Unresolved"
    /\ profile = NoModel
    /\ sessionError = NoError

(* MachineModelProfileRegistry::Resolve turns an unregistered model into a *)
(* failure; the answer's error code, when it is one.                       *)
CodeOf(answer) == IF answer \in OtherModels THEN "UnsupportedData" ELSE answer

(* ObserveFailureLocked, for a session that is not latched.                *)
ObserveFailure(answer) ==
    /\ answer \notin Models
    /\ session' = IF session = "Resolved" /\ CodeOf(answer) \notin Transient
                  THEN "MismatchLatched" ELSE session
    /\ sessionError' = CodeOf(answer)
    /\ UNCHANGED profile

(* Slip: the last good observation is adopted.                             *)
SlipAdoptModel(answer) ==
    /\ answer \in Models
    /\ session' = "Resolved"
    /\ profile' = answer
    /\ sessionError' = NoError

(* Observe of a registered model, for a session that is not latched.       *)
ObserveModel(answer) ==
    /\ answer \in Models
    /\ \/ /\ session = "Unresolved"
          /\ session' = "Resolved"
          /\ profile' = answer
          /\ sessionError' = NoError
       \/ /\ session = "Resolved" /\ profile = answer
          /\ sessionError' = NoError
          /\ UNCHANGED <<session, profile>>
       \/ /\ session = "Resolved" /\ profile # answer
          /\ session' = "MismatchLatched"
          /\ sessionError' = "Conflict"
          /\ UNCHANGED profile

(* Observe and ObserveFailure: a latched session takes nothing in.         *)
Observe(answer) ==
    IF session = "MismatchLatched"
    THEN UNCHANGED sessionVars
    ELSE ObserveModel(answer) \/ ObserveFailure(answer)

(* Slip: only the resolution is reported, not the mismatch.                *)
SlipReportsFirst(answer) ==
    session = "Unresolved" /\ (answer \in Models \/ CodeOf(answer) # sessionError)

(* What Observe returns: must the screens be redrawn?  A resolved session  *)
(* keeps its profile through a transient failure, and reports no change.   *)
Reports(answer) ==
    CASE session = "MismatchLatched" -> FALSE
      [] session = "Unresolved"      -> answer \in Models
                                          \/ CodeOf(answer) # sessionError
      [] session = "Resolved"        -> answer # profile
                                          /\ CodeOf(answer) \notin Transient

SessionNext == \E answer \in Answers : Observe(answer)

SessionSpec == SessionInit /\ [][SessionNext]_sessionVars
-----------------------------------------------------------------------------
(* The states the code's comments allow: a profile exactly when the model  *)
(* was resolved, and an error that explains a latched mismatch.            *)
SessionTypeOK ==
    /\ session \in {"Unresolved", "Resolved", "MismatchLatched"}
    /\ profile \in Models \cup {NoModel}
    /\ profile = NoModel <=> session = "Unresolved"
    /\ sessionError \in ErrorCodes \cup {"Conflict", NoError}
    /\ session = "MismatchLatched" => sessionError \notin Transient \cup {NoError}

(* Once a model is resolved its profile is fixed, a latched mismatch is    *)
(* never released, and a session never becomes unresolved again, whatever  *)
(* is observed afterwards (Observe 20-54, ObserveFailureLocked 86-118).    *)
ProfileIsFixed ==
    [][/\ profile # NoModel => profile' = profile
       /\ session = "MismatchLatched" => session' = "MismatchLatched"
       /\ session # "Unresolved" => session' # "Unresolved"]_sessionVars
=============================================================================
