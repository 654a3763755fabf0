---------------------- MODULE MachineModelSessionProofs ----------------------
(***************************************************************************)
(* Proofs about MachineModelSession, for any sets of models.  The step     *)
(* lemmas are stated for one observation, so that the modules that compose *)
(* the session with other threads can cite them.                           *)
(***************************************************************************)
EXTENDS MachineModelSession, TLAPS

LEMMA SessionInitOK == SessionInit => SessionTypeOK
  BY SessionAssumption DEF SessionInit, SessionTypeOK, NoError

(* What an answer that is not a registered model is recorded as.           *)
LEMMA CodeOfType ==
    ASSUME NEW answer \in Answers \ Models
    PROVE  CodeOf(answer) \in ErrorCodes
  BY DEF CodeOf, Answers, ErrorCodes

(* An observation keeps the types, and never releases what is fixed.       *)
LEMMA ObserveStep ==
    ASSUME SessionTypeOK, NEW answer \in Answers, Observe(answer)
    PROVE  /\ SessionTypeOK'
           /\ profile # NoModel => profile' = profile
           /\ session = "MismatchLatched" => session' = "MismatchLatched"
           /\ session # "Unresolved" => session' # "Unresolved"
<1>1. CASE session = "MismatchLatched"
  BY <1>1 DEF Observe, sessionVars, SessionTypeOK
<1>2. CASE session # "MismatchLatched" /\ ObserveModel(answer)
  BY <1>2, SessionAssumption
     DEF ObserveModel, SessionTypeOK, Transient, NoError, ErrorCodes
<1>3. CASE session # "MismatchLatched" /\ ObserveFailure(answer)
  <2>1. CodeOf(answer) \in ErrorCodes
    BY <1>3, CodeOfType DEF ObserveFailure
  <2>2. QED
    BY <1>3, <2>1 DEF ObserveFailure, SessionTypeOK, Transient, NoError, ErrorCodes
<1>4. QED
  BY <1>1, <1>2, <1>3 DEF Observe

LEMMA SessionStutter ==
    ASSUME SessionTypeOK, UNCHANGED sessionVars
    PROVE  SessionTypeOK'
  BY DEF sessionVars, SessionTypeOK

(* The session alone keeps its types.                                      *)
THEOREM SessionTypeCorrect == SessionSpec => []SessionTypeOK
<1>1. SessionTypeOK /\ [SessionNext]_sessionVars => SessionTypeOK'
  BY ObserveStep, SessionStutter DEF SessionNext
<1>2. QED
  BY <1>1, SessionInitOK, PTL DEF SessionSpec

(* The session alone keeps its profile and its mismatch.                   *)
THEOREM SessionProfileFixed == SessionSpec => ProfileIsFixed
<1>1. SessionTypeOK /\ [SessionNext]_sessionVars =>
         [/\ profile # NoModel => profile' = profile
          /\ session = "MismatchLatched" => session' = "MismatchLatched"
          /\ session # "Unresolved" => session' # "Unresolved"]_sessionVars
  BY ObserveStep DEF SessionNext
<1>2. QED
  BY <1>1, SessionTypeCorrect, PTL DEF SessionSpec, ProfileIsFixed
=============================================================================
