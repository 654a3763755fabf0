------------------------- MODULE OperationLifecycle -------------------------
(***************************************************************************)
(* What the operation pipeline promises to a screen, without its threads,  *)
(* queue or mutexes: operations are numbered in the order in which they    *)
(* are accepted, they end one at a time in that order, a result never      *)
(* changes, and once the pipeline is closed nothing is accepted any more,  *)
(* while what was accepted still ends.                                     *)
(***************************************************************************)
EXTENDS Integers

CONSTANT MaxOperations   \* bound: how many operations are ever accepted

VARIABLES
    phase,   \* phase[i]: the state a screen reads for operation i
    open     \* are new operations accepted?

vars == <<phase, open>>

OperationIds == 1 .. MaxOperations
Terminal     == {"Succeeded", "Failed"}
Phases       == {"Absent", "Running"} \cup Terminal

Init ==
    /\ phase = [i \in OperationIds |-> "Absent"]
    /\ open = TRUE

(* The next unused number becomes a running operation.                     *)
Accept(i) ==
    /\ open
    /\ phase[i] = "Absent"
    /\ \A j \in OperationIds : j < i => phase[j] # "Absent"
    /\ phase' = [phase EXCEPT ![i] = "Running"]
    /\ UNCHANGED open

(* The oldest running operation ends, with either result.                  *)
End(i, result) ==
    /\ phase[i] = "Running"
    /\ \A j \in OperationIds : j < i => phase[j] \in Terminal
    /\ phase' = [phase EXCEPT ![i] = result]
    /\ UNCHANGED open

Close ==
    /\ open
    /\ open' = FALSE
    /\ UNCHANGED phase

Next ==
    \/ \E i \in OperationIds : Accept(i)
    \/ \E i \in OperationIds, result \in Terminal : End(i, result)
    \/ Close

Spec == Init /\ [][Next]_vars

(* Every accepted operation ends.                                          *)
Completes ==
    \A i \in OperationIds : phase[i] = "Running" ~> phase[i] \in Terminal
=============================================================================
