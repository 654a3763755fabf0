--------------------------- MODULE MonitoringPlan ----------------------------
(***************************************************************************)
(* MonitoringPlanBuilder: which monitoring classes are due.  The periodic  *)
(* classes are due when their period has passed and no read of them is in  *)
(* flight; the on-demand class is due while a selection has not been read, *)
(* and only the last selection counts.                                     *)
(*                                                                         *)
(* Each operation is one critical section of the builder's mutex.  Instead *)
(* of the absolute nextDue, `wait` holds the ticks left until it.          *)
(***************************************************************************)
EXTENDS Integers, Sequences

CONSTANTS
    Period,       \* Period[c]: the period of class c, in clock ticks
    Workpieces,
    NoWorkpiece   \* the empty optional

Periodic == {"Critical", "Standard"}
Classes  == Periodic \cup {"OnDemand"}

ASSUME PlanAssumption ==
    /\ Period \in [Periodic -> Nat \ {0}]
    /\ NoWorkpiece \notin Workpieces

VARIABLES
    wait,      \* nextDue - now of each periodic class, 0 when it is past
    inFlight,  \* the classes returned by Due and not yet marked complete
    pending,   \* onDemandPending_
    target     \* onDemandWorkpiece_

planVars == <<wait, inFlight, pending, target>>

PlanInit ==
    /\ wait = [c \in Periodic |-> 0]
    /\ inFlight = {}
    /\ pending = FALSE
    /\ target = NoWorkpiece

IsDue(c) ==
    /\ c \notin inFlight
    /\ IF c \in Periodic THEN wait[c] = 0 ELSE pending

Ask(c) ==
    IF IsDue(c)
    THEN <<[class |-> c, workpiece |-> IF c = "OnDemand" THEN target ELSE NoWorkpiece]>>
    ELSE << >>

(* The requests of one tick: Critical, then Standard, then OnDemand.       *)
DueRequests == Ask("Critical") \o Ask("Standard") \o Ask("OnDemand")

(* Due: what it returns is reserved.  The next period counts from now, so  *)
(* periods missed during a long read are not caught up.                    *)
Due ==
    /\ inFlight' = inFlight \cup {c \in Classes : IsDue(c)}
    /\ wait' = [c \in Periodic |-> IF IsDue(c) THEN Period[c] ELSE wait[c]]
    /\ pending' = (pending /\ ~IsDue("OnDemand"))
    /\ UNCHANGED target

(* Slips: the switch has no case for OnDemand; a selection made while the  *)
(* read was in flight is taken for the one that was read.                  *)
SlipForgetOnDemand(c) ==
    /\ inFlight' = IF c = "OnDemand" THEN inFlight ELSE inFlight \ {c}
    /\ UNCHANGED <<wait, pending, target>>

SlipClearPending(c) ==
    /\ inFlight' = inFlight \ {c}
    /\ pending' = (pending /\ c # "OnDemand")
    /\ UNCHANGED <<wait, target>>

MarkComplete(c) ==
    /\ inFlight' = inFlight \ {c}
    /\ UNCHANGED <<wait, pending, target>>

RequestOnDemand(w) ==
    /\ target' = w
    /\ pending' = TRUE
    /\ UNCHANGED <<wait, inFlight>>

(* One clock tick.                                                         *)
PlanElapse ==
    /\ wait' = [c \in Periodic |-> IF wait[c] > 0 THEN wait[c] - 1 ELSE 0]
    /\ UNCHANGED <<inFlight, pending, target>>

PlanTypeOK ==
    /\ \A c \in Periodic : wait[c] \in 0 .. Period[c]
    /\ inFlight \subseteq Classes
    /\ pending \in BOOLEAN
    /\ target \in Workpieces \cup {NoWorkpiece}
    /\ pending => target # NoWorkpiece
=============================================================================
