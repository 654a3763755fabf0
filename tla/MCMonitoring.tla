---------------------------- MODULE MCMonitoring -----------------------------
EXTENDS Monitoring, TLC

(* 16.7 ms and 66.7 ms, brought down to a ratio that still interleaves.    *)
Periods == [c \in Periodic |-> IF c = "Critical" THEN 1 ELSE 2]

(* Only equality is asked of these values.                                 *)
DataSymmetry ==
    Permutations(Models) \cup Permutations(Workpieces) \cup Permutations(Healths)
=============================================================================
