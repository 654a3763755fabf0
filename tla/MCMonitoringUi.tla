--------------------------- MODULE MCMonitoringUi ----------------------------
EXTENDS MonitoringUi

(* Both classes are due at every tick: the time of a read makes no         *)
(* difference to what the screens show in the end.                         *)
Periods == [c \in Periodic |-> 1]
=============================================================================
