------------------------ MODULE MCMachineOperations ------------------------
EXTENDS MachineOperations, TLC

CONSTANTS a, b

(* What the frames of the scenario may hold: a first picture; one with a   *)
(* workpiece at the destination, a mode that is not known and a connection *)
(* that is degraded; one where a workpiece and the destination are gone;   *)
(* no connection.                                                          *)
First == [priority |-> (a :> 1 @@ b :> 2), destination |-> "available",
          health |-> [mode |-> "manual", connection |-> "Connected",
                      error |-> FALSE],
          place |-> (a :> "rack" @@ b :> "rack")]

Contents ==
    {First,
     [First EXCEPT !.place[a] = "destination", !.health.mode = "unknown",
                   !.health.connection = "Degraded"],
     [First EXCEPT !.priority = (b :> 1), !.place = (b :> "rack"),
                   !.destination = "gone"],
     [First EXCEPT !.health.connection = "Disconnected"]}
=============================================================================
