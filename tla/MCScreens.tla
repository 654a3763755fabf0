----------------------------- MODULE MCScreens ------------------------------
(* Screens with two snapshots.  In the first everything is in order, with  *)
(* workpiece b not on the rack; in the second a is gone and a destination  *)
(* was inserted before the other, or the priorities are refused and the    *)
(* data no longer fresh.                                                   *)
EXTENDS Screens

CONSTANTS a, b, north, south

Place(p, free) == [place |-> p, available |-> free]

Normal ==
    [queue |-> <<a, b>>, valid |-> TRUE, rack |-> {a}, movable |-> {a},
     destinations |-> <<Place(north, TRUE)>>,
     live |-> TRUE, error |-> FALSE, manual |-> TRUE]

Snapshots ==
    <<{Normal},
      {[Normal EXCEPT !.queue = <<b>>, !.rack = {}, !.movable = {},
           !.destinations = <<Place(south, TRUE), Place(north, TRUE)>>],
       [Normal EXCEPT !.valid = FALSE, !.live = FALSE]}>>
=============================================================================
