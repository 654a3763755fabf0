---------------------- MODULE MCQueuePriorityAdjustment ----------------------
EXTENDS QueuePriorityAdjustment

CONSTANTS a, b, c, fits, foreign

(* A queue of three; one without the last; no connection.                  *)
First == [priority |-> (a :> 1 @@ b :> 2 @@ c :> 3),
          destination |-> "available",
          place |-> (a :> "rack" @@ b :> "rack" @@ c :> "rack"),
          health |-> [mode |-> "manual", connection |-> "Connected",
                      error |-> FALSE]]

Contents ==
    {First,
     [First EXCEPT !.priority = (b :> 1 @@ a :> 2), !.place = (a :> "rack" @@ b :> "rack")],
     [First EXCEPT !.health.connection = "Disconnected"]}

(* Two models that differ in their names only.                             *)
Usable == [m \in Models |-> {fits}]
ModelSymmetry == Permutations(Models)

Use(tool, time)        == [tool |-> tool, time |-> time]
Instruction(n, tools)  == [order |-> n, tools |-> tools]
ForFirst(instructions) == [w \in Workpieces |-> IF w = a THEN instructions ELSE << >>]

(* A total exactly at the bound; one above it; a tool twice in one         *)
(* instruction; two instructions of one order; a tool of another format.   *)
Instructions ==
    {ForFirst(<<Instruction(2, <<Use(fits, 1)>>), Instruction(1, <<Use(fits, 1)>>)>>),
     ForFirst(<<Instruction(1, <<Use(fits, 2)>>), Instruction(2, <<Use(fits, 1)>>)>>),
     ForFirst(<<Instruction(1, <<Use(fits, 1), Use(fits, 1)>>)>>),
     ForFirst(<<Instruction(1, <<Use(fits, 1)>>), Instruction(1, << >>)>>),
     ForFirst(<<Instruction(1, <<Use(foreign, 1)>>)>>)}
=============================================================================
