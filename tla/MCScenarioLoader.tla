-------------------------- MODULE MCScenarioLoader --------------------------
(***************************************************************************)
(* The files: a complete one with two workpieces on a rack of one level,   *)
(* changed by up to three edits, the rows an edit adds standing before or  *)
(* after the others.                                                       *)
(***************************************************************************)
EXTENDS ScenarioLoader

Row(at, id, k, j, value) ==
    [kind |-> "row", at |-> at, addr |-> <<id, k, j>>, value |-> value]

Header == [kind |-> "header"]

Workpiece(w) == <<
    Row(0, "WorkpieceId", w, 0, w),      Row(0, "Priority", w, 0, w),
    Row(0, "LocationType", w, 0, "rack"), Row(0, "LocationPrimary", w, 0, 1),
    Row(0, "LocationSecondary", w, 0, w), Row(0, "Status", w, 0, "waiting"),
    Row(0, "InstructionCount", w, 0, 1),
    Row(0, "InstructionName", w, 1, "nc"), Row(0, "InstructionOrder", w, 1, 1)>>

Complete == <<
    Row(0, "Connection", 0, 0, "connected"), Row(0, "Mode", 0, 0, "manual"),
    Row(0, "Error", 0, 0, 0),                Row(0, "Warning", 0, 0, 0),
    Row(0, "Message", 0, 0, "normal"),       Row(0, "LevelCount", 0, 0, 1),
    Row(0, "PositionCount", 1, 0, 3),        Row(0, "WorkpieceCount", 0, 0, 2),
    Row(0, "DestinationCount", 0, 0, 1),
    Row(0, "DestinationType", 1, 0, "machining"),
    Row(0, "DestinationPrimary", 1, 0, 1),
    Row(0, "Availability", 1, 0, "available"),
    Row(0, "MachineModel", 0, 0, "one")>> \o Workpiece(1) \o Workpiece(2)

Give(rs) == [drop |-> {}, add |-> rs]
Lose(addrs) == [drop |-> addrs, add |-> <<>>]
Replace(row) == [drop |-> {row.addr}, add |-> <<row>>]

Edits == <<
    Give(<<Row(1, "Connection", 0, 0, "disconnected")>>),
    Give(<<Row(2, "Connection", 0, 0, "degraded")>>),
    Give(<<Row(3, "Connection", 0, 0, "unknown")>>),
    Give(<<Row(2, "Connection", 0, 0, "disconnected")>>),
    Give(<<Row(1, "Priority", 1, 0, 2), Row(1, "Priority", 2, 0, 1)>>),
    Give(<<Row(2, "Priority", 1, 0, 2)>>),
    Give(<<Row(1, "LocationSecondary", 1, 0, 2)>>),
    Give(<<Row(2, "LocationSecondary", 2, 0, 4)>>),
    Give(<<Row(1, "LocationType", 2, 0, "machining"),
           Row(1, "Status", 2, 0, "machining")>>),
    Give(<<Row(2, "Availability", 1, 0, "occupied")>>),
    Give(<<Row(2, "WorkpieceCount", 0, 0, 1)>>),
    Give(<<Row(1, "WorkpieceId", 2, 0, 1)>>),
    Give(<<Row(1, "InstructionCount", 1, 0, 2),
           Row(1, "InstructionName", 1, 2, "nc2"),
           Row(1, "InstructionOrder", 1, 2, 1)>>),
    Give(<<Row(8, "Connection", 0, 0, "connected")>>),
    Give(<<Row(9, "Message", 0, 0, "late")>>),
    Give(<<Row(0, "Priority", 1, 0, 2)>>),
    Give(<<Row(2, "MachineModel", 0, 0, "two")>>),
    Give(<<[kind |-> "malformed"]>>),
    Give(<<[kind |-> "skip"], Header>>),
    Lose({<<"LocationType", 1, 0>>}),
    Lose({<<"MachineModel", 0, 0>>}),
    Replace(Row(0, "Connection", 0, 0, "disconnected")),
    Replace(Row(0, "Mode", 0, 0, "idle")),
    Replace(Row(0, "Error", 0, 0, Unreadable)),
    Replace(Row(0, "PositionCount", 1, 0, 2)),
    Replace(Row(0, "DestinationType", 1, 0, "depot")),
    Replace(Row(1, "MachineModel", 0, 0, "one")),
    Lose({<<"Header", 0, 0>>}),
    Lose({Complete[i].addr : i \in DOMAIN Complete}),
    Replace(Row(0, "LevelCount", 0, 0, 19)),
    Replace(Row(0, "WorkpieceCount", 0, 0, 21)),
    Replace(Row(0, "DestinationCount", 0, 0, 21))
>>

Edited(chosen, first) ==
    LET kept  == SelectSeq(Complete,
                    LAMBDA row : \A e \in chosen : row.addr \notin Edits[e].drop)
        added == FlattenSeq([i \in DOMAIN SetToSeq(chosen) |->
                                Edits[SetToSeq(chosen)[i]].add])
        header == IF \E e \in chosen : <<"Header", 0, 0>> \in Edits[e].drop
                  THEN <<>> ELSE <<Header>>
    IN  header \o (IF first THEN added \o kept ELSE kept \o added)

EditSets == {{}} \cup {{e, f, g} : e, f, g \in DOMAIN Edits}
MCFiles == [f \in EditSets \X BOOLEAN |-> Edited(f[1], f[2])]
=============================================================================
