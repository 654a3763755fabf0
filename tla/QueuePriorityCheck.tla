-------------------------- MODULE QueuePriorityCheck --------------------------
(***************************************************************************)
(* The data rules of the queue priority check: which requests the factory  *)
(* and the JSON codec accept, which answers of the external system are     *)
(* taken, and the new queue order that follows from an answer.  There is   *)
(* no state here; QueuePriorityAdjustment uses these rules.                *)
(*                                                                         *)
(* A request is a sequence of workpieces with their machining instructions *)
(* and the tools these use; an answer is a sequence of workpieces with     *)
(* their tools and whether they can be executed.  Of several defects the   *)
(* code reports the first that it meets; here any of them may be reported. *)
(* (Slip...: see OperationExecutor.)                                       *)
(***************************************************************************)
EXTENDS Integers, Sequences, FiniteSets, SequencesExt

CONSTANTS
    UsableTools,   \* UsableTools[m]: the tools whose identifier has the
                   \* format that the profile of model m asks for
    MaxUsage       \* bound: the largest total usage time (uint64 in the code)

ASSUME UsageAssumption == MaxUsage \in Nat

(* No two entries with the same key: std::set or std::map insertion.       *)
Unique(list, key) ==
    \A i, j \in DOMAIN list : list[i][key] = list[j][key] => i = j

(* The uses of tools by the instructions of a workpiece.                   *)
Uses(w) ==
    UNION {{<<i, k>> : k \in DOMAIN w.instructions[i].tools} :
              i \in DOMAIN w.instructions}
UseAt(w, u) == w.instructions[u[1]].tools[u[2]]
ToolsOf(w)  == {UseAt(w, u).tool : u \in Uses(w)}

(* The total usage time of a tool over all instructions of a workpiece.    *)
Total(w, t) ==
    LET At(u) == UseAt(w, u).time
    IN  MapThenSumSet(At, {u \in Uses(w) : UseAt(w, u).tool = t})

(* BuildExpectedUsage: an instruction order is used once, a tool once in   *)
(* an instruction, and no total exceeds the range.                         *)
WellFormed(w) ==
    /\ Unique(w.instructions, "order")
    /\ \A i \in DOMAIN w.instructions : Unique(w.instructions[i].tools, "tool")
    /\ \A t \in ToolsOf(w) : Total(w, t) <= MaxUsage

(* QueuePriorityCheckRequestFactory::Create: what is wrong with a list of  *)
(* workpieces ...                                                          *)
RequestErrors(model, list) ==
    {code \in {"InvalidArgument", "UnsupportedData"} :
        \/ /\ code = "InvalidArgument"
           /\ \/ ~Unique(list, "id")
              \/ {list[i].priority : i \in DOMAIN list} # 1 .. Len(list)
              \/ \E i \in DOMAIN list : ~WellFormed(list[i])
        \/ /\ code = "UnsupportedData"
           /\ \E i \in DOMAIN list : ~(ToolsOf(list[i]) \subseteq UsableTools[model])}

(* ... and the request made from a good one: workpieces by priority,       *)
(* instructions by their order.                                            *)
SortInstructions(w) ==
    LET Before(x, y) == x.order < y.order
    IN  [w EXCEPT !.instructions = SetToSortSeq(ToSet(@), Before)]

Request(list) ==
    [p \in 1 .. Len(list) |->
        SortInstructions(list[CHOOSE i \in DOMAIN list : list[i].priority = p])]

(* QueuePriorityCheckJsonCodec::Serialize asks the same once more.         *)
SerializeErrors(model, request) == RequestErrors(model, request)

(* BuildActualUsage: each tool once, with its remaining life if it exists. *)
ToolListOK(tools) ==
    /\ Unique(tools, "tool")
    /\ \A k \in DOMAIN tools : tools[k].status = "NotFound" \/ tools[k].hasRemainLife

(* QueuePriorityCheckJsonCodec::Parse of a document whose fields are all   *)
(* there and of their types.                                               *)
Parses(model, document) ==
    /\ Unique(document, "id")
    /\ \A i \in DOMAIN document :
          /\ document[i].priority > 0
          /\ ToolListOK(document[i].tools)
          /\ \A k \in DOMAIN document[i].tools :
                document[i].tools[k].tool \in UsableTools[model]

(* Slip: the totals are not compared.                                      *)
SlipResultFits(w, r) ==
    /\ r.id = w.id /\ r.priority = w.priority
    /\ ToolListOK(r.tools)
    /\ {r.tools[k].tool : k \in DOMAIN r.tools} = ToolsOf(w)

(* The result r answers for the workpiece w: its priority, its tools and   *)
(* their totals are the ones asked about.                                  *)
ResultFits(w, r) ==
    /\ r.id = w.id /\ r.priority = w.priority
    /\ ToolListOK(r.tools)
    /\ {r.tools[k].tool : k \in DOMAIN r.tools} = ToolsOf(w)
    /\ \A k \in DOMAIN r.tools : r.tools[k].total = Total(w, r.tools[k].tool)

(* QueuePriorityCheckContractValidator::Validate.                          *)
ContractError(request, document) ==
    CASE Len(request) # Len(document)                      -> "InvalidResponse"
      [] ~Unique(request, "id")                            -> "InvalidArgument"
      [] ~Unique(document, "id")                           -> "InvalidResponse"
      [] \E i \in DOMAIN request : ~WellFormed(request[i]) -> "InvalidArgument"
      [] \E i \in DOMAIN request :
            \A j \in DOMAIN document : ~ResultFits(request[i], document[j])
                                                           -> "InvalidResponse"
      [] OTHER                                             -> "none"

(* The request covers the whole queue, each workpiece at its position.     *)
Covers(queue, request) ==
    /\ Len(request) = Cardinality(DOMAIN queue)
    /\ \A i \in DOMAIN request : /\ request[i].id \in DOMAIN queue
                                 /\ request[i].priority = queue[request[i].id]

(* QueuePriorityAdjustmentPolicy::Plan: why there is no plan ...           *)
PlanErrorOf(queue, request, document) ==
    IF Covers(queue, request) THEN ContractError(request, document) ELSE "Conflict"

IsExecutable(document, id) ==
    document[CHOOSE j \in DOMAIN document : document[j].id = id].executable

(* What push_back collects from the chosen positions of the request.       *)
Group(request, chosen) ==
    LET collected[k \in 0 .. Len(request)] ==
            IF k = 0 THEN << >>
            ELSE IF k \in chosen THEN Append(collected[k - 1], request[k])
            ELSE collected[k - 1]
    IN  collected[Len(request)]

Partitioned(request, chosen) ==
    Group(request, chosen) \o Group(request, DOMAIN request \ chosen)

(* Slip: the result at the same position is taken.                         *)
SlipReordered(request, document) ==
    Partitioned(request, {p \in DOMAIN request : document[p].executable})

(* ... the new order: first what can be executed, then the rest, each      *)
(* group in the order of the request ...                                   *)
Reordered(request, document) ==
    Partitioned(request,
                {p \in DOMAIN request : IsExecutable(document, request[p].id)})

(* ... and the assignments of new priorities where they differ.            *)
Assignments(order) ==
    {[workpiece |-> order[k].id, expected |-> order[k].priority, desired |-> k] :
        k \in {j \in DOMAIN order : order[j].priority # j}}
=============================================================================
