----------------------- MODULE QueuePriorityAdjustment ------------------------
(***************************************************************************)
(* CheckAndAdjustQueuePriorityUseCase with ComQueuePriorityCheckGateway:   *)
(* the external system is asked which workpieces can be executed, and the  *)
(* queue is reordered accordingly.  The use case runs on the worker of the *)
(* executor, between two operations (MachineOperations), while monitoring  *)
(* goes on.  The call of the external system takes as long as it likes.    *)
(*                                                                         *)
(* The class has no caller in the application yet; a caller is modelled as *)
(* its header asks: it builds a request from a snapshot with the factory   *)
(* and submits it, later, for the version of the snapshot it sees then.    *)
(* (Slip...: see OperationExecutor.)                                       *)
(***************************************************************************)
EXTENDS MachineOperations, QueuePriorityCheck

CONSTANT Recipes   \* Recipes: functions from workpieces to the machining
                   \* instructions a caller may know

(* Workpieces have identifiers of a fixed width.                           *)
ASSUME CheckAssumption == IsFiniteSet(Workpieces)

VARIABLE check     \* the check: where it is, and what it knows

checkedVars == <<vars, check>>

NotChecked ==
    [step |-> "none", request |-> << >>, version |-> 0, queue |-> << >>,
     model |-> NoModel, document |-> << >>, plan |-> {}, outcome |-> "none",
     first |-> "none", writes |-> 0]

CheckInit == Init /\ check = NotChecked

(* The worker is inside Execute of the check.                              *)
Checking == check.step \notin {"none", "prepared", "submitted", "done"}

CheckProceed(step) == check' = [check EXCEPT !.step = step]

(* Execute returns an error; what it knew is gone.                         *)
CheckFail(code) ==
    check' = [NotChecked EXCEPT !.step = "done", !.outcome = code,
                                !.version = check.version, !.writes = check.writes]

(* RequireProfile and what follows when there is one.                      *)
WithProfile(step) ==
    IF ProfileError # "none" THEN CheckFail(ProfileError) ELSE CheckProceed(step)
-----------------------------------------------------------------------------
(* The caller lists workpieces of a snapshot, in any order and perhaps one *)
(* twice; the factory makes a request, or refuses, which leaves nothing    *)
(* behind.                                                                 *)
Listed(recipe, who) ==
    [i \in DOMAIN who |-> [id |-> who[i], priority |-> store.priority[who[i]],
                           instructions |-> recipe[who[i]]]]

PrepareCheck ==
    /\ check.step = "none"
    /\ session = "Resolved" /\ store # Nothing
    /\ \E recipe \in Recipes, n \in 0 .. Cardinality(Workpieces) :
       \E who \in [1 .. n -> DOMAIN store.priority] :
          LET list == Listed(recipe, who)
          IN  /\ RequestErrors(profile, list) = {}
              /\ check' = [check EXCEPT !.step = "prepared", !.request = Request(list)]
    /\ UNCHANGED vars

SubmitCheck ==
    /\ check.step = "prepared"
    /\ check' = [check EXCEPT !.step = "submitted", !.version = store.version]
    /\ UNCHANGED vars
-----------------------------------------------------------------------------
(* Execute: the profile first ...                                          *)
CheckRequireProfile ==
    /\ check.step = "submitted" /\ job.step = "idle"
    /\ WithProfile("validating")
    /\ UNCHANGED vars

(* ... then the snapshot, which is kept, and ValidateRequest.              *)
SnapshotError ==
    CASE store.version # check.version                    -> "Conflict"
      [] ~IsConnected(store.health) \/ ~store.fresh       -> "Unavailable"
      [] ~Covers(store.priority, check.request)           -> "Conflict"
      [] OTHER                                            -> "none"

CheckValidate ==
    /\ check.step = "validating"
    /\ IF SnapshotError # "none" THEN CheckFail(SnapshotError)
       ELSE check' = [check EXCEPT !.step = "serializing", !.queue = store.priority]
    /\ UNCHANGED vars

(* ComQueuePriorityCheckGateway::Check: the profile of the whole call, and *)
(* the request as JSON.                                                    *)
GatewaySerialize ==
    /\ check.step = "serializing"
    /\ IF ProfileError # "none" THEN CheckFail(ProfileError)
       ELSE LET errors == SerializeErrors(profile, check.request) IN
            \/ /\ errors = {}
               /\ check' = [check EXCEPT !.step = "sending", !.model = profile]
            \/ \E code \in errors : CheckFail(code)
    /\ UNCHANGED vars

(* ConfirmSameProfile.                                                     *)
ProfileChanged ==
    CASE ProfileError # "none"   -> ProfileError
      [] profile # check.model   -> "Conflict"
      [] OTHER                   -> "none"

ConfirmAt(here, next) ==
    /\ check.step = here
    /\ IF ProfileChanged # "none" THEN CheckFail(ProfileChanged) ELSE CheckProceed(next)
    /\ UNCHANGED vars

GatewayConfirmBefore == ConfirmAt("sending", "calling")

(* The external system: what it answers when it does as asked, for the     *)
(* tools it has, ...                                                       *)
Correct(executable) ==
    [i \in DOMAIN check.request |->
        LET w == check.request[i] IN
        [id |-> w.id, priority |-> w.priority, executable |-> w.id \in executable,
         tools |-> LET ts == SetToSeq(ToolsOf(w)) IN
                   [k \in DOMAIN ts |-> [tool |-> ts[k], total |-> Total(w, ts[k]),
                                         status |-> "Ok", hasRemainLife |-> TRUE]]]]

(* ... and what it may answer instead: results in another order, one too   *)
(* many or too few, one that is about something else or not complete.      *)
(* Only the answer that finds all executable is spoiled, to keep them few. *)
Spoiled(r) ==
    {[r EXCEPT !.id = w] : w \in Workpieces}
    \cup {[r EXCEPT !.priority = @ + 1], [r EXCEPT !.priority = 0]}
    \cup (IF r.tools = << >> THEN {} ELSE
          {[r EXCEPT !.tools = Tail(@)], [r EXCEPT !.tools = Append(@, Head(@))],
           [r EXCEPT !.tools[1].total = @ + 1],
           [r EXCEPT !.tools[1].hasRemainLife = FALSE],
           [r EXCEPT !.tools[1].hasRemainLife = FALSE, !.tools[1].status = "NotFound"]})

Asked == {check.request[i].id : i \in DOMAIN check.request}

Honest == {Correct(executable) : executable \in SUBSET Asked}

Botched(all) ==
    {Tail(all), Append(all, Head(all))}
    \cup {[all EXCEPT ![1] = r] : r \in Spoiled(all[1])}

Documents ==
    Honest \cup {Reverse(document) : document \in Honest}
    \cup (IF Asked = {} THEN {} ELSE Botched(Correct(Asked)))

(* IRawQueuePriorityCheckApi::Check: E_NOTIMPL is UnsupportedData, other   *)
(* failures are Unavailable; a null output is InvalidResponse.  An output  *)
(* that is no JSON of the contract fares like a document Parse refuses.    *)
GatewayCall ==
    /\ check.step = "calling"
    /\ \/ \E code \in {"UnsupportedData", "Unavailable", "InvalidResponse"} :
             CheckFail(code)
       \/ \E document \in Documents :
             check' = [check EXCEPT !.step = "answered", !.document = document]
    /\ UNCHANGED vars

GatewayConfirmAfter == ConfirmAt("answered", "parsing")

(* Parse.                                                                  *)
GatewayParse ==
    /\ check.step = "parsing"
    /\ IF Parses(check.model, check.document) THEN CheckProceed("parsed")
                                              ELSE CheckFail("InvalidResponse")
    /\ UNCHANGED vars

GatewayConfirmReturn == ConfirmAt("parsed", "planning")
-----------------------------------------------------------------------------
(* Execute, after the call: the snapshot must still be the same; then the  *)
(* plan.  An order that stays as it is is a success without a write.       *)
CheckPlan ==
    /\ check.step = "planning"
    /\ LET error == IF store.version # check.version THEN "Conflict"
                    ELSE PlanErrorOf(check.queue, check.request, check.document)
           order == Reordered(check.request, check.document)
           plan  == Assignments(order)
           first == IF order # << >> /\ IsExecutable(check.document, order[1].id)
                    THEN order[1].id ELSE "none"
       IN  IF error # "none" THEN CheckFail(error)
           ELSE check' = [check EXCEPT !.plan = plan, !.first = first,
                            !.step = IF plan = {} THEN "done" ELSE "planned",
                            !.outcome = IF plan = {} THEN "unchanged" ELSE "none"]
    /\ UNCHANGED vars

(* Slip: the profile is not asked for again.                               *)
SlipNoRecheck ==
    /\ check.step = "planned"
    /\ CheckProceed("writing")
    /\ UNCHANGED vars

CheckRecheckProfile ==
    /\ check.step = "planned"
    /\ WithProfile("writing")
    /\ UNCHANGED vars

(* The write, which the gateway treats like that of a move.                *)
CheckOperation == [kind |-> "move", version |-> check.version]

CheckWrite ==
    /\ check.step = "writing"
    /\ LET error == PriorityError(CheckOperation, check.plan) IN
           IF error # "none" THEN CheckFail(error) /\ UNCHANGED machineVars
           ELSE /\ machine' = Written(CheckOperation, check.plan)
                /\ check' = [check EXCEPT !.step = "reading", !.writes = @ + 1]
    /\ UNCHANGED <<sessionVars, monitorVars, operationVars>>

(* Slip: a change that is not shown is written again.                      *)
SlipWriteAgain ==
    /\ check.step = "reading"
    /\ IF Confirmed(CheckOperation, check.plan)
       THEN check' = [check EXCEPT !.step = "done", !.outcome = "changed"]
       ELSE CheckProceed("writing")
    /\ UNCHANGED vars

(* The Standard read back and VerifyReadback.                              *)
CheckReadBack ==
    /\ check.step = "reading"
    /\ IF Confirmed(CheckOperation, check.plan)
       THEN check' = [check EXCEPT !.step = "done", !.outcome = "changed"]
       ELSE CheckFail("InvalidResponse")
    /\ UNCHANGED vars

Check ==
    \/ CheckRequireProfile \/ CheckValidate
    \/ GatewaySerialize \/ GatewayConfirmBefore \/ GatewayCall
    \/ GatewayConfirmAfter \/ GatewayParse \/ GatewayConfirmReturn
    \/ CheckPlan \/ CheckRecheckProfile \/ CheckWrite \/ CheckReadBack

(* Everybody else; the worker is busy while it checks.                     *)
Others ==
    /\ \/ SynchronizeFrame
       \/ Monitoring
       \/ \E w \in Workpieces :
             \/ \E d \in {"up", "down"} : SubmitMove(w, d)
             \/ SubmitTransport(w)
       \/ ~Checking /\ Worker
    /\ UNCHANGED check

CheckNext == Others \/ PrepareCheck \/ SubmitCheck \/ Check

CheckSpec == CheckInit /\ [][CheckNext]_checkedVars
-----------------------------------------------------------------------------
(* What the external system said of a workpiece, wherever it said it.      *)
Says(w) == \E j \in DOMAIN check.document :
              check.document[j].id = w /\ check.document[j].executable

AskedAt(w) == (CHOOSE e \in ToSet(check.request) : e.id = w).priority

(* The position of a requested workpiece by counting who comes before it.  *)
Position(w) ==
    1 + Cardinality({v \in Asked :
                        \/ Says(v) /\ ~Says(w)
                        \/ Says(v) = Says(w) /\ AskedAt(v) < AskedAt(w)})

Successful == check.step = "done" /\ check.outcome \in {"changed", "unchanged"}

(* An answer is used only if it is about what was asked: the same          *)
(* workpieces at the same priorities with the same tools, and the total of *)
(* each tool is within the range of the code's integers.  A reordered      *)
(* answer is as good (Validate 71-144, Parse 376-515, Create 16-107).      *)
AnswerIsAboutRequest ==
    check.step \in {"planned", "writing", "reading"} \/ Successful =>
        LET TotalsOf(e) == {<<t, Total(e, t)>> : t \in ToolsOf(e)}
            Told(r) == {<<u.tool, u.total>> : u \in ToSet(r.tools)}
            asked == {<<e.id, e.priority, TotalsOf(e)>> : e \in ToSet(check.request)}
            told  == {<<r.id, r.priority, Told(r)>> : r \in ToSet(check.document)}
        IN  /\ asked = told
            /\ Len(check.document) = Len(check.request)
            /\ \A e \in ToSet(check.request) : \A t \in ToolsOf(e) :
                   Total(e, t) <= MaxUsage /\ t \in UsableTools[profile]

(* What the check reports is what it did: a changed order was written      *)
(* once, an unchanged one not at all and rightly so, and an error has      *)
(* written nothing unless it is InvalidResponse.  The workpiece offered    *)
(* for transport is the first one that can be executed (Execute 30-148).   *)
CheckReportMatchesEffect ==
    /\ check.writes \in {0, 1}
    /\ check.step = "done" =>
          /\ check.outcome = "changed" => check.writes = 1
          /\ check.outcome = "unchanged" =>
                /\ check.writes = 0
                /\ \A w \in Asked : Position(w) = AskedAt(w)
          /\ check.writes = 1 => check.outcome \in {"changed", "InvalidResponse"}
    /\ Successful =>
          IF \E w \in Asked : Says(w)
          THEN Says(check.first) /\ Position(check.first) = 1
          ELSE check.first = "none"

(* The new order is the one the answer asks for: every workpiece that      *)
(* moves was, on the machine, where the request said, and goes to the      *)
(* position that the answer gives it; the others keep theirs.  When the    *)
(* change is reported, the machine shows it (Plan 68-127, VerifyReadback). *)
QueueFollowsAnswer ==
    [][/\ check'.writes # check.writes =>
            \A w \in DOMAIN machine.priority \cup Asked :
               IF w \in Asked /\ Position(w) # AskedAt(w)
               THEN /\ w \in DOMAIN machine.priority
                    /\ machine.priority[w] = AskedAt(w)
                    /\ machine'.priority[w] = Position(w)
               ELSE w \in DOMAIN machine.priority =>
                       machine'.priority[w] = machine.priority[w]
       /\ check'.outcome = "changed" /\ check.outcome = "none" =>
            /\ IsFresh(machine.health)
            /\ \A w \in Asked : Position(w) # AskedAt(w) =>
                  w \in DOMAIN machine.priority /\ machine.priority[w] = Position(w)]_checkedVars

(* Once a mismatch is latched, neither is a call of the external system    *)
(* begun nor a write prepared: only what was already on its way arrives    *)
(* (ConfirmSameProfile 166-178, RequireProfile before the write 107-112).  *)
NothingBegunOnceLatched ==
    [][session = "MismatchLatched" /\ check'.step \in {"calling", "planning", "writing"}
          => check'.step = check.step]_checkedVars
=============================================================================
