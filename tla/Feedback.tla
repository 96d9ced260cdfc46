------------------------------ MODULE Feedback ------------------------------
(***************************************************************************)
(* How a failure reaches the model: a result is projected (safe_feedback,  *)
(* verification.py), published as evidence (run_store.py), cut down to a   *)
(* view and routed (publish_feedback, _feedback_view, session.py), and     *)
(* restored from the evidence by a later controller.  One task, the final  *)
(* integration, and the delivery that sends it back for repair.            *)
(*                                                                         *)
(* A check is told by its variant and its id; what the projection takes    *)
(* from a row besides (observations, locations) is left out.  What a       *)
(* request has besides the latest diagnostic is CodingContext's.           *)
(***************************************************************************)
EXTENDS Naturals, Sequences

CONSTANTS Rows,        \* the checks of both variants
          MaxResults   \* results of the run (a bound)

ASSUME FeedbackAssumption == MaxResults \in Nat

VARIABLES published,  \* agent-evidence/: published results, one per file
          raw,        \* the result in hand
          diagnostic, \* latest_diagnostic, a view
          reason,     \* repair_reason
          saved,      \* of last_feedback in run.json: the diagnostic, the reason
          request,    \* of the last request: the diagnostic, the reason
          taskPassed, \* the task is accepted
          exportResult, \* final_checks of run.json: what the last delivery came to
          repairing,  \* the session was opened for a repair, by this controller
          known,      \* the failure and the gate that the session was given or met last (history)
          stored,     \* those that were known at the last save (history)
          sessionAt

context == <<diagnostic, reason>>
repair == <<exportResult, repairing>>
histories == <<known, stored>>
feedbackVars == <<published, raw, context, saved, request, taskPassed, repair, histories, sessionAt>>

-----------------------------------------------------------------------------
(* Results.                                                                *)

Reasons == {"none", "build_repair", "private_acceptance_repair", "tool_failure_repair"}

\* What a build, a verification or a tool came to; "verification" is a key of
\* the result, absent, null, or with the checks that failed; the public text is
\* big above 20000 characters.
Result(ok, error, build, verification, failing) ==
    [ok : {ok}, error : {error}, build : {build}, verification : {verification},
     failing : failing, big : BOOLEAN]

SomeRows == (SUBSET Rows) \ {{}}

Finished == Result(TRUE, FALSE, "passed", "present", {{}})
FinishFailed == Result(FALSE, FALSE, "failed", "absent", {{}})
                \cup Result(FALSE, FALSE, "passed", "present", SomeRows)
ToolResults == Result(TRUE, FALSE, "absent", "absent", {{}})    \* a file, a command
               \cup Result(FALSE, FALSE, "absent", "absent", {{}})   \* returncode, timed_out
\* A refused claim, a path outside the project: the public message is short.
ActionErrors == {r \in Result(FALSE, TRUE, "absent", "absent", {{}}) : ~r.big}

\* In a delivery the key is there from the start.
Unfit == {r \in Result(FALSE, TRUE, "absent", "absent", {{}}) : ~r.big}
ExportFailed == Result(FALSE, FALSE, "failed", "null", {{}})
                \cup Result(FALSE, FALSE, "passed", "present", SomeRows)

AllResults == Finished \cup FinishFailed \cup ToolResults \cup ActionErrors \cup ExportFailed

-----------------------------------------------------------------------------
(* Views.                                                                  *)

NoView == [ref |-> 0, shape |-> "full", failing |-> {}]

\* Mutant of View: a text that is too long is cut, whatever it says.
ViewCut(public, ref) ==
    IF public.big THEN [ref |-> ref, shape |-> "excerpt", failing |-> {}]
    ELSE [ref |-> ref, shape |-> "full", failing |-> public.failing]

\* What is too long keeps its failing checks, or is cut if it has no verification.
View(public, ref) ==
    IF ~public.big THEN [ref |-> ref, shape |-> "full", failing |-> public.failing]
    ELSE IF public.verification = "present"
         THEN [ref |-> ref, shape |-> "failures", failing |-> public.failing]
         ELSE [ref |-> ref, shape |-> "excerpt", failing |-> {}]

\* {**public['verification']} of a null.
ViewRaises(public) == public.big /\ public.verification = "null"

Latest == Len(published)

FeedbackTypeOK ==
    /\ published \in Seq(AllResults) /\ Latest <= MaxResults
    /\ raw \in AllResults
    /\ {diagnostic.ref, request.diagnostic.ref, saved.ref} \subseteq 0..MaxResults
    /\ diagnostic.failing \subseteq Rows
    /\ {reason, saved.reason, known.gate} \subseteq Reasons
    /\ {taskPassed, repairing} \subseteq BOOLEAN
    /\ sessionAt \in {"request", "act", "publish", "record", "save", "deliver", "repair", "hand",
                      "open", "down", "done", "error"}

-----------------------------------------------------------------------------
Nothing == CHOOSE r \in ToolResults : r.ok /\ ~r.big

FeedbackInit ==
    /\ published = <<>> /\ raw = Nothing
    /\ diagnostic = NoView /\ reason = "none"
    /\ saved = [ref |-> 0, reason |-> "none"]
    /\ request = [diagnostic |-> NoView, reason |-> "none"]
    /\ taskPassed = FALSE
    /\ exportResult = Nothing /\ repairing = FALSE
    /\ known = [failure |-> Nothing, gate |-> "none"] /\ stored = known
    /\ sessionAt = "request"

Move(from, to) == sessionAt = from /\ sessionAt' = to

Send ==
    /\ Move("request", "act")
    /\ request' = [diagnostic |-> diagnostic, reason |-> reason]
    /\ UNCHANGED <<published, raw, context, saved, taskPassed, repair, histories>>

Act ==
    /\ Move("act", "publish") /\ Latest < MaxResults
    /\ raw' \in Finished \cup FinishFailed \cup ToolResults \cup ActionErrors
    /\ UNCHANGED <<published, context, saved, request, taskPassed, repair, histories>>

\* publish_agent_evidence: a new file, on the disk before anything refers to it.
PublishAs(from, to) ==
    /\ Move(from, to)
    /\ published' = Append(published, raw)
    /\ UNCHANGED <<raw, context, saved, request, taskPassed, repair, histories>>

PublishFeedback == PublishAs("publish", "record")

\* The gate that failed last, of a finish or of a command.
GateOf(r) ==
    IF r.ok \/ r.error THEN "none"
    ELSE IF r.build = "failed" THEN "build_repair"
    ELSE IF r.verification = "present" THEN "private_acceptance_repair"
    ELSE "tool_failure_repair"

\* An error, of a command, a build or a verification, is of the gate it was at.
Gates(r) == IF r.error THEN Reasons ELSE {GateOf(r)}

\* CodingContext.record: every finish and every failure is the new diagnostic.
IsDiagnostic(r) == ~r.ok \/ r.build # "absent"

Known(r, g) ==
    known' = [failure |-> IF IsDiagnostic(r) THEN r ELSE known.failure,
              gate |-> IF g = "none" THEN known.gate ELSE g]

RecordFeedback ==
    /\ Move("record", "save")
    /\ \E g \in Gates(raw) :
        /\ reason' = IF g = "none" THEN reason ELSE g
        /\ Known(raw, g)
    /\ diagnostic' = IF IsDiagnostic(raw) THEN View(raw, Latest) ELSE diagnostic
    /\ UNCHANGED <<published, raw, saved, request, taskPassed, repair, stored>>

\* last_feedback; a gate that has passed is followed by acceptance.
SaveFeedback ==
    /\ sessionAt = "save" /\ sessionAt' = IF raw \in Finished THEN "deliver" ELSE "request"
    /\ taskPassed' = (raw \in Finished) /\ repairing' = (repairing /\ raw \notin Finished)
    /\ saved' = [ref |-> diagnostic.ref, reason |-> reason] /\ stored' = known
    /\ UNCHANGED <<published, raw, context, request, exportResult, known>>

-----------------------------------------------------------------------------
(* The delivery, and the repair session it asks for.                       *)

DeliveryPasses ==
    /\ Move("deliver", "done")
    /\ UNCHANGED <<published, raw, context, saved, request, taskPassed, repair, histories>>

DeliveryFails ==
    /\ Move("deliver", "repair") /\ Latest < MaxResults
    /\ raw' \in Unfit \cup ExportFailed /\ exportResult' = raw'
    /\ UNCHANGED <<published, context, saved, request, taskPassed, repairing, histories>>

PublishRepair == PublishAs("repair", "hand")

\* The TypeError is an internal error of the run, not a repair.
HandRaises ==
    /\ Move("hand", "error") /\ ViewRaises(raw)
    /\ UNCHANGED <<published, raw, context, saved, request, taskPassed, repair, histories>>

\* publish_feedback's own reason; an export without sources counts as a build.
RouteOf(r) == IF r.error THEN "build_repair" ELSE GateOf(r)

Hand ==
    /\ Move("hand", "open") /\ ~ViewRaises(raw)
    /\ diagnostic' = View(raw, Latest)
    /\ reason' = RouteOf(raw) /\ Known(raw, RouteOf(raw))
    /\ UNCHANGED <<published, raw, saved, request, taskPassed, repair, stored>>

\* The first save of the repair session has the feedback it was given.
OpenRepair ==
    /\ Move("open", "request")
    /\ taskPassed' = FALSE /\ repairing' = TRUE
    /\ saved' = [ref |-> diagnostic.ref, reason |-> reason] /\ stored' = known
    /\ UNCHANGED <<published, raw, context, request, exportResult, known>>

\* The decisions of the repair session are spent and the task has not passed:
\* there is no delivery, and the next repair is given the last export's result.
RepairEnds ==
    /\ Move("request", "repair") /\ repairing /\ Latest < MaxResults
    /\ raw' = exportResult /\ repairing' = FALSE
    /\ UNCHANGED <<published, context, saved, request, taskPassed, exportResult, histories>>

-----------------------------------------------------------------------------
SessionDies ==
    /\ sessionAt \notin {"down", "done", "error"} /\ sessionAt' = "down" /\ repairing' = FALSE
    /\ UNCHANGED <<published, raw, context, saved, request, taskPassed, exportResult, histories>>

\* The evidence that run.json refers to is read again and viewed again.
ResumeSession ==
    /\ sessionAt \in {"down", "error"} /\ sessionAt' = IF taskPassed THEN "deliver" ELSE "request"
    /\ diagnostic' = IF saved.ref = 0 THEN NoView ELSE View(published[saved.ref], saved.ref)
    /\ reason' = saved.reason
    /\ known' = stored
    /\ UNCHANGED <<published, raw, saved, request, taskPassed, repair, stored>>

FeedbackNext ==
    \/ Send \/ Act \/ PublishFeedback \/ RecordFeedback \/ SaveFeedback
    \/ DeliveryPasses \/ DeliveryFails \/ PublishRepair \/ HandRaises \/ Hand \/ OpenRepair
    \/ RepairEnds \/ SessionDies \/ ResumeSession

FeedbackSpec == FeedbackInit /\ [][FeedbackNext]_feedbackVars

-----------------------------------------------------------------------------
(* Properties.                                                             *)

\* Whatever crashes, resumptions, failed deliveries and failed repairs came in
\* between, a request shows every check of both variants that failed in the
\* failure that its session was given or has met last, however long its text is,
\* and goes to the model that the gate given or failed last asks for.  That what
\* a session is given is the latest failure of the run is LatestIsGiven.
EveryFailureShown ==
    /\ FeedbackTypeOK
    /\ sessionAt = "act" =>
        /\ request.diagnostic.failing = known.failure.failing
        /\ request.diagnostic.shape = "excerpt" => known.failure.verification # "present"
        /\ request.reason = known.gate

\* A candidate whose final checks fail gets its bounded repair
\* (system_design.md, section 5): no failure is too long for that.
RepairIsTried == sessionAt # "error"

\* A retry carries the real diagnostic (system_design.md:133): the repair after
\* an unsuccessful repair is given the checks that failed in that one.
LatestIsGiven == [][RepairEnds => raw'.failing = known.failure.failing]_feedbackVars
=============================================================================
