------------------------- MODULE RequirementReport -------------------------
(***************************************************************************)
(* What a report says of a requirement: requirement_verification and       *)
(* publish_report (report.py) over the final checks of a run, next to the  *)
(* verdict of VerificationRunner.run (verification.py) and of the checker  *)
(* (verification_worker.py) on the same checks.  The verdict decides       *)
(* whether the run succeeds; the report is joined anew from the rows.      *)
(*                                                                         *)
(* Attempts at the delivery are one step each; their files are Delivery's, *)
(* their containers Verification's.                                        *)
(***************************************************************************)
EXTENDS Naturals

CONSTANTS Builds,        \* target["builds"]
          Checks,        \* acceptance["checks"]
          Mandatory,     \* the required ones
          Requirements,
          ReqIds,        \* the requirements that a check covers
          MaxAttempts    \* attempts at the delivery (a bound)

ASSUME AcceptanceAssumption ==
    /\ Builds # {} /\ Mandatory \subseteq Checks /\ Mandatory # {}
    /\ ReqIds \in [Checks -> (SUBSET Requirements) \ {{}}] /\ MaxAttempts \in Nat

VARIABLES final,        \* final_checks: the variants' results, or none
          evidenceKept, \* the evidence of final_checks is what was written
          inputsKept,   \* the inputs of the run are what they were
          runStatus,    \* of the run
          joined,       \* report.json
          delivered,    \* run.json records a delivery
          tries,        \* attempts at the delivery so far
          recorded,     \* the attempt that final is from (history)
          reportAt

reportVars == <<final, evidenceKept, inputsKept, runStatus, joined, delivered, tries, recorded, reportAt>>

-----------------------------------------------------------------------------
Outcomes == {"passed", "failed", "timeout"}
NoRows == [c \in {} |-> "passed"]

\* What is recorded of one variant: a row for every check or none, and what
\* went wrong apart from them, if anything: a complaint about the server or a
\* failure to stop it, a checker that did not end by itself, or an error that
\* run() has caught after it had read the rows.
Wrongs == {"nothing", "server", "checker", "error"}
Variants == [rows : [Checks -> Outcomes], wrong : Wrongs]
            \cup {[rows |-> NoRows, wrong |-> "nothing"]}

NoResult == [b \in {} |-> NoRows]
Verdicts == {"unverified", "failed", "incomplete", "scenarios_passed"}
NoReport == [status |-> "none", requirements |-> <<>>, current |-> TRUE]

ReportTypeOK ==
    /\ final \in [Builds -> Variants] \cup {NoResult}
    /\ {evidenceKept, inputsKept, delivered} \subseteq BOOLEAN
    /\ runStatus \in {"running", "success", "failed", "internal_error"}
    /\ joined.status \in {"none", "success", "failed"} /\ joined.current \in BOOLEAN
    /\ joined.requirements \in [Requirements -> Verdicts] \cup {<<>>}
    /\ tries \in 0..MaxAttempts /\ recorded \in 0..tries
    /\ reportAt \in {"deliver", "checked", "publish", "down"}

ReportInit ==
    /\ final = NoResult /\ evidenceKept = TRUE /\ inputsKept = TRUE
    /\ runStatus = "running" /\ joined = NoReport
    /\ delivered = FALSE /\ tries = 0 /\ recorded = 0 /\ reportAt = "deliver"

-----------------------------------------------------------------------------
(* The verdict of the verifier.                                            *)

Complete(v) == DOMAIN v.rows = Checks

\* The checker's own word: its exit code is 0 if it says so.
SaysPassed(v) == Complete(v) /\ \A c \in Mandatory : v.rows[c] = "passed"

VariantPassed(v) == SaysPassed(v) /\ v.wrong = "nothing"

Passed(result) == DOMAIN result # {} /\ \A b \in DOMAIN result : VariantPassed(result[b])

-----------------------------------------------------------------------------
(* requirement_verification.                                               *)

\* Mutant of RowStatus: the rows count, whatever became of the processes.
RowUnsupervised(result, c, b) ==
    IF b \notin DOMAIN result \/ ~Complete(result[b]) THEN "incomplete"
    ELSE IF result[b].rows[c] = "timeout" THEN "incomplete" ELSE result[b].rows[c]

\* A row needs a complete variant whose checker has ended by itself; it has
\* passed only if the server was supervised without a complaint.
RowStatus(result, c, b) ==
    IF b \notin DOMAIN result \/ ~Complete(result[b]) THEN "incomplete"
    ELSE LET v == result[b] IN
         IF v.wrong = "checker" \/ v.rows[c] = "timeout" THEN "incomplete"
         ELSE IF v.rows[c] = "passed" /\ v.wrong # "server" THEN "passed" ELSE "failed"

Scenarios(r) == {c \in Mandatory : r \in ReqIds[c]} \X Builds

RequirementStatus(result, r) ==
    LET rows == {RowStatus(result, s[1], s[2]) : s \in Scenarios(r)} IN
    IF rows = {} THEN "unverified"
    ELSE IF "failed" \in rows THEN "failed"
    ELSE IF rows # {"passed"} THEN "incomplete" ELSE "scenarios_passed"

\* With inputs that cannot be read the report has no requirements.
Report == [status |-> IF runStatus = "success" THEN "success" ELSE "failed",
           requirements |-> IF inputsKept THEN [r \in Requirements |-> RequirementStatus(final, r)]
                            ELSE <<>>,
           current |-> recorded = tries]

-----------------------------------------------------------------------------
Proceed(from, to) == reportAt = from /\ reportAt' = to

\* What was delivered before is only looked at again.
Attempt(to) ==
    /\ Proceed("deliver", to)
    /\ ~delivered /\ tries < MaxAttempts
    /\ tries' = tries + 1

\* The evidence is written before final_checks refers to it.
RecordChecks(result) == final' = result /\ evidenceKept' = TRUE /\ recorded' = tries'

Verify ==
    /\ Attempt("checked")
    /\ \E result \in [Builds -> Variants] : RecordChecks(result)
    /\ UNCHANGED <<inputsKept, runStatus, joined, delivered>>

\* The candidate lacks files, or its build fails: there is no verification.
ExportUnfit ==
    /\ Attempt("checked")
    /\ RecordChecks(NoResult)
    /\ UNCHANGED <<inputsKept, runStatus, joined, delivered>>

\* An error or an interrupt leaves final_checks as an earlier attempt wrote it.
AttemptRaises ==
    /\ Attempt("publish")
    /\ runStatus' = "failed"
    /\ UNCHANGED <<final, evidenceKept, inputsKept, joined, delivered, recorded>>

Succeed ==
    /\ \/ Proceed("checked", "publish") /\ Passed(final)
       \/ Proceed("deliver", "publish") /\ delivered
    /\ runStatus' = "success" /\ delivered' = TRUE
    /\ UNCHANGED <<final, evidenceKept, inputsKept, joined, tries, recorded>>

\* A failed attempt is repaired and repeated, or the repairs are spent; what
\* has passed may fail to be moved into place.
FailChecks ==
    /\ \/ Proceed("checked", "deliver") /\ ~Passed(final) /\ UNCHANGED runStatus
       \/ Proceed("checked", "publish") /\ runStatus' = "failed"
    /\ UNCHANGED <<final, evidenceKept, inputsKept, joined, delivered, tries, recorded>>

\* publish_report raises if the evidence has changed, or the inputs of a run
\* that succeeded; that is recorded as an internal error.
Refused == ~evidenceKept \/ (runStatus = "success" /\ ~inputsKept)

PublishJoined ==
    /\ Proceed("publish", "down") /\ ~Refused
    /\ joined' = Report
    /\ UNCHANGED <<final, evidenceKept, inputsKept, runStatus, delivered, tries, recorded>>

JoinedFails ==
    /\ Proceed("publish", "down") /\ Refused
    /\ runStatus' = "internal_error"
    /\ UNCHANGED <<final, evidenceKept, inputsKept, joined, delivered, tries, recorded>>

\* A run that succeeded is published again; another one goes on if its inputs
\* can be read, and ends at once (as invalid, here "failed") if not.
ResumeRun ==
    /\ \/ Proceed("down", "publish") /\ runStatus = "success" /\ UNCHANGED runStatus
       \/ Proceed("down", "deliver") /\ runStatus # "success" /\ inputsKept /\ runStatus' = "running"
       \/ Proceed("down", "publish") /\ runStatus # "success" /\ ~inputsKept /\ runStatus' = "failed"
    /\ UNCHANGED <<final, evidenceKept, inputsKept, joined, delivered, tries, recorded>>

\* A person changes the evidence or the inputs, or puts the inputs back, at a
\* time at which the next step reads them.
ChangeFiles ==
    /\ reportAt \in {"publish", "down"}
    /\ \/ evidenceKept' = FALSE /\ UNCHANGED inputsKept
       \/ inputsKept' = ~inputsKept /\ UNCHANGED evidenceKept
    /\ UNCHANGED <<final, runStatus, joined, delivered, tries, recorded, reportAt>>

ReportNext ==
    \/ Verify \/ ExportUnfit \/ AttemptRaises \/ Succeed \/ FailChecks
    \/ PublishJoined \/ JoinedFails \/ ResumeRun \/ ChangeFiles

ReportSpec == ReportInit /\ [][ReportNext]_reportVars

-----------------------------------------------------------------------------
(* Properties.                                                             *)

Verified == {r \in Requirements : Scenarios(r) # {}}
AllScenariosPassed(requirements) == \A r \in Verified : requirements[r] = "scenarios_passed"

\* A caught error after the rows were read is in the verdict only: the report
\* reads the rows and the server's end.
Unnoticed == \E b \in DOMAIN final : final[b].wrong = "error"

\* The report and the verifier, which join the same rows by different code,
\* agree: every requirement that has a mandatory check is reported as passed
\* exactly if the verifier let the candidate pass; a success is reported only
\* with all of them.
VerdictsAgree ==
    /\ ReportTypeOK
    /\ Passed(final) => \A r \in Verified : RequirementStatus(final, r) = "scenarios_passed"
    /\ (\A r \in Verified : RequirementStatus(final, r) = "scenarios_passed")
            => Passed(final) \/ Unnoticed
    /\ joined.status = "success" => /\ joined.requirements # <<>>
                                    /\ AllScenariosPassed(joined.requirements)

\* "Results of earlier attempts must not complete current evidence"
\* (system_design.md, section 6): what is reported as passed is of the attempt
\* that the run has ended with.
EvidenceIsCurrent ==
    joined.requirements # <<>> /\ AllScenariosPassed(joined.requirements) => joined.current
=============================================================================
