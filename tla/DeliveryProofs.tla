--------------------------- MODULE DeliveryProofs ---------------------------
(***************************************************************************)
(* Theorems about Delivery, for every number of repairs and trees and      *)
(* every combination of crashes, interrupts and edits by a person; about   *)
(* RequirementReport, for every set of builds, checks and requirements;    *)
(* and about Feedback, for every set of checks and number of results.      *)
(***************************************************************************)
EXTENDS Delivery, RequirementReport, Feedback, TLAPS

Checked(run) ==
    run.delivery # NoDelivery => run.checks = [tree |-> run.delivery.files, passed |-> TRUE]

\* The points at which no delivery is recorded yet.
Exporting == {"copy", "check", "checked", "move", "record", "repair", "mend"}

\* What the checks of the run are about while it is exported.
TreesVerified ==
    /\ pc = "checked" => mem.checks.tree = candidate
    /\ pc = "move" => mem.checks = [tree |-> candidate, passed |-> TRUE]
    /\ pc = "record" => mem.checks = [tree |-> destination, passed |-> TRUE]

\* A delivery in run.json is the one the controller knows, and whoever says
\* success, in run.json, the dictionary or a report, means that delivery.
IInv ==
    /\ TypeOK
    /\ Checked(disk) /\ Checked(mem)
    /\ disk.delivery # NoDelivery => mem.delivery = disk.delivery /\ mem.checks = disk.checks
    /\ \A run \in {disk, mem, report, public} :
          run.status = "success" => disk.delivery # NoDelivery /\ run.delivery = disk.delivery
    /\ pc \in Exporting => mem.delivery = NoDelivery
    /\ pc = "deliver" => mem.delivery = disk.delivery
    /\ pc = "delivered" => mem.delivery # NoDelivery
    /\ TreesVerified

USE RepairsAssumption DEF files, reports, Goto, None

-----------------------------------------------------------------------------
LEMMA InitType == Init => TypeOK
<1>1. NewRun \in RunRecords
    BY DEF NewRun, RunRecords, Statuses, NoChecks, NoDelivery
<1> QED
    BY <1>1 DEF Init, TypeOK, Trees

LEMMA StepType == TypeOK /\ [Next]_vars => TypeOK'
<1> SUFFICES ASSUME TypeOK, [Next]_vars PROVE TypeOK'
    OBVIOUS
<1>1. trees \in Nat /\ (trees < MaxTrees + 1 => trees + 1 \in Trees)
    BY DEF TypeOK, Trees
<1> USE DEF TypeOK, Outcome
<1>2. CASE Resume \/ ReportAgain \/ PublicAgain \/ AgainFails \/ RefuseDrift \/ Recover
    BY <1>2 DEF Resume, ReportAgain, PublicAgain, AgainFails, RefuseDrift, Recover, RunRecords, Statuses
<1>3. CASE Redeliver \/ SetAside \/ CopyProject
    BY <1>3 DEF Redeliver, SetAside, CopyProject, RunRecords, Statuses
<1>4. CASE Check \/ SaveChecks
    BY <1>4 DEF Check, SaveChecks, RunRecords
<1>5. CASE MoveIntoPlace \/ RecordDelivery \/ SaveDelivery
    BY <1>5 DEF MoveIntoPlace, RecordDelivery, SaveDelivery, RunRecords, Statuses
<1>6. CASE CountRepair \/ RepairFails \/ GiveUp
    BY <1>6 DEF CountRepair, RepairFails, GiveUp, RunRecords, Statuses
<1>7. CASE Mend
    BY <1>1, <1>7 DEF Mend
<1>8. CASE Publish \/ PublishPublic \/ PublicationFails \/ Close \/ Crash
    BY <1>8 DEF Publish, PublishPublic, PublicationFails, Close, Crash, RunRecords, Statuses
<1>9. CASE Interrupt
    BY <1>9 DEF Interrupt, RunRecords, Statuses
<1>10. CASE Person
    BY <1>1, <1>10 DEF Person, EditProject, EditDelivery
<1>11. CASE UNCHANGED vars
    BY <1>11 DEF vars
<1> QED
    BY <1>2, <1>3, <1>4, <1>5, <1>6, <1>7, <1>8, <1>9, <1>10, <1>11 DEF Next

LEMMA InitInv == Init => IInv
<1> SUFFICES ASSUME Init PROVE IInv
    OBVIOUS
<1>1. TypeOK
    BY InitType
<1> QED
    BY <1>1 DEF Init, IInv, NewRun, NoDelivery, Checked, Exporting, TreesVerified

LEMMA StepInv == IInv /\ [Next]_vars => IInv'
<1> SUFFICES ASSUME IInv, [Next]_vars PROVE IInv'
    OBVIOUS
<1>t. TypeOK /\ TypeOK' /\ disk \in RunRecords /\ mem \in RunRecords /\ accepted \in Nat \ {0}
    BY StepType DEF IInv, TypeOK, Trees
<1>1. ASSUME NEW status, Outcome(pc, status), pc # "down",
             status = "success" => mem.delivery # NoDelivery /\ mem.delivery = disk.delivery
      PROVE  IInv'
  <2>1. /\ mem'.status = status /\ mem'.delivery = mem.delivery /\ mem'.checks = mem.checks
        /\ disk' = disk /\ report' = report /\ public' = public /\ pc' = "publish"
      BY <1>t, <1>1 DEF Outcome, RunRecords
  <2> QED
      BY <1>t, <1>1, <2>1 DEF IInv, Checked, Exporting, TreesVerified
<1>2. CASE Resume \/ ReportAgain \/ PublicAgain
    BY <1>t, <1>2 DEF Resume, ReportAgain, PublicAgain, IInv, Checked, Exporting, TreesVerified
<1>3. CASE AgainFails \/ RefuseDrift \/ GiveUp
    BY <1>1, <1>3 DEF AgainFails, RefuseDrift, GiveUp, Outcome
<1>4. CASE Redeliver
    BY <1>1, <1>4 DEF Redeliver, Outcome, IInv
<1>5. CASE Recover \/ CountRepair
  <2>1. /\ mem'.status # "success" /\ mem'.delivery = mem.delivery /\ mem'.checks = mem.checks
        /\ disk' = mem' /\ report' = report /\ public' = public
        /\ \/ pc = "begin" /\ pc' = "deliver"
           \/ pc = "repair" /\ pc' = "mend" /\ mem.delivery = NoDelivery
    <3>1. CASE Recover
        BY <1>t, <3>1 DEF Recover, RunRecords
    <3>2. CASE CountRepair
      <4>1. mem.delivery = NoDelivery /\ disk.delivery = NoDelivery
          BY <3>2 DEF CountRepair, IInv, Exporting
      <4> QED
          BY <1>t, <3>2, <4>1 DEF CountRepair, RunRecords, IInv
    <3> QED
        BY <1>5, <3>1, <3>2
  <2> QED
      BY <1>t, <2>1 DEF IInv, Checked, Exporting, TreesVerified
<1>6. CASE SetAside \/ CopyProject \/ Mend \/ RepairFails
    BY <1>t, <1>6 DEF SetAside, CopyProject, Mend, RepairFails, IInv, Checked, Exporting, TreesVerified
<1>7. CASE Check
  <2>1. PICK passed \in BOOLEAN : mem' = [mem EXCEPT !.checks = [tree |-> candidate, passed |-> passed]]
      BY <1>7 DEF Check
  <2>2. /\ mem'.checks.tree = candidate /\ mem'.delivery = mem.delivery /\ mem'.status = mem.status
        /\ pc = "check" /\ pc' = "checked" /\ UNCHANGED <<candidate, disk, report, public>>
      BY <1>t, <1>7, <2>1 DEF Check, RunRecords
  <2>3. mem.delivery = NoDelivery /\ disk.delivery = NoDelivery /\ mem.status # "success"
      BY <2>2 DEF IInv, Exporting
  <2> QED
      BY <1>t, <2>2, <2>3 DEF IInv, Checked, Exporting, TreesVerified
<1>8. CASE SaveChecks
  <2>1. /\ mem.delivery = NoDelivery /\ disk.delivery = NoDelivery /\ mem.status # "success"
        /\ mem.checks.tree = candidate
      BY <1>8 DEF SaveChecks, IInv, Exporting, TreesVerified
  <2>2. pc' = "move" => mem.checks = [tree |-> candidate, passed |-> TRUE]
      BY <1>t, <1>8, <2>1 DEF SaveChecks, RunRecords
  <2> QED
      BY <1>t, <1>8, <2>1, <2>2 DEF SaveChecks, IInv, Checked, Exporting, TreesVerified
<1>9. CASE MoveIntoPlace
    BY <1>t, <1>9 DEF MoveIntoPlace, IInv, Checked, Exporting, TreesVerified
<1>10. CASE RecordDelivery
  <2>1. /\ mem'.delivery.files = destination /\ mem'.checks = mem.checks /\ mem'.status = mem.status
        /\ pc = "record" /\ pc' = "delivered" /\ UNCHANGED <<disk, report, public>>
        /\ mem'.delivery # NoDelivery
      BY <1>t, <1>10 DEF RecordDelivery, RunRecords, NoDelivery
  <2>2. mem.delivery = NoDelivery /\ disk.delivery = NoDelivery /\ mem.status # "success"
      BY <2>1 DEF IInv, Exporting
  <2> QED
      BY <1>t, <2>1, <2>2 DEF IInv, Checked, Exporting, TreesVerified
<1>11. CASE SaveDelivery
  <2>1. /\ disk' = mem /\ mem'.delivery = mem.delivery /\ mem'.checks = mem.checks
        /\ mem'.status = "success" /\ pc = "delivered" /\ pc' = "publish" /\ UNCHANGED <<report, public>>
      BY <1>t, <1>11 DEF SaveDelivery, RunRecords
  <2>2. mem.delivery # NoDelivery
      BY <1>11 DEF SaveDelivery, IInv
  <2> QED
      BY <1>t, <2>1, <2>2 DEF IInv, Checked, Exporting, TreesVerified
<1>12. CASE Publish \/ PublishPublic \/ Close \/ Crash
    BY <1>t, <1>12 DEF Publish, PublishPublic, Close, Crash, IInv, Checked, Exporting, TreesVerified
<1>13. CASE PublicationFails
  <2>1. /\ mem'.status = "internal_error" /\ mem'.delivery = mem.delivery /\ mem'.checks = mem.checks
        /\ pc' = "close" /\ UNCHANGED <<disk, report, public>>
      BY <1>t, <1>13 DEF PublicationFails, RunRecords
  <2> QED
      BY <1>t, <2>1 DEF IInv, Checked, Exporting, TreesVerified
<1>14. CASE Interrupt
  <2>1. CASE pc # "down" /\ Outcome(pc, "stopped")
      BY <1>1, <2>1
  <2>2. CASE /\ pc' = "close" /\ mem' = [mem EXCEPT !.status = "internal_error"]
             /\ UNCHANGED <<disk, report, public>>
    <3>1. mem'.status = "internal_error" /\ mem'.delivery = mem.delivery /\ mem'.checks = mem.checks
        BY <1>t, <2>2 DEF RunRecords
    <3> QED
        BY <1>t, <2>2, <3>1 DEF IInv, Checked, Exporting, TreesVerified
  <2> QED
      BY <1>14, <2>1, <2>2 DEF Interrupt
<1>15. CASE Person
    BY <1>t, <1>15 DEF Person, EditProject, EditDelivery, IInv, Checked, Exporting, TreesVerified
<1>16. CASE UNCHANGED vars
    BY <1>t, <1>16 DEF vars, IInv, Checked, Exporting, TreesVerified
<1> QED
    BY <1>2, <1>3, <1>4, <1>5, <1>6, <1>7, <1>8, <1>9, <1>10, <1>11, <1>12, <1>13, <1>14, <1>15, <1>16
    DEF Next

-----------------------------------------------------------------------------
\* Under all faults a published success is a recorded delivery whose very files
\* passed the final checks, and every recorded delivery has passed them.
THEOREM Delivers == Spec => []SuccessIsReal
<1>1. IInv => SuccessIsReal
    BY DEF IInv, Checked, SuccessIsReal, ReportedSuccessIsReal, DeliveryWasChecked
<1> QED
    BY <1>1, InitInv, StepInv, PTL DEF Spec

Kept ==
    /\ \/ attempts \cup {candidate, destination} \subseteq attempts' \cup {candidate', destination', None}
       \/ pc = "down"
    /\ disk.delivery # NoDelivery => disk'.delivery = disk.delivery
    /\ \A r \in {report'} : r # report /\ r.status = "success" => destination = r.delivery.files

LEMMA StepKeeps == IInv /\ [Next]_vars => [Kept]_vars
<1> SUFFICES ASSUME IInv, Next PROVE Kept
    OBVIOUS
<1>t. disk \in RunRecords /\ mem \in RunRecords
    BY DEF IInv, TypeOK
<1>1. \/ attempts \cup {candidate, destination} \subseteq attempts' \cup {candidate', destination', None}
      \/ pc = "down"
    BY DEF Next, Resume, ReportAgain, PublicAgain, AgainFails, RefuseDrift, Recover, Redeliver, SetAside,
       CopyProject, Check, SaveChecks, MoveIntoPlace, RecordDelivery, SaveDelivery, CountRepair, Mend,
       RepairFails, GiveUp, Publish, PublishPublic, PublicationFails, Close, Crash, Interrupt, Person,
       EditProject, EditDelivery, Outcome
<1>2. disk.delivery # NoDelivery => disk'.delivery = disk.delivery
  <2>1. CASE SaveDelivery \/ SaveChecks \/ Close
      BY <2>1 DEF SaveDelivery, SaveChecks, Close, IInv
  <2>2. CASE Recover \/ CountRepair
    <3>1. disk'.delivery = mem.delivery
        BY <1>t, <2>2 DEF Recover, CountRepair, RunRecords
    <3> QED
        BY <3>1 DEF IInv
  <2>3. CASE UNCHANGED disk
      BY <2>3
  <2> QED
      BY <2>1, <2>2, <2>3
      DEF Next, Resume, ReportAgain, PublicAgain, AgainFails, RefuseDrift, Redeliver, SetAside,
          CopyProject, Check, MoveIntoPlace, RecordDelivery, Mend, RepairFails, GiveUp, Publish,
          PublishPublic, PublicationFails, Crash, Interrupt, Person, Outcome
<1>3. ASSUME report' # report, report'.status = "success" PROVE destination = report'.delivery.files
  <2>1. report' = mem /\ Intact
      BY <1>3 DEF Next, Resume, ReportAgain, PublicAgain, AgainFails, RefuseDrift, Recover, Redeliver,
         SetAside, CopyProject, Check, SaveChecks, MoveIntoPlace, RecordDelivery, SaveDelivery,
         CountRepair, Mend, RepairFails, GiveUp, Publish, PublishPublic, PublicationFails, Close, Crash,
         Interrupt, Person, Outcome
  <2>2. mem.delivery # NoDelivery
      BY <1>3, <2>1 DEF IInv
  <2> QED
      BY <2>1, <2>2 DEF Intact
<1> QED
    BY <1>1, <1>2, <1>3 DEF Kept

\* Under all faults no controller destroys an exported tree, a delivery is
\* recorded once and for all, and a success is reported only of what was checked.
THEOREM KeepsExports == Spec => ExportsKept
  BY InitInv, StepInv, StepKeeps, PTL DEF Spec, ExportsKept, Kept

-----------------------------------------------------------------------------
(* The report on requirements.                                             *)

\* A candidate that the verifier lets pass has a row for every scenario, and
\* every row has passed.
LEMMA PassedIsReported ==
    ASSUME final \in [Builds -> Variants] \cup {NoResult}, Passed(final), NEW r \in Verified
    PROVE  RequirementStatus(final, r) = "scenarios_passed"
<1> DEFINE rows == {RowStatus(final, s[1], s[2]) : s \in Scenarios(r)}
<1>1. ASSUME NEW s \in Scenarios(r) PROVE RowStatus(final, s[1], s[2]) = "passed"
  <2>1. s[1] \in Mandatory /\ s[2] \in Builds
      BY DEF Scenarios
  <2>2. DOMAIN final = Builds
      BY DEF Passed, NoResult
  <2>3. VariantPassed(final[s[2]])
      BY <2>1, <2>2 DEF Passed
  <2> QED
      BY <2>1, <2>2, <2>3 DEF RowStatus, VariantPassed, SaysPassed
<1>2. Scenarios(r) # {}
    BY DEF Verified
<1>3. rows = {"passed"}
    BY <1>1, <1>2
<1> QED
    BY <1>3 DEF RequirementStatus

LEMMA CoversSome ==
    \A c \in Mandatory : ReqIds[c] # {} /\ ReqIds[c] \subseteq Requirements
<1> TAKE c \in Mandatory
<1>1. c \in Checks
    BY AcceptanceAssumption
<1>2. ReqIds[c] \in (SUBSET Requirements) \ {{}}
    BY <1>1, AcceptanceAssumption
<1> QED
    BY <1>2

\* If every requirement with a scenario is reported as passed, every mandatory
\* row of every variant has passed, and no variant was ended or complained.
LEMMA ReportedHasPassed ==
    ASSUME final \in [Builds -> Variants] \cup {NoResult},
           \A r \in Verified : RequirementStatus(final, r) = "scenarios_passed"
    PROVE  Passed(final) \/ Unnoticed
<1>1. ASSUME NEW c \in Mandatory, NEW b \in Builds
      PROVE  RowStatus(final, c, b) = "passed"
  <2>1. PICK r \in ReqIds[c] : r \in Requirements
      BY CoversSome
  <2>2. <<c, b>> \in Scenarios(r)
      BY <2>1 DEF Scenarios
  <2> DEFINE rows == {RowStatus(final, s[1], s[2]) : s \in Scenarios(r)}
  <2>3. r \in Verified
      BY <2>1, <2>2 DEF Verified
  <2>4. RequirementStatus(final, r) = "scenarios_passed"
      BY <2>3
  <2>5. rows = {"passed"}
      BY <2>4 DEF RequirementStatus
  <2>6. RowStatus(final, <<c, b>>[1], <<c, b>>[2]) \in rows
      BY <2>2
  <2> QED
      BY <2>5, <2>6
<1>2. ASSUME NEW b \in Builds PROVE b \in DOMAIN final /\ (VariantPassed(final[b]) \/ final[b].wrong = "error")
  <2>1. \A c \in Mandatory : /\ b \in DOMAIN final /\ Complete(final[b]) /\ final[b].rows[c] = "passed"
                            /\ final[b].wrong \notin {"checker", "server"}
      BY <1>1 DEF RowStatus
  <2>2. b \in DOMAIN final /\ SaysPassed(final[b]) /\ final[b].wrong \notin {"checker", "server"}
      BY <2>1, AcceptanceAssumption DEF SaysPassed
  <2>3. final \in [Builds -> Variants]
      BY <2>2 DEF NoResult
  <2>4. final[b].wrong \in Wrongs
    <3>1. final[b] \in Variants
        BY <2>3
    <3> QED
        BY <3>1 DEF Variants, Wrongs
  <2> QED
      BY <2>2, <2>4 DEF VariantPassed, Wrongs
<1>3. DOMAIN final = Builds
    BY <1>2, AcceptanceAssumption DEF NoResult
<1> QED
    BY <1>2, <1>3, AcceptanceAssumption DEF Passed, Unnoticed

\* What a success has behind it: the verifier's verdict on the checks that the
\* report reads.
ReportInv ==
    /\ ReportTypeOK
    /\ delivered => Passed(final)
    /\ runStatus = "success" => delivered
    /\ reportAt = "checked" => ~delivered
    /\ joined.status = "success" => joined.requirements # <<>> /\ AllScenariosPassed(joined.requirements)

LEMMA ReportInvInit == ReportInit => ReportInv
<1> SUFFICES ASSUME ReportInit PROVE ReportInv
    OBVIOUS
<1>1. joined.status = "none" /\ joined.requirements = <<>> /\ joined.current = TRUE
    BY DEF ReportInit, NoReport
<1>2. /\ tries = 0 /\ recorded = 0 /\ final = NoResult /\ delivered = FALSE /\ evidenceKept = TRUE
      /\ inputsKept = TRUE /\ runStatus = "running" /\ reportAt = "deliver"
    BY DEF ReportInit
<1>3. ReportTypeOK
  <2>1. tries \in 0..MaxAttempts /\ recorded \in 0..tries
      BY <1>2, AcceptanceAssumption
  <2>2. {evidenceKept, inputsKept, delivered} \subseteq BOOLEAN
      BY <1>2
  <2> QED
      BY <1>1, <1>2, <2>1, <2>2 DEF ReportTypeOK
<1> QED
    BY <1>1, <1>2, <1>3 DEF ReportInit, ReportInv

LEMMA StatusesAreVerdicts ==
    ASSUME NEW r PROVE RequirementStatus(final, r) \in Verdicts
  BY DEF RequirementStatus, Verdicts

LEMMA ReportInvStep == ReportInv /\ [ReportNext]_reportVars => ReportInv'
<1> SUFFICES ASSUME ReportInv, [ReportNext]_reportVars PROVE ReportInv'
    OBVIOUS
<1> USE DEF Proceed
<1>t. /\ tries \in Nat /\ recorded \in Nat /\ final \in [Builds -> Variants] \cup {NoResult}
      /\ MaxAttempts \in Nat
    BY AcceptanceAssumption DEF ReportInv, ReportTypeOK
<1>1. CASE Verify \/ ExportUnfit
  <2>1. /\ reportAt' = "checked" /\ reportAt = "deliver" /\ ~delivered /\ tries < MaxAttempts
        /\ tries' = tries + 1 /\ recorded' = tries' /\ evidenceKept' = TRUE
        /\ final' \in [Builds -> Variants] \cup {NoResult}
        /\ UNCHANGED <<inputsKept, runStatus, joined, delivered>>
      BY <1>1 DEF Verify, ExportUnfit, Attempt, RecordChecks
  <2> QED
      BY <1>t, <2>1 DEF ReportInv, ReportTypeOK, AllScenariosPassed
<1>2. CASE AttemptRaises
    BY <1>t, <1>2 DEF AttemptRaises, Attempt, ReportInv, ReportTypeOK, AllScenariosPassed
<1>3. CASE Succeed
    BY <1>t, <1>3 DEF Succeed, ReportInv, ReportTypeOK, AllScenariosPassed
<1>4. CASE FailChecks
    BY <1>t, <1>4 DEF FailChecks, ReportInv, ReportTypeOK, AllScenariosPassed
<1>5. CASE PublishJoined
  <2>1. /\ joined' = Report /\ reportAt = "publish" /\ reportAt' = "down" /\ ~Refused
        /\ UNCHANGED <<final, evidenceKept, inputsKept, runStatus, delivered, tries, recorded>>
      BY <1>5 DEF PublishJoined
  <2>2. /\ joined'.status = (IF runStatus = "success" THEN "success" ELSE "failed")
        /\ joined'.requirements = (IF inputsKept THEN [r \in Requirements |-> RequirementStatus(final, r)]
                                   ELSE <<>>)
        /\ joined'.current \in BOOLEAN
      BY <2>1 DEF Report
  <2>3. joined'.requirements \in [Requirements -> Verdicts] \cup {<<>>}
      BY <2>2, StatusesAreVerdicts
  <2>4. ReportTypeOK'
      BY <1>t, <2>1, <2>2, <2>3 DEF ReportInv, ReportTypeOK
  <2>5. ASSUME joined'.status = "success"
        PROVE  joined'.requirements # <<>> /\ AllScenariosPassed(joined'.requirements)
    <3>1. runStatus = "success" /\ inputsKept /\ Passed(final)
        BY <2>1, <2>2, <2>5 DEF Refused, ReportInv
    <3>2. joined'.requirements = [r \in Requirements |-> RequirementStatus(final, r)]
        BY <2>2, <3>1
    <3>3. Verified \subseteq Requirements
        BY DEF Verified
    <3>4. AllScenariosPassed(joined'.requirements)
        BY <1>t, <3>1, <3>2, <3>3, PassedIsReported DEF AllScenariosPassed
    <3>5. Requirements # {}
        BY AcceptanceAssumption, CoversSome
    <3> QED
        BY <3>2, <3>4, <3>5
  <2>6. (joined.status = "success" => joined.requirements # <<>> /\ AllScenariosPassed(joined.requirements))'
      BY <2>5 DEF AllScenariosPassed
  <2> QED
      BY <2>1, <2>4, <2>6 DEF ReportInv
<1>6. CASE JoinedFails
    BY <1>t, <1>6 DEF JoinedFails, ReportInv, ReportTypeOK, AllScenariosPassed
<1>7. CASE ResumeRun
    BY <1>t, <1>7 DEF ResumeRun, ReportInv, ReportTypeOK, AllScenariosPassed
<1>8. CASE ChangeFiles
    BY <1>t, <1>8 DEF ChangeFiles, ReportInv, ReportTypeOK, AllScenariosPassed
<1>9. CASE UNCHANGED reportVars
    BY <1>t, <1>9 DEF reportVars, ReportInv, ReportTypeOK, AllScenariosPassed
<1> QED
    BY <1>1, <1>2, <1>3, <1>4, <1>5, <1>6, <1>7, <1>8, <1>9 DEF ReportNext

\* The report joins the rows of the final checks by code of its own, and calls
\* every verified requirement passed exactly when the verifier let the candidate
\* pass; a success is reported only with all of them (report.py and
\* verification.py).
THEOREM ReportsTheVerdict == ReportSpec => []VerdictsAgree
<1>1. ReportInv => VerdictsAgree
  <2> SUFFICES ASSUME ReportInv PROVE VerdictsAgree
      OBVIOUS
  <2>1. final \in [Builds -> Variants] \cup {NoResult}
      BY DEF ReportInv, ReportTypeOK
  <2>2. Passed(final) => \A r \in Verified : RequirementStatus(final, r) = "scenarios_passed"
      BY <2>1, PassedIsReported
  <2>3. (\A r \in Verified : RequirementStatus(final, r) = "scenarios_passed")
            => Passed(final) \/ Unnoticed
      BY <2>1, ReportedHasPassed
  <2> QED
      BY <2>2, <2>3 DEF ReportInv, VerdictsAgree
<1> QED
    BY <1>1, ReportInvInit, ReportInvStep, PTL DEF ReportSpec

-----------------------------------------------------------------------------
(* The feedback of failures.                                               *)

\* A view says which checks failed, and is cut only where none did.
Shows(view, result) ==
    /\ view.failing = result.failing
    /\ view.shape = "excerpt" => result.verification # "present"

\* The view of what a reference to the evidence stands for.
ViewIn(log, ref) == IF ref = 0 THEN NoView ELSE View(log[ref], ref)

\* What the session knows is what it shows, and what run.json refers to shows
\* what was known when it was written.
FeedbackInv ==
    /\ FeedbackTypeOK
    /\ sessionAt \in {"publish", "repair"} => Latest < MaxResults
    /\ sessionAt \in {"record", "hand"} => Latest # 0 /\ published[Latest] = raw
    /\ sessionAt \in {"repair", "hand"} => raw \in Unfit \cup ExportFailed
    /\ repairing \/ sessionAt \in {"repair", "hand", "open"} => exportResult \in Unfit \cup ExportFailed
    /\ Shows(diagnostic, known.failure) /\ reason = known.gate
    /\ diagnostic.ref \in 0..Latest /\ diagnostic = ViewIn(published, diagnostic.ref)
    /\ saved.ref \in 0..Latest /\ Shows(ViewIn(published, saved.ref), stored.failure)
    /\ saved.reason = stored.gate
    /\ sessionAt = "act" => request = [diagnostic |-> diagnostic, reason |-> reason]

\* Only a verification names checks that failed.
LEMMA FailingIsVerified ==
    ASSUME NEW r \in AllResults
    PROVE  r.failing \subseteq Rows /\ (r.failing # {} => r.verification = "present")
  BY DEF AllResults, Finished, FinishFailed, ToolResults, ActionErrors, ExportFailed, Result, SomeRows

LEMMA ViewFacts ==
    ASSUME NEW r \in AllResults, NEW ref
    PROVE  /\ Shows(View(r, ref), r) /\ View(r, ref).ref = ref /\ View(r, ref).failing \subseteq Rows
  BY FailingIsVerified DEF View, Shows

LEMMA RoutesAreReasons ==
    ASSUME NEW r
    PROVE  Gates(r) \subseteq Reasons /\ RouteOf(r) \in Reasons
<1>1. GateOf(r) \in Reasons /\ RouteOf(r) \in Reasons
    BY DEF GateOf, RouteOf, Reasons
<1> QED
    BY <1>1 DEF Gates

\* What was published keeps its place, and so its view.
LEMMA Published ==
    ASSUME NEW log \in Seq(AllResults), NEW r \in AllResults
    PROVE  /\ Append(log, r) \in Seq(AllResults) /\ Len(Append(log, r)) = Len(log) + 1
           /\ Append(log, r)[Len(log) + 1] = r
           /\ \A ref \in 0..Len(log) : ViewIn(Append(log, r), ref) = ViewIn(log, ref)
<1>1. /\ Append(log, r) \in Seq(AllResults) /\ Len(Append(log, r)) = Len(log) + 1
      /\ Append(log, r)[Len(log) + 1] = r /\ Len(log) \in Nat
    OBVIOUS
<1>2. \A ref \in 1..Len(log) : Append(log, r)[ref] = log[ref]
    OBVIOUS
<1>3. \A ref \in 0..Len(log) : ref = 0 \/ ref \in 1..Len(log)
    BY <1>1
<1> QED
    BY <1>1, <1>2, <1>3 DEF ViewIn

LEMMA FeedbackInvInit == FeedbackInit => FeedbackInv
<1> SUFFICES ASSUME FeedbackInit PROVE FeedbackInv
    OBVIOUS
<1>1. Nothing \in ToolResults
  <2> DEFINE r == [ok |-> TRUE, error |-> FALSE, build |-> "absent", verification |-> "absent",
                   failing |-> {}, big |-> FALSE]
  <2>1. r \in ToolResults /\ r.ok /\ ~r.big
      BY DEF ToolResults, Result
  <2> QED
      BY <2>1 DEF Nothing
<1>2. Nothing \in AllResults /\ Nothing.failing = {} /\ Nothing.verification # "present"
    BY <1>1 DEF AllResults, ToolResults, Result
<1>3. /\ published = <<>> /\ raw = Nothing /\ diagnostic = NoView /\ reason = "none"
      /\ saved.ref = 0 /\ saved.reason = "none" /\ taskPassed = FALSE /\ sessionAt = "request"
      /\ repairing = FALSE /\ known.failure = Nothing /\ known.gate = "none"
      /\ stored.failure = Nothing /\ stored.gate = "none"
      /\ request.diagnostic = NoView
    BY DEF FeedbackInit
<1>4. /\ published \in Seq(AllResults) /\ Latest = 0
      /\ NoView.ref = 0 /\ NoView.failing = {} /\ NoView.shape = "full"
    BY <1>3 DEF Latest, NoView
<1>5. FeedbackTypeOK
  <2>1. Latest <= MaxResults /\ 0 \in 0..MaxResults
      BY <1>4, FeedbackAssumption
  <2>2. {diagnostic.ref, request.diagnostic.ref, saved.ref} \subseteq 0..MaxResults
      BY <1>3, <1>4, <2>1
  <2>3. {reason, saved.reason, known.gate} \subseteq Reasons
      BY <1>3 DEF Reasons
  <2>4. diagnostic.failing \subseteq Rows /\ {taskPassed, repairing} \subseteq BOOLEAN /\ raw \in AllResults
      BY <1>2, <1>3, <1>4
  <2> QED
      BY <1>3, <1>4, <2>1, <2>2, <2>3, <2>4 DEF FeedbackTypeOK
<1>6. ViewIn(published, 0) = NoView /\ 0 \in 0..Latest
    BY <1>4 DEF ViewIn
<1>7. Shows(NoView, Nothing)
    BY <1>2, <1>4 DEF Shows
<1> QED
    BY <1>3, <1>4, <1>5, <1>6, <1>7 DEF FeedbackInv

LEMMA FeedbackInvStep == FeedbackInv /\ [FeedbackNext]_feedbackVars => FeedbackInv'
<1> SUFFICES ASSUME FeedbackInv, [FeedbackNext]_feedbackVars PROVE FeedbackInv'
    OBVIOUS
<1> USE DEF Move, context, repair, histories
<1>t. /\ published \in Seq(AllResults) /\ raw \in AllResults /\ Latest \in Nat /\ MaxResults \in Nat
      /\ Latest <= MaxResults
    BY FeedbackAssumption DEF FeedbackInv, FeedbackTypeOK, Latest
<1>1. CASE Send
    BY <1>t, <1>1 DEF Send, FeedbackInv, FeedbackTypeOK, Latest, Shows
<1>2. CASE Act
  <2>1. raw' \in AllResults
      BY <1>2 DEF Act, AllResults
  <2> QED
      BY <1>t, <1>2, <2>1 DEF Act, FeedbackInv, FeedbackTypeOK, Latest, Shows
<1>3. CASE DeliveryFails
  <2>1. raw' \in AllResults
      BY <1>3 DEF DeliveryFails, AllResults, Unfit, ActionErrors
  <2> QED
      BY <1>t, <1>3, <2>1 DEF DeliveryFails, FeedbackInv, FeedbackTypeOK, Latest, Shows
<1>4. CASE PublishFeedback \/ PublishRepair
  <2>1. /\ published' = Append(published, raw) /\ Latest < MaxResults
        /\ sessionAt' = "record" \/ (sessionAt = "repair" /\ sessionAt' = "hand")
        /\ UNCHANGED <<raw, context, saved, request, taskPassed, repair, histories>>
      BY <1>4 DEF PublishFeedback, PublishRepair, PublishAs, FeedbackInv
  <2>2. /\ published' \in Seq(AllResults) /\ Latest' = Latest + 1 /\ published'[Latest'] = raw
        /\ \A ref \in 0..Latest : ViewIn(published', ref) = ViewIn(published, ref)
      BY <1>t, <2>1, Published DEF Latest
  <2>3. Latest' <= MaxResults /\ \A ref \in 0..Latest : ref \in 0..Latest'
      BY <1>t, <2>1, <2>2
  <2>4. FeedbackTypeOK'
      BY <1>t, <2>1, <2>2, <2>3 DEF FeedbackInv, FeedbackTypeOK
  <2>5. diagnostic.ref \in 0..Latest /\ saved.ref \in 0..Latest
      BY DEF FeedbackInv
  <2>6. Latest' # 0
      BY <1>t, <2>2
  <2> QED
      BY <2>1, <2>2, <2>3, <2>4, <2>5, <2>6 DEF FeedbackInv, Shows
<1>5. ASSUME NEW g \in Reasons, sessionAt' \in {"save", "open"},
             Latest # 0, published[Latest] = raw,
             reason' = (IF g = "none" THEN reason ELSE g), Known(raw, g),
             sessionAt' = "open" => exportResult \in Unfit \cup ExportFailed,
             diagnostic' = (IF IsDiagnostic(raw) THEN View(raw, Latest) ELSE diagnostic),
             UNCHANGED <<published, raw, saved, request, taskPassed, repair, stored>>
      PROVE  FeedbackInv'
  <2>1. known'.gate = reason' /\ reason' \in Reasons
      BY <1>5 DEF Known, FeedbackInv, FeedbackTypeOK
  <2>2. /\ Shows(diagnostic', known'.failure) /\ diagnostic'.ref \in 0..Latest
        /\ diagnostic' = ViewIn(published, diagnostic'.ref) /\ diagnostic'.failing \subseteq Rows
    <3>1. CASE IsDiagnostic(raw)
      <4>1. diagnostic' = View(raw, Latest) /\ known'.failure = raw
          BY <1>5, <3>1 DEF Known
      <4>2. Shows(View(raw, Latest), raw) /\ View(raw, Latest).ref = Latest
            /\ View(raw, Latest).failing \subseteq Rows
          BY <1>t, ViewFacts
      <4>3. ViewIn(published, Latest) = View(raw, Latest)
          BY <1>5 DEF ViewIn
      <4> QED
          BY <1>t, <4>1, <4>2, <4>3
    <3>2. CASE ~IsDiagnostic(raw)
        BY <1>5, <3>2 DEF Known, FeedbackInv, FeedbackTypeOK, Shows
    <3> QED
        BY <3>1, <3>2
  <2>3. FeedbackTypeOK'
    <3>1. diagnostic'.ref \in 0..MaxResults
        BY <1>t, <2>2
    <3> QED
        BY <1>t, <1>5, <2>1, <2>2, <3>1 DEF FeedbackInv, FeedbackTypeOK, Latest
  <2> QED
      BY <1>5, <2>1, <2>2, <2>3 DEF FeedbackInv, Shows, Latest
<1>6. CASE RecordFeedback
  <2>1. PICK g \in Gates(raw) : reason' = (IF g = "none" THEN reason ELSE g) /\ Known(raw, g)
      BY <1>6 DEF RecordFeedback
  <2> QED
      BY <1>5, <1>6, <2>1, RoutesAreReasons DEF RecordFeedback, FeedbackInv
<1>7. CASE Hand
  <2> DEFINE g == RouteOf(raw)
  <2>1. g \in Reasons /\ g # "none" /\ IsDiagnostic(raw)
    <3>1. raw \in Unfit \cup ExportFailed
        BY <1>7 DEF Hand, FeedbackInv
    <3>2. ~raw.ok /\ (raw.error \/ ~raw.error)
        BY <3>1 DEF Unfit, ExportFailed, Result
    <3> QED
        BY <3>2 DEF RouteOf, GateOf, IsDiagnostic, Reasons
  <2>2. /\ sessionAt' = "open" /\ Latest # 0 /\ published[Latest] = raw
        /\ exportResult \in Unfit \cup ExportFailed
        /\ reason' = g /\ Known(raw, g) /\ diagnostic' = View(raw, Latest)
        /\ UNCHANGED <<published, raw, saved, request, taskPassed, repair, stored>>
      BY <1>7 DEF Hand, FeedbackInv
  <2> HIDE DEF g
  <2> QED
      BY <1>5, <2>1, <2>2
<1>8. CASE SaveFeedback \/ OpenRepair
  <2>1. /\ saved'.ref = diagnostic.ref /\ saved'.reason = reason /\ stored' = known
        /\ UNCHANGED <<published, raw, context, request, exportResult, known>>
        /\ sessionAt' \in {"deliver", "request"}
      BY <1>8 DEF SaveFeedback, OpenRepair
  <2>3. repairing' \in BOOLEAN /\ (repairing' => repairing \/ sessionAt = "open")
    <3>1. CASE SaveFeedback
      <4>1. repairing' = (repairing /\ raw \notin Finished)
          BY <3>1 DEF SaveFeedback
      <4> QED
          BY <4>1, Zenon
    <3>2. CASE OpenRepair
        BY <3>2 DEF OpenRepair
    <3> QED
        BY <1>8, <3>1, <3>2
  <2>2. taskPassed' \in BOOLEAN
    <3>1. CASE SaveFeedback
      <4>1. taskPassed' = (raw \in Finished)
          BY <3>1 DEF SaveFeedback
      <4>2. (raw \in Finished) \in BOOLEAN
          OBVIOUS
      <4> QED
          BY <4>1, <4>2, Zenon
    <3>2. CASE OpenRepair
        BY <3>2 DEF OpenRepair
    <3> QED
        BY <1>8, <3>1, <3>2
  <2> QED
      BY <1>t, <2>1, <2>2, <2>3 DEF FeedbackInv, FeedbackTypeOK, Latest, Shows
<1>9. CASE DeliveryPasses \/ HandRaises \/ SessionDies
  <2>1. /\ UNCHANGED <<published, raw, context, saved, request, taskPassed, exportResult, histories>>
        /\ sessionAt' \in {"done", "error", "down"}
      BY <1>9 DEF DeliveryPasses, HandRaises, SessionDies
  <2>2. (repairing' = repairing) \/ (repairing' = FALSE)
      BY <1>9 DEF DeliveryPasses, HandRaises, SessionDies
  <2>3. repairing' \in BOOLEAN /\ (repairing' => repairing)
    <3>1. repairing \in BOOLEAN
        BY DEF FeedbackInv, FeedbackTypeOK
    <3>2. CASE repairing' = repairing
        BY <3>1, <3>2, Zenon
    <3>3. CASE repairing' = FALSE
        BY <3>3
    <3> QED
        BY <2>2, <3>2, <3>3
  <2> QED
      BY <1>t, <2>1, <2>3 DEF FeedbackInv, FeedbackTypeOK, Latest, Shows
<1>10. CASE ResumeSession
  <2>1. /\ diagnostic' = ViewIn(published, saved.ref) /\ reason' = saved.reason /\ known' = stored
        /\ UNCHANGED <<published, raw, saved, request, taskPassed, repair, stored>>
        /\ sessionAt' \in {"deliver", "request"}
      BY <1>10 DEF ResumeSession, ViewIn
  <2>2. saved.ref \in 0..Latest
      BY DEF FeedbackInv
  <2>3. diagnostic'.ref = saved.ref /\ diagnostic'.failing \subseteq Rows
    <3>1. CASE saved.ref = 0
        BY <2>1, <3>1 DEF ViewIn, NoView
    <3>2. CASE saved.ref # 0
      <4>1. published[saved.ref] \in AllResults
          BY <1>t, <2>2, <3>2 DEF Latest
      <4> QED
          BY <2>1, <3>2, <4>1, ViewFacts DEF ViewIn
    <3> QED
        BY <3>1, <3>2
  <2> QED
      BY <1>t, <2>1, <2>2, <2>3 DEF FeedbackInv, FeedbackTypeOK, Latest, Shows
<1>11. CASE RepairEnds
  <2>1. exportResult \in Unfit \cup ExportFailed
      BY <1>11 DEF RepairEnds, FeedbackInv
  <2>2. exportResult \in AllResults
      BY <2>1 DEF AllResults, Unfit, ActionErrors
  <2> QED
      BY <1>t, <1>11, <2>1, <2>2 DEF RepairEnds, FeedbackInv, FeedbackTypeOK, Latest, Shows
<1>12. CASE UNCHANGED feedbackVars
    BY <1>t, <1>12 DEF feedbackVars, FeedbackInv, FeedbackTypeOK, Latest, Shows
<1> QED
    BY <1>1, <1>2, <1>3, <1>4, <1>6, <1>7, <1>8, <1>9, <1>10, <1>11, <1>12 DEF FeedbackNext

\* Whatever crashes, resumptions, failed deliveries and failed repairs come in
\* between, a request shows every check that failed in the failure its session
\* was given or has met last, however long its text is, and goes to the model
\* that the gate given or failed last asks for (session.py, verification.py).
THEOREM ShowsFailures == FeedbackSpec => []EveryFailureShown
<1>1. FeedbackInv => EveryFailureShown
    BY DEF FeedbackInv, EveryFailureShown, Shows
<1> QED
    BY <1>1, FeedbackInvInit, FeedbackInvStep, PTL DEF FeedbackSpec
=============================================================================
