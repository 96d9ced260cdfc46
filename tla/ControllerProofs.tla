-------------------------- MODULE ControllerProofs --------------------------
(***************************************************************************)
(* Theorems about Controller, for every plan length, all budgets, every    *)
(* number of reconfigurations and every combination of faults.             *)
(***************************************************************************)
EXTENDS Controller, TLAPS

USE BudgetsAssumption DEF environment

-----------------------------------------------------------------------------
LEMMA FinalIsTask == Final \in Tasks
  BY DEF Tasks, Final

LEMMA NoSessionType == NoSession \in Locals
  BY FinalIsTask DEF NoSession, Locals

LEMMA InitType == Init => TypeOK
<1> SUFFICES ASSUME Init PROVE TypeOK
    OBVIOUS
<1>1. NewRun \in RunRecords
    BY DEF NewRun, RunRecords, Outcomes
<1> QED
    BY <1>1, NoSessionType DEF Init, TypeOK, Points

LEMMA StepType == TypeOK /\ [Next]_vars => TypeOK'
<1> SUFFICES ASSUME TypeOK, [Next]_vars PROVE TypeOK'
    OBVIOUS
<1> USE NoSessionType, FinalIsTask DEF TypeOK, Points, Assign, Save, Keep, End, Goto
<1>1. CASE Start \/ ReportAgain
    BY <1>1 DEF Start, ReportAgain, vars
<1>2. CASE Prepare \/ ImageFound \/ PrepareFails
    BY <1>2 DEF Prepare, ImageFound, PrepareFails, RunRecords, Outcomes
<1>3. CASE NextTask
  <2>1. PICK t \in Tasks : ctl' = [NoSession EXCEPT !.task = t, !.sessions = RemainingSessions(t)]
      BY <1>3 DEF NextTask
  <2>2. mem.sessions[t] \in Nat
      BY <2>1 DEF RunRecords
  <2>3. RemainingSessions(t) \in 0..SessionsPerTask
      BY <2>2 DEF RemainingSessions
  <2>4. ctl' \in Locals
      BY <2>1, <2>3 DEF Locals
  <2> QED
      BY <1>3, <2>4 DEF NextTask
<1>4. CASE TasksDone \/ OutOfBudget
    BY <1>4 DEF TasksDone, OutOfBudget, RunRecords, Outcomes
<1>5. CASE OpenSession
  <2>1. ctl' \in Locals
    <3>1. /\ ctl' = [ctl EXCEPT !.sessions = ctl.sessions - 1, !.decisions = DecisionsPerSession]
          /\ ctl.sessions - 1 \in 0..SessionsPerTask
          /\ DecisionsPerSession \in 0..DecisionsPerSession
        BY <1>5 DEF OpenSession, Locals
    <3> QED
        BY <3>1 DEF Locals
  <2>2. mem' \in RunRecords
    <3>1. ctl.task \in Tasks
        BY DEF Locals
    <3>2. /\ [mem.sessions EXCEPT ![ctl.task] = @ + 1] \in [Tasks -> Nat]
          /\ [mem.status EXCEPT ![ctl.task] = "running"] \in [Tasks -> {"pending", "running", "failed", "passed"}]
        BY <3>1 DEF RunRecords
    <3>3. mem' = [mem EXCEPT !.sessions[ctl.task] = @ + 1, !.status[ctl.task] = "running"]
        BY <1>5 DEF OpenSession
    <3> QED
        BY <3>2, <3>3 DEF RunRecords
  <2> QED
      BY <1>5, <2>1, <2>2 DEF OpenSession
<1>6. CASE SessionsSpent
  <2>1. [mem EXCEPT !.status[ctl.task] = "failed"] \in RunRecords
      BY DEF RunRecords, Locals
  <2>2. [[mem EXCEPT !.status[ctl.task] = "failed"] EXCEPT !.outcome = "failed"] \in RunRecords
      BY <2>1 DEF RunRecords, Outcomes
  <2> QED
      BY <1>6, <2>1, <2>2 DEF SessionsSpent
<1>7. CASE DecisionsSpent \/ Answer \/ ToolDone \/ Finish \/ Verified
    BY <1>7 DEF DecisionsSpent, Answer, ToolDone, Finish, Verified
<1>8. CASE Decide
  <2>1. ctl' \in Locals
      BY <1>8 DEF Decide, Locals
  <2>2. mem' \in RunRecords
      BY <1>8 DEF Decide, RunRecords, Locals
  <2> QED
      BY <1>8, <2>1, <2>2 DEF Decide
<1>9. CASE CallFails \/ ActionRaises
    BY <1>9 DEF CallFails, ActionRaises, RunRecords, Outcomes
<1>10. CASE RequestFollowup
    BY <1>10 DEF RequestFollowup, RunRecords
<1>11. CASE Accept
    BY <1>11 DEF Accept, RunRecords, Locals
<1>12. CASE TryExport \/ RepairFailed
    BY <1>12 DEF TryExport, RepairFailed
<1>13. CASE Export
  <2>1. PICK passed \in BOOLEAN :
            /\ Goto("export", IF passed THEN "publish" ELSE "count_repair")
            /\ Save([mem EXCEPT !.checks = IF passed THEN "passed" ELSE "failed"])
      BY <1>13 DEF Export
  <2>2. mem' \in RunRecords
      BY <2>1 DEF RunRecords
  <2> QED
      BY <1>13, <2>1, <2>2 DEF Export
<1>14. CASE Publish
    BY <1>14 DEF Publish, RunRecords, Outcomes
<1>15. CASE Redeliver
    BY <1>15 DEF Redeliver, RunRecords, Outcomes
<1>16. CASE CountRepair
    BY <1>16 DEF CountRepair, RunRecords, Locals
<1>17. CASE RepairsSpent \/ Report
    BY <1>17 DEF RepairsSpent, Report, RunRecords, Outcomes
<1>18. CASE Close
    BY <1>18 DEF Close
<1>19. CASE Crash
    BY <1>19 DEF Crash, Die
<1>20. CASE TimeRunsOut \/ MoneyRunsOut
    BY <1>20 DEF TimeRunsOut, MoneyRunsOut, Expire
<1>21. CASE Alarm
  <2>1. /\ [mem EXCEPT !.outcome = "budget_exhausted"] \in RunRecords
        /\ [mem EXCEPT !.outcome = "internal_error"] \in RunRecords
        /\ [mem EXCEPT !.outcome = "failed"] \in RunRecords
        /\ [mem EXCEPT !.checks = "failed"] \in RunRecords
      BY DEF RunRecords, Outcomes
  <2> QED
      BY <1>21, <2>1 DEF Alarm, RaisedWhileVerifying, Die
<1>22. CASE Interrupt
    BY <1>22 DEF Interrupt, Die, RunRecords, Outcomes
<1>23. CASE Reconfigure
    BY <1>23 DEF Reconfigure
<1>24. CASE UNCHANGED vars
    BY <1>24 DEF vars
<1> QED
    BY <1>1, <1>2, <1>3, <1>4, <1>5, <1>6, <1>7, <1>8, <1>9, <1>10, <1>11, <1>12, <1>13, <1>14, <1>15, <1>16, <1>17, <1>18, <1>19, <1>20, <1>21, <1>22, <1>23, <1>24 DEF Next, Step

\* run.json and the dictionary keep their types, and so does every local of
\* the controller, under all faults.
THEOREM Typing == Spec => []TypeOK
  BY InitType, StepType, PTL DEF Spec

-----------------------------------------------------------------------------
(* The dictionary differs from run.json in its outcome only.  What a task   *)
(* has used and what its session may still use stay within its budget, and  *)
(* once a delivery is recorded no controller goes back to work.             *)

SessionPoints == {"decide", "call", "act", "verify", "accept"}

Allowed(run, t) == SessionsPerTask + (IF t = Final THEN run.repairs ELSE 0)

Counted ==
    /\ mem = [disk EXCEPT !.outcome = mem.outcome]
    /\ \A t \in Tasks : disk.sessions[t] <= Allowed(disk, t)
    /\ \A t \in Tasks : disk.decisions[t] <= disk.sessions[t] * DecisionsPerSession
    /\ pc \in {"sessions"} \cup SessionPoints =>
          disk.sessions[ctl.task] + ctl.sessions <= Allowed(disk, ctl.task)
    /\ pc \in SessionPoints =>
          disk.decisions[ctl.task] + ctl.decisions <= disk.sessions[ctl.task] * DecisionsPerSession

Alarmed ==
    /\ alarm = "fired" => "time" \in limits /\ pc # "call"
    /\ pc = "down" => alarm = "off"

Resting == {"down", "prepare", "image", "tasks", "repairs", "report", "save"}

Earned ==
    /\ disk.delivered => AllPassed(disk) /\ disk.checks = "passed" /\ pc \in Resting
    /\ pc \in {"export", "publish"} => AllPassed(disk)
    /\ pc = "publish" => disk.checks = "passed"
    /\ disk.outcome = "success" => disk.delivered /\ pc = "down"
    /\ mem.outcome = "success" => disk.delivered /\ pc \in {"down", "report", "save"}

CInv == TypeOK /\ Counted /\ Alarmed /\ Earned

Counters(run) == <<run.sessions, run.decisions, run.repairs, run.followups>>
Verdict(run) == <<run.status, run.checks, run.delivered>>

LEMMA SamePassed ==
    ASSUME NEW r1, NEW r2, r1.status = r2.status, r1.followups = r2.followups
    PROVE  AllPassed(r1) <=> AllPassed(r2)
  BY DEF AllPassed, Planned

LEMMA OneMore ==
    ASSUME NEW s \in Nat, NEW d \in Nat
    PROVE  s * d \in Nat /\ (s + 1) * d = s * d + d
  OBVIOUS

\* A step that changes outcomes only.
LEMMA OutcomeStep ==
    ASSUME CInv, TypeOK', Alarmed',
           mem' = [mem EXCEPT !.outcome = mem'.outcome],
           disk' = [disk EXCEPT !.outcome = disk'.outcome],
           pc' \in SessionPoints => pc \in SessionPoints /\ ctl' = ctl,
           pc' \notin {"sessions", "export", "publish"},
           disk.delivered => pc' \in Resting,
           disk'.outcome = "success" => disk.delivered /\ pc' = "down",
           mem'.outcome = "success" => disk.delivered /\ pc' \in {"down", "report", "save"}
    PROVE  CInv'
<1>1. /\ Counters(disk') = Counters(disk) /\ Verdict(disk') = Verdict(disk)
      /\ mem' = [disk' EXCEPT !.outcome = mem'.outcome]
    BY DEF CInv, Counted, TypeOK, RunRecords, Counters, Verdict
<1>2. AllPassed(disk') <=> AllPassed(disk)
    BY <1>1, SamePassed DEF Counters, Verdict
<1> QED
    BY <1>1, <1>2 DEF CInv, Counted, Earned, Allowed, Counters, Verdict

LEMMA AlarmStep ==
    ASSUME TypeOK, Alarmed, [Next]_vars PROVE Alarmed'
<1> USE DEF Alarmed, Goto, Assign, Save, Keep, End
<1>1. CASE Start \/ ReportAgain \/ Crash \/ Reconfigure \/ Close
    BY <1>1 DEF Start, ReportAgain, Crash, Die, Reconfigure, Close, vars
<1>2. CASE Decide
    BY <1>2 DEF Decide, BudgetLeft
<1>3. CASE TimeRunsOut \/ MoneyRunsOut
    BY <1>3 DEF TimeRunsOut, MoneyRunsOut, Expire
<1>4. CASE Alarm
    BY <1>4 DEF Alarm, Die, RaisedWhileVerifying, Live
<1>5. CASE Interrupt
    BY <1>5 DEF Interrupt, Die, Live
<1>6. CASE Step /\ ~Decide /\ ~Close
    BY <1>6
    DEF Step, Prepare, ImageFound, PrepareFails, NextTask, TasksDone, OutOfBudget, OpenSession,
        SessionsSpent, DecisionsSpent, Answer, CallFails, ToolDone, RequestFollowup,
        Finish, Verified, ActionRaises, Accept, TryExport, RepairFailed, Export, Publish,
        Redeliver, CountRepair, RepairsSpent, Report
<1>7. CASE UNCHANGED vars
    BY <1>7 DEF vars
<1> QED
    BY <1>1, <1>2, <1>3, <1>4, <1>5, <1>6, <1>7 DEF Next, Step

\* The steps of a session: those that change what the budgets count.
LEMMA SessionStep ==
    ASSUME CInv, TypeOK', Alarmed',
           \/ NextTask \/ OpenSession \/ SessionsSpent \/ DecisionsSpent \/ Decide
           \/ RequestFollowup \/ Accept \/ CountRepair
    PROVE  CInv'
<1> USE DEF Goto, Save, Keep, SessionPoints, Resting
<1>t. /\ disk \in RunRecords /\ mem \in RunRecords /\ ctl \in Locals /\ ctl.task \in Tasks
      /\ disk.sessions \in [Tasks -> Nat] /\ disk.decisions \in [Tasks -> Nat]
      /\ disk.repairs \in Nat /\ disk.status \in [Tasks -> {"pending", "running", "failed", "passed"}]
      /\ \A t \in Tasks : Allowed(disk, t) \in Nat
    BY DEF CInv, TypeOK, RunRecords, Locals, Allowed
<1>m. /\ mem.sessions = disk.sessions /\ mem.decisions = disk.decisions
      /\ mem.repairs = disk.repairs /\ mem.followups = disk.followups
      /\ mem.status = disk.status /\ mem.checks = disk.checks /\ mem.delivered = disk.delivered
    BY DEF CInv, Counted, TypeOK, RunRecords
<1>1. CASE NextTask
  <2>1. PICK t \in Tasks : /\ Pending(mem, t)
                           /\ ctl' = [NoSession EXCEPT !.task = t, !.sessions = RemainingSessions(t)]
      BY <1>1 DEF NextTask
  <2>2. UNCHANGED <<disk, mem>> /\ pc = "tasks" /\ pc' = "sessions"
      BY <1>1 DEF NextTask
  <2>3. ctl'.task = t /\ ctl'.sessions = RemainingSessions(t)
      BY <2>1 DEF NoSession
  <2>4. ~AllPassed(disk)
      BY <1>m, <2>1 DEF Pending, AllPassed, Planned
  <2>5. disk.sessions[t] + RemainingSessions(t) <= Allowed(disk, t)
      BY <1>t, <1>m DEF RemainingSessions, Allowed, CInv, Counted
  <2> QED
      BY <2>2, <2>3, <2>4, <2>5 DEF CInv, Counted, Earned, Allowed, AllPassed, Planned
<1>2. CASE OpenSession
  <2>1. /\ mem' = [mem EXCEPT !.sessions[ctl.task] = @ + 1, !.status[ctl.task] = "running"]
        /\ disk' = mem' /\ pc = "sessions" /\ pc' = "decide" /\ ctl.sessions > 0
        /\ ctl'.task = ctl.task /\ ctl'.sessions = ctl.sessions - 1
        /\ ctl'.decisions = DecisionsPerSession
      BY <1>2, <1>t DEF OpenSession, Locals
  <2>2. /\ disk'.sessions = [disk.sessions EXCEPT ![ctl.task] = @ + 1]
        /\ disk'.decisions = disk.decisions /\ disk'.repairs = disk.repairs
        /\ disk'.delivered = disk.delivered /\ disk'.outcome = mem.outcome
        /\ mem' = [disk' EXCEPT !.outcome = mem'.outcome]
      BY <1>t, <1>m, <2>1 DEF RunRecords
  <2>3. ctl.sessions \in Nat
      BY <1>t DEF Locals
  <2>4. \A t \in Tasks : Allowed(disk', t) = Allowed(disk, t)
      BY <2>2 DEF Allowed
  <2>5. \A t \in Tasks : disk'.sessions[t] <= Allowed(disk', t)
      BY <1>t, <2>1, <2>2, <2>3, <2>4 DEF CInv, Counted
  <2>6. disk'.sessions[ctl'.task] + ctl'.sessions <= Allowed(disk', ctl'.task)
      BY <1>t, <2>1, <2>2, <2>3, <2>4 DEF CInv, Counted
  <2>7. disk'.decisions[ctl'.task] + ctl'.decisions <= disk'.sessions[ctl'.task] * DecisionsPerSession
    <3>1. /\ disk.sessions[ctl.task] \in Nat /\ disk.decisions[ctl.task] \in Nat
          /\ disk.decisions[ctl.task] <= disk.sessions[ctl.task] * DecisionsPerSession
          /\ disk'.sessions[ctl.task] = disk.sessions[ctl.task] + 1
        BY <1>t, <2>2 DEF CInv, Counted
    <3>2. /\ disk.sessions[ctl.task] * DecisionsPerSession \in Nat
          /\ disk'.sessions[ctl.task] * DecisionsPerSession
                = disk.sessions[ctl.task] * DecisionsPerSession + DecisionsPerSession
        BY <3>1, OneMore
    <3> QED
        BY <2>1, <2>2, <3>1, <3>2
  <2>8. \A t \in Tasks : disk'.decisions[t] <= disk'.sessions[t] * DecisionsPerSession
    <3>1. SUFFICES ASSUME NEW t \in Tasks
                   PROVE  disk'.decisions[t] <= disk'.sessions[t] * DecisionsPerSession
        OBVIOUS
    <3>2. CASE t = ctl.task
        BY <1>t, <2>1, <2>2, <2>7, <3>2
    <3>3. CASE t # ctl.task
      <4>1. disk'.sessions[t] = disk.sessions[t] /\ disk'.decisions[t] = disk.decisions[t]
          BY <1>t, <2>2, <3>3
      <4> QED
          BY <4>1 DEF CInv, Counted
    <3> QED
        BY <3>2, <3>3
  <2>9. ~disk.delivered /\ disk.outcome # "success" /\ mem.outcome # "success"
      BY <2>1 DEF CInv, Earned
  <2> QED
      BY <2>1, <2>2, <2>5, <2>6, <2>7, <2>8, <2>9 DEF CInv, Counted, Earned
<1>3. CASE SessionsSpent
  <2>1. /\ Counters(disk') = Counters(disk) /\ disk'.delivered = disk.delivered
        /\ disk'.outcome = mem.outcome
        /\ mem' = [disk' EXCEPT !.outcome = mem'.outcome]
        /\ mem'.outcome \in {mem.outcome, "failed"}
        /\ pc = "sessions" /\ pc' \in {"repairs", "report"}
    <3>1. /\ disk' = [mem EXCEPT !.status[ctl.task] = "failed"]
          /\ mem' = disk' \/ mem' = [disk' EXCEPT !.outcome = "failed"]
          /\ pc = "sessions" /\ pc' \in {"repairs", "report"}
        BY <1>3 DEF SessionsSpent
    <3>2. disk' \in RunRecords
        BY DEF TypeOK
    <3>3. /\ Counters(disk') = Counters(disk) /\ disk'.delivered = disk.delivered
          /\ disk'.outcome = mem.outcome
        BY <1>t, <1>m, <3>1 DEF RunRecords, Counters
    <3> QED
        BY <3>1, <3>2, <3>3 DEF RunRecords
  <2>2. ~disk.delivered /\ mem.outcome # "success"
      BY <2>1 DEF CInv, Earned
  <2> QED
      BY <2>1, <2>2 DEF CInv, Counted, Earned, Counters, Allowed
<1>4. CASE DecisionsSpent
    BY <1>4 DEF DecisionsSpent, CInv, Counted, Earned, Allowed, AllPassed, Planned
<1>5. CASE Decide
  <2>1. /\ mem' = [mem EXCEPT !.decisions[ctl.task] = @ + 1]
        /\ disk' = mem' /\ pc = "decide" /\ pc' = "call" /\ ctl.decisions > 0
        /\ ctl'.task = ctl.task /\ ctl'.sessions = ctl.sessions
        /\ ctl'.decisions = ctl.decisions - 1 /\ ctl.decisions \in Nat
      BY <1>5, <1>t DEF Decide, Locals
  <2>2. /\ disk'.decisions = [disk.decisions EXCEPT ![ctl.task] = @ + 1]
        /\ disk'.sessions = disk.sessions /\ disk'.repairs = disk.repairs
        /\ disk'.delivered = disk.delivered /\ disk'.outcome = mem.outcome
        /\ mem' = [disk' EXCEPT !.outcome = mem'.outcome]
      BY <1>t, <1>m, <2>1 DEF RunRecords
  <2>3. disk'.decisions[ctl'.task] + ctl'.decisions <= disk'.sessions[ctl'.task] * DecisionsPerSession
    <3>1. disk.decisions[ctl.task] \in Nat /\ disk'.decisions[ctl.task] = disk.decisions[ctl.task] + 1
        BY <1>t, <2>2
    <3> QED
        BY <2>1, <2>2, <3>1 DEF CInv, Counted
  <2>4. \A t \in Tasks : disk'.decisions[t] <= disk'.sessions[t] * DecisionsPerSession
    <3>1. SUFFICES ASSUME NEW t \in Tasks
                   PROVE  disk'.decisions[t] <= disk'.sessions[t] * DecisionsPerSession
        OBVIOUS
    <3>2. CASE t = ctl.task
      <4>1. /\ disk'.decisions[t] \in Nat /\ ctl'.decisions \in Nat
            /\ disk.sessions[t] * DecisionsPerSession \in Nat
          BY <1>t, <2>1, <2>2, <3>1, OneMore
      <4> QED
          BY <2>1, <2>2, <2>3, <3>2, <4>1
    <3>3. CASE t # ctl.task
      <4>1. disk'.sessions[t] = disk.sessions[t] /\ disk'.decisions[t] = disk.decisions[t]
          BY <1>t, <2>2, <3>3
      <4> QED
          BY <4>1 DEF CInv, Counted
    <3> QED
        BY <3>2, <3>3
  <2>5. ~disk.delivered /\ disk.outcome # "success" /\ mem.outcome # "success"
      BY <2>1 DEF CInv, Earned
  <2> QED
      BY <2>1, <2>2, <2>3, <2>4, <2>5 DEF CInv, Counted, Earned, Allowed
<1>6. CASE RequestFollowup
  <2>1. /\ mem' = [mem EXCEPT !.followups = @ + 1] /\ disk' = mem'
        /\ pc = "act" /\ pc' = "decide" /\ ctl' = ctl
      BY <1>6 DEF RequestFollowup
  <2>2. /\ disk'.decisions = disk.decisions
        /\ disk'.sessions = disk.sessions /\ disk'.repairs = disk.repairs
        /\ disk'.delivered = disk.delivered /\ disk'.outcome = mem.outcome
        /\ mem' = [disk' EXCEPT !.outcome = mem'.outcome]
      BY <1>t, <1>m, <2>1 DEF RunRecords
  <2>3. ~disk.delivered /\ disk.outcome # "success" /\ mem.outcome # "success"
      BY <2>1 DEF CInv, Earned
  <2> QED
      BY <2>1, <2>2, <2>3 DEF CInv, Counted, Earned, Allowed
<1>7. CASE Accept
  <2>1. /\ mem' = [mem EXCEPT !.status[ctl.task] = "passed"] /\ disk' = mem'
        /\ pc = "accept" /\ pc' \in {"repairs", "tasks"} /\ ctl' = ctl
      BY <1>7 DEF Accept
  <2>2. /\ disk'.decisions = disk.decisions
        /\ disk'.sessions = disk.sessions /\ disk'.repairs = disk.repairs
        /\ disk'.delivered = disk.delivered /\ disk'.outcome = mem.outcome
        /\ mem' = [disk' EXCEPT !.outcome = mem'.outcome]
      BY <1>t, <1>m, <2>1 DEF RunRecords
  <2>3. ~disk.delivered /\ disk.outcome # "success" /\ mem.outcome # "success"
      BY <2>1 DEF CInv, Earned
  <2> QED
      BY <2>1, <2>2, <2>3 DEF CInv, Counted, Earned, Allowed
<1>8. CASE CountRepair
  <2>1. /\ mem' = [mem EXCEPT !.repairs = @ + 1] /\ disk' = mem'
        /\ pc = "count_repair" /\ pc' = "sessions"
        /\ ctl'.task = Final /\ ctl'.sessions = 1
      BY <1>8 DEF CountRepair
  <2>2. /\ disk'.decisions = disk.decisions
        /\ disk'.sessions = disk.sessions /\ disk'.repairs = disk.repairs + 1
        /\ disk'.delivered = disk.delivered /\ disk'.outcome = mem.outcome
        /\ mem' = [disk' EXCEPT !.outcome = mem'.outcome]
      BY <1>t, <1>m, <2>1 DEF RunRecords
  <2>3. ~disk.delivered /\ disk.outcome # "success" /\ mem.outcome # "success"
      BY <2>1 DEF CInv, Earned
  <2>4. \A t \in Tasks : Allowed(disk, t) <= Allowed(disk', t)
      BY <1>t, <2>2 DEF Allowed
  <2>5. disk'.sessions[Final] + 1 <= Allowed(disk', Final)
      BY <1>t, <2>2, FinalIsTask DEF Allowed, CInv, Counted
  <2>6. \A t \in Tasks : Allowed(disk', t) \in Nat
      BY <1>t, <2>2 DEF Allowed
  <2>7. \A t \in Tasks : disk'.sessions[t] <= Allowed(disk', t)
      BY <1>t, <2>2, <2>4, <2>6 DEF CInv, Counted
  <2> QED
      BY <2>1, <2>2, <2>3, <2>5, <2>7 DEF CInv, Counted, Earned
<1> QED
    BY <1>1, <1>2, <1>3, <1>4, <1>5, <1>6, <1>7, <1>8

\* The steps of the delivery.
LEMMA DeliveryStep ==
    ASSUME CInv, TypeOK', Alarmed',
           \/ TryExport \/ Export \/ Publish
           \/ Goto("export", "count_repair") /\ Save([mem EXCEPT !.checks = "failed"])
    PROVE  CInv'
<1> USE DEF Goto, Save, Keep, SessionPoints, Resting
<1>t. disk \in RunRecords /\ mem \in RunRecords
    BY DEF CInv, TypeOK
<1>m. /\ mem.sessions = disk.sessions /\ mem.decisions = disk.decisions
      /\ mem.repairs = disk.repairs /\ mem.followups = disk.followups
      /\ mem.status = disk.status /\ mem.checks = disk.checks /\ mem.delivered = disk.delivered
    BY <1>t DEF CInv, Counted, RunRecords
<1>1. CASE TryExport
  <2>1. AllPassed(disk)
      BY <1>1, <1>m, SamePassed DEF TryExport
  <2>2. AllPassed(disk)'
      BY <1>1, <2>1 DEF TryExport, AllPassed, Planned
  <2> QED
      BY <1>1, <1>m, <2>2 DEF TryExport, CInv, Counted, Earned, Allowed
<1>2. CASE \/ Export
           \/ Goto("export", "count_repair") /\ Save([mem EXCEPT !.checks = "failed"])
  <2>1. PICK c \in {"passed", "failed"} :
            /\ mem' = [mem EXCEPT !.checks = c] /\ disk' = mem'
            /\ pc = "export"
            /\ \/ pc' = "count_repair"
               \/ pc' = "publish" /\ c = "passed"
      BY <1>2 DEF Export
  <2>2. /\ Counters(disk') = Counters(disk) /\ disk'.delivered = disk.delivered
        /\ disk'.status = disk.status /\ disk'.checks = c /\ disk'.outcome = mem.outcome
        /\ mem' = [disk' EXCEPT !.outcome = mem'.outcome]
      BY <1>t, <1>m, <2>1 DEF RunRecords, Counters
  <2>3. AllPassed(disk) /\ ~disk.delivered /\ mem.outcome # "success"
      BY <2>1 DEF CInv, Earned
  <2>4. AllPassed(disk)'
      BY <2>2, <2>3, SamePassed DEF Counters
  <2> QED
      BY <2>1, <2>2, <2>3, <2>4 DEF CInv, Counted, Earned, Allowed, Counters
<1>3. CASE Publish
  <2>1. /\ disk' = [mem EXCEPT !.delivered = TRUE]
        /\ mem' = [mem EXCEPT !.delivered = TRUE, !.outcome = "success"]
        /\ pc = "publish" /\ pc' = "report"
      BY <1>3 DEF Publish
  <2>2. /\ Counters(disk') = Counters(disk) /\ disk'.delivered
        /\ disk'.status = disk.status /\ disk'.checks = disk.checks
        /\ disk'.outcome = mem.outcome
        /\ mem' = [disk' EXCEPT !.outcome = mem'.outcome]
      BY <1>t, <1>m, <2>1 DEF RunRecords, Counters
  <2>3. AllPassed(disk) /\ disk.checks = "passed" /\ mem.outcome # "success"
      BY <2>1 DEF CInv, Earned
  <2>4. AllPassed(disk)'
      BY <2>2, <2>3, SamePassed DEF Counters
  <2> QED
      BY <2>1, <2>2, <2>3, <2>4 DEF CInv, Counted, Earned, Allowed, Counters
<1> QED
    BY <1>1, <1>2, <1>3

\* All other steps leave the counters, the checks and the verdicts alone.
LEMMA OtherStep ==
    ASSUME CInv, TypeOK', Alarmed',
           \/ Start \/ Prepare \/ ImageFound \/ PrepareFails \/ TasksDone \/ OutOfBudget
           \/ Answer \/ CallFails \/ ToolDone \/ Finish \/ Verified \/ ActionRaises \/ RepairFailed \/ Redeliver
           \/ RepairsSpent \/ Report \/ Close \/ Crash \/ Interrupt \/ Reconfigure
           \/ Alarm /\ ~(Goto("export", "count_repair") /\ Save([mem EXCEPT !.checks = "failed"]))
    PROVE  CInv'
<1> USE DEF Goto, Assign, Save, Keep, End, SessionPoints, Resting
<1>t. disk \in RunRecords /\ mem \in RunRecords /\ mem = [disk EXCEPT !.outcome = mem.outcome]
    BY DEF CInv, TypeOK, Counted
<1>m. AllPassed(mem) <=> AllPassed(disk)
    BY <1>t, SamePassed DEF RunRecords
<1>1. CASE Start \/ Crash
    BY <1>1, <1>t, OutcomeStep DEF Start, Crash, Die, Live, CInv, Earned, RunRecords
<1>2. CASE Prepare \/ ImageFound \/ PrepareFails
    BY <1>2, <1>t, OutcomeStep DEF Prepare, ImageFound, PrepareFails, CInv, Earned, RunRecords
<1>3. CASE TasksDone \/ RepairFailed
    BY <1>3, <1>t, <1>m, OutcomeStep DEF TasksDone, RepairFailed, CInv, Earned, RunRecords
<1>4. CASE OutOfBudget \/ CallFails \/ ActionRaises \/ RepairsSpent
    BY <1>4, <1>t, OutcomeStep
    DEF OutOfBudget, CallFails, ActionRaises, RepairsSpent, CInv, Earned, RunRecords
<1>5. CASE Answer \/ ToolDone \/ Finish \/ Verified
    BY <1>5, <1>t, OutcomeStep DEF Answer, ToolDone, Finish, Verified, CInv, Earned, RunRecords
<1>6. CASE Redeliver
    BY <1>6, <1>t, OutcomeStep DEF Redeliver, CInv, Earned, RunRecords
<1>7. CASE Report \/ Close
    BY <1>7, <1>t, OutcomeStep DEF Report, Close, CInv, Earned, RunRecords
<1>8. CASE Interrupt
    BY <1>8, <1>t, OutcomeStep DEF Interrupt, Die, Live, CInv, Earned, RunRecords
<1>9. CASE Reconfigure
    BY <1>9, <1>t, OutcomeStep DEF Reconfigure, CInv, Earned, RunRecords
<1>10. CASE Alarm /\ ~(Goto("export", "count_repair") /\ Save([mem EXCEPT !.checks = "failed"]))
    BY <1>10, <1>t, OutcomeStep DEF Alarm, RaisedWhileVerifying, Die, Live, CInv, Earned, RunRecords
<1> QED
    BY <1>1, <1>2, <1>3, <1>4, <1>5, <1>6, <1>7, <1>8, <1>9, <1>10

LEMMA InitInv == Init => CInv
<1> SUFFICES ASSUME Init PROVE CInv
    OBVIOUS
<1>1. TypeOK
    BY InitType
<1>2. \A t \in Tasks : /\ Allowed(NewRun, t) \in Nat
                        /\ NewRun.sessions[t] = 0 /\ NewRun.decisions[t] = 0
    BY DEF Allowed, NewRun
<1>3. 0 * DecisionsPerSession = 0
    OBVIOUS
<1>4. disk = NewRun /\ mem = [disk EXCEPT !.outcome = mem.outcome] /\ pc = "down"
    BY DEF Init, NewRun
<1>5. Counted
  <2>1. \A t \in Tasks : disk.sessions[t] <= Allowed(disk, t)
      BY <1>2, <1>4
  <2>2. \A t \in Tasks : disk.decisions[t] <= disk.sessions[t] * DecisionsPerSession
      BY <1>2, <1>3, <1>4
  <2> QED
      BY <1>4, <2>1, <2>2 DEF Counted, SessionPoints
<1> QED
    BY <1>1, <1>5 DEF Init, CInv, Alarmed, Earned, NewRun

LEMMA StepInv == CInv /\ [Next]_vars => CInv'
<1> SUFFICES ASSUME CInv, [Next]_vars PROVE CInv'
    OBVIOUS
<1>1. TypeOK' /\ Alarmed'
    BY StepType, AlarmStep DEF CInv
<1>2. CASE UNCHANGED <<disk, mem, pc, ctl>>
    BY <1>1, <1>2 DEF CInv, Counted, Earned, Allowed, AllPassed, Planned
<1>3. CASE \/ NextTask \/ OpenSession \/ SessionsSpent \/ DecisionsSpent \/ Decide
           \/ RequestFollowup \/ Accept \/ CountRepair
    BY <1>1, <1>3, SessionStep
<1>4. CASE \/ TryExport \/ Export \/ Publish
           \/ Goto("export", "count_repair") /\ Save([mem EXCEPT !.checks = "failed"])
    BY <1>1, <1>4, DeliveryStep
<1>5. CASE \/ Start \/ Prepare \/ ImageFound \/ PrepareFails \/ TasksDone \/ OutOfBudget
           \/ Answer \/ CallFails \/ ToolDone \/ Finish \/ Verified \/ ActionRaises \/ RepairFailed \/ Redeliver
           \/ RepairsSpent \/ Report \/ Close \/ Crash \/ Interrupt \/ Reconfigure
           \/ Alarm /\ ~(Goto("export", "count_repair") /\ Save([mem EXCEPT !.checks = "failed"]))
    BY <1>1, <1>5, OtherStep
<1>6. CASE ReportAgain \/ TimeRunsOut \/ MoneyRunsOut \/ UNCHANGED vars
    BY <1>2, <1>6 DEF ReportAgain, TimeRunsOut, MoneyRunsOut, Expire, vars
<1> QED
    BY <1>3, <1>4, <1>5, <1>6 DEF Next, Step

-----------------------------------------------------------------------------
\* Under all faults no task uses more than its sessions, no session more than
\* its decisions, no run more than its repairs, and a fired deadline ends the
\* questions to the model.
THEOREM BoundsWork == Spec => []WorkIsBounded
<1>1. CInv => WorkIsBounded
    BY DEF CInv, Counted, Alarmed, Allowed, WorkIsBounded
<1> QED
    BY <1>1, InitInv, StepInv, PTL DEF Spec

\* Under all faults a recorded success has every task of its final plan passed,
\* a passed export and its delivery.
THEOREM EarnsSuccess == Spec => []SuccessIsEarned
<1>1. CInv => SuccessIsEarned
    BY DEF CInv, Earned, SuccessIsEarned
<1> QED
    BY <1>1, InitInv, StepInv, PTL DEF Spec

-----------------------------------------------------------------------------
(* What run.json may never lose.  A step that is not in one of the first    *)
(* two cases below changes outcomes only.                                   *)

NeverLost ==
    /\ \A t \in Tasks : /\ disk'.sessions[t] >= disk.sessions[t]
                        /\ disk'.decisions[t] >= disk.decisions[t]
    /\ disk'.repairs >= disk.repairs /\ disk'.followups >= disk.followups
    /\ disk.outcome = "success" => disk' = disk
    /\ disk.delivered => /\ disk'.delivered /\ disk'.checks = disk.checks
                         /\ disk'.repairs = disk.repairs /\ disk'.sessions = disk.sessions

\* A controller goes to work only on a run that is not delivered.
LEMMA AtWork ==
    ASSUME CInv, pc \notin Resting
    PROVE  ~disk.delivered /\ disk.outcome # "success"
  BY DEF CInv, Earned

\* A step of a working controller takes no counter back.
LEMMA WorkStep ==
    ASSUME CInv, pc \notin Resting,
           \/ OpenSession \/ SessionsSpent \/ Decide \/ RequestFollowup \/ Accept
           \/ Export \/ Publish \/ CountRepair
           \/ Goto("export", "count_repair") /\ Save([mem EXCEPT !.checks = "failed"])
    PROVE  NeverLost
<1> USE DEF Save
<1>t. /\ mem \in RunRecords /\ disk \in RunRecords /\ ctl.task \in Tasks
      /\ mem.sessions = disk.sessions /\ mem.decisions = disk.decisions
      /\ mem.repairs = disk.repairs /\ mem.followups = disk.followups
      /\ disk.sessions \in [Tasks -> Nat] /\ disk.decisions \in [Tasks -> Nat]
      /\ disk.repairs \in Nat /\ disk.followups \in Nat
    BY DEF CInv, Counted, TypeOK, RunRecords, Locals
<1>1. ~disk.delivered /\ disk.outcome # "success"
    BY AtWork
<1>2. CASE OpenSession
  <2>1. /\ disk'.sessions = [disk.sessions EXCEPT ![ctl.task] = @ + 1]
        /\ disk'.decisions = disk.decisions
        /\ disk'.repairs = disk.repairs /\ disk'.followups = disk.followups
      BY <1>2, <1>t DEF OpenSession, RunRecords
  <2> QED
      BY <1>t, <1>1, <2>1 DEF NeverLost
<1>3. CASE Decide
  <2>1. /\ disk'.decisions = [disk.decisions EXCEPT ![ctl.task] = @ + 1]
        /\ disk'.sessions = disk.sessions
        /\ disk'.repairs = disk.repairs /\ disk'.followups = disk.followups
      BY <1>3, <1>t DEF Decide, RunRecords
  <2> QED
      BY <1>t, <1>1, <2>1 DEF NeverLost
<1>4. CASE RequestFollowup \/ CountRepair
  <2>1. /\ disk'.sessions = disk.sessions /\ disk'.decisions = disk.decisions
        /\ disk'.repairs \in {disk.repairs, disk.repairs + 1}
        /\ disk'.followups \in {disk.followups, disk.followups + 1}
      BY <1>4, <1>t DEF RequestFollowup, CountRepair, RunRecords
  <2> QED
      BY <1>t, <1>1, <2>1 DEF NeverLost
<1>5. CASE \/ SessionsSpent \/ Accept \/ Export \/ Publish
           \/ Goto("export", "count_repair") /\ Save([mem EXCEPT !.checks = "failed"])
  <2>1. /\ disk'.sessions = disk.sessions /\ disk'.decisions = disk.decisions
        /\ disk'.repairs = disk.repairs /\ disk'.followups = disk.followups
      BY <1>5, <1>t DEF SessionsSpent, Accept, Export, Publish, RunRecords
  <2> QED
      BY <1>t, <1>1, <2>1 DEF NeverLost
<1> QED
    BY <1>2, <1>3, <1>4, <1>5

\* Any other step changes the recorded outcome at most, and that of a
\* successful run not at all.
LEMMA RecordStep ==
    ASSUME CInv, disk' = [disk EXCEPT !.outcome = disk'.outcome],
           disk.outcome = "success" => disk' = disk
    PROVE  NeverLost
<1>1. /\ disk \in RunRecords
      /\ disk.sessions \in [Tasks -> Nat] /\ disk.decisions \in [Tasks -> Nat]
      /\ disk.repairs \in Nat /\ disk.followups \in Nat
    BY DEF CInv, TypeOK, RunRecords
<1>2. /\ disk'.sessions = disk.sessions /\ disk'.decisions = disk.decisions
      /\ disk'.repairs = disk.repairs /\ disk'.followups = disk.followups
      /\ disk'.delivered = disk.delivered /\ disk'.checks = disk.checks
    BY <1>1 DEF RunRecords
<1> QED
    BY <1>1, <1>2 DEF NeverLost

LEMMA StepLosesNothing == CInv /\ [Next]_vars => NeverLost
<1> SUFFICES ASSUME CInv, [Next]_vars PROVE NeverLost
    OBVIOUS
<1> USE DEF Goto, Keep, Assign, End, Resting
<1>t. /\ disk \in RunRecords /\ mem \in RunRecords
      /\ mem = [disk EXCEPT !.outcome = mem.outcome]
      /\ disk = [disk EXCEPT !.outcome = disk.outcome]
      /\ disk.outcome = "success" => pc = "down"
    BY DEF CInv, TypeOK, Counted, Earned, RunRecords
<1>1. CASE \/ OpenSession \/ SessionsSpent \/ Decide \/ RequestFollowup \/ Accept
           \/ Export \/ Publish \/ CountRepair
           \/ Goto("export", "count_repair") /\ Save([mem EXCEPT !.checks = "failed"])
  <2>1. pc \notin Resting
      BY <1>1 DEF OpenSession, SessionsSpent, Decide, RequestFollowup, Accept, Export, Publish,
                  CountRepair
  <2> QED
      BY <1>1, <2>1, WorkStep
<1>2. CASE Prepare \/ Close
  <2>1. disk' = [disk EXCEPT !.outcome = disk'.outcome] /\ pc # "down"
      BY <1>2, <1>t DEF Prepare, Close, Save, RunRecords
  <2> QED
      BY <1>t, <2>1, RecordStep
<1>3. CASE UNCHANGED disk
    BY <1>t, <1>3, RecordStep
<1>4. CASE \/ Start \/ ReportAgain \/ Crash \/ TimeRunsOut \/ MoneyRunsOut \/ Interrupt
           \/ Reconfigure \/ UNCHANGED vars
  <2>1. UNCHANGED disk
      BY <1>4 DEF Start, ReportAgain, Crash, Die, TimeRunsOut, MoneyRunsOut, Expire, Interrupt,
                  Reconfigure, vars
  <2> QED
      BY <2>1, <1>3
<1>5. CASE Alarm
  <2>1. \/ UNCHANGED disk
        \/ Goto("export", "count_repair") /\ Save([mem EXCEPT !.checks = "failed"])
      BY <1>5 DEF Alarm, Die, RaisedWhileVerifying
  <2> QED
      BY <2>1, <1>1, <1>3
<1>6. CASE \/ ImageFound \/ PrepareFails \/ NextTask \/ TasksDone \/ OutOfBudget \/ DecisionsSpent
           \/ Answer \/ CallFails \/ ToolDone \/ Finish \/ Verified \/ ActionRaises \/ TryExport
           \/ RepairFailed \/ Redeliver \/ RepairsSpent \/ Report
  <2>1. UNCHANGED disk
      BY <1>6 DEF ImageFound, PrepareFails, NextTask, TasksDone, OutOfBudget, DecisionsSpent, Answer,
                  CallFails, ToolDone, Finish, Verified, ActionRaises, TryExport, RepairFailed, Redeliver,
                  RepairsSpent, Report
  <2> QED
      BY <2>1, <1>3
<1> QED
    BY <1>1, <1>2, <1>3, <1>4, <1>5, <1>6 DEF Next, Step

\* Under all faults the counters of run.json are never taken back, success is
\* final, and a delivered run keeps its delivery, its checks, its repairs and
\* its sessions.
THEOREM ForgetsNothing == Spec => NothingForgotten
<1>1. CInv /\ [Next]_vars => [NeverLost]_vars
    BY StepLosesNothing
<1> QED
    BY <1>1, InitInv, StepInv, PTL DEF Spec, NothingForgotten, NeverLost
=============================================================================
