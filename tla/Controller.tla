----------------------------- MODULE Controller -----------------------------
(***************************************************************************)
(* One generation run under its controllers, for its budgets and outcomes: *)
(* Orchestrator.run (orchestrator.py) around CodingSession.run             *)
(* (agents/session.py), with the deadline and check_budget of run_store.py.*)
(*                                                                         *)
(* disk is run.json, mem the dictionary of the live controller.  An        *)
(* assignment and the save() that follows it are one action here: what an  *)
(* interrupt between the two publishes is the subject of RunStore and      *)
(* PlanRevisions.  Trees, plans' files, prompts and prices are left out.   *)
(*                                                                         *)
(* The plan is 1..NBase, the follow-ups appended so far and Final, in that *)
(* numeric order: a follow-up is inserted before the last task.            *)
(***************************************************************************)
EXTENDS Naturals

CONSTANTS NBase,                \* tasks of the first plan before final-integration
          Followups,            \* budgets.followups
          SessionsPerTask,      \* budgets.sessions_per_task
          DecisionsPerSession,  \* budgets.decisions_per_session
          FinalRepairs,         \* budgets.final_repairs
          MaxReconfigured,      \* explicit reconfigurations (a bound)
          Faults                \* a subset of FaultKinds

\* "deadline" lets the wall clock run out, "cost" the money.
FaultKinds == {"crash", "interrupt", "deadline", "cost"}

ASSUME BudgetsAssumption ==
    /\ NBase \in Nat /\ Followups \in Nat /\ FinalRepairs \in Nat /\ MaxReconfigured \in Nat
    /\ SessionsPerTask \in Nat \ {0} /\ DecisionsPerSession \in Nat \ {0}
ASSUME FaultsAssumption == Faults \subseteq FaultKinds

VARIABLES disk,     \* run.json
          mem,      \* RunStore.run of the live controller, disk when there is none
          pc,       \* where the controller is
          ctl,      \* its locals: the task, the sessions left to open, the decisions left
          limits,   \* which limits are reached: a subset of {"time", "cost"}
          alarm,    \* the deadline's one-shot timer
          reconfigured   \* how often the limits were raised

vars == <<disk, mem, pc, ctl, limits, alarm, reconfigured>>
environment == <<limits, alarm, reconfigured>>

-----------------------------------------------------------------------------
Final == NBase + Followups + 1
Tasks == 1..Final
Planned(run) == {t \in Tasks : t <= NBase + run.followups \/ t = Final}

Outcomes == {"success", "budget_exhausted", "interrupted", "invalid", "failed", "internal_error"}
ExitCode == [success |-> 0, internal_error |-> 1, failed |-> 2, budget_exhausted |-> 3,
             invalid |-> 20, interrupted |-> 130]

RunRecords ==
    [outcome : Outcomes \cup {"pending", "running"},
     status : [Tasks -> {"pending", "running", "failed", "passed"}],
     sessions : [Tasks -> Nat],
     decisions : [Tasks -> Nat],
     followups : 0..Followups,
     repairs : 0..FinalRepairs,            \* final_repairs
     checks : {"none", "failed", "passed"},   \* final_checks
     delivered : BOOLEAN]

Locals == [task : Tasks, repair : BOOLEAN, sessions : 0..SessionsPerTask, decisions : 0..DecisionsPerSession]

Points == {"down", "prepare", "image", "tasks", "sessions", "decide", "call", "act", "verify",
           "accept", "repairs", "export", "count_repair", "publish", "report", "save"}

TypeOK ==
    /\ disk \in RunRecords
    /\ mem \in RunRecords
    /\ pc \in Points
    /\ ctl \in Locals
    /\ limits \subseteq {"time", "cost"}
    /\ alarm \in {"off", "armed", "fired"}
    /\ reconfigured \in 0..MaxReconfigured

NewRun == [outcome |-> "pending", status |-> [t \in Tasks |-> "pending"],
           sessions |-> [t \in Tasks |-> 0], decisions |-> [t \in Tasks |-> 0],
           followups |-> 0, repairs |-> 0, checks |-> "none", delivered |-> FALSE]
NoSession == [task |-> Final, repair |-> FALSE, sessions |-> 0, decisions |-> 0]

\* RunStore.initialize has published the run; run_command starts its controller.
Init ==
    /\ disk = NewRun
    /\ mem = NewRun
    /\ pc = "down"
    /\ ctl = NoSession
    /\ limits = {}
    /\ alarm = "off"
    /\ reconfigured = 0

-----------------------------------------------------------------------------
Goto(from, to) == pc = from /\ pc' = to
Assign(run) == mem' = run /\ UNCHANGED disk
Save(run) == mem' = run /\ disk' = run
Keep == UNCHANGED <<disk, mem>>

\* A handler of Orchestrator.run: the outcome is assigned, then the report and
\* the save follow.
End(outcome) ==
    /\ pc' = "report"
    /\ Assign([mem EXCEPT !.outcome = outcome])

BudgetLeft == limits = {}
AllPassed(run) == \A t \in Planned(run) : run.status[t] = "passed"
Pending(run, t) == /\ t \in Planned(run) /\ run.status[t] # "passed"
                   /\ \A u \in Planned(run) : u < t => run.status[u] = "passed"

\* run and resume: lock and deadline, then the dictionary of the opened run.
Start ==
    /\ Goto("down", "prepare")
    /\ disk.outcome # "success"
    /\ mem' = disk
    /\ alarm' = "armed"
    /\ UNCHANGED <<disk, ctl, limits, reconfigured>>

\* A finished run is only reported again.
ReportAgain == pc = "down" /\ disk.outcome = "success" /\ UNCHANGED vars

\* recover and the inputs are in order.
Prepare ==
    /\ Goto("prepare", "image")
    /\ Save([mem EXCEPT !.outcome = "running"])
    /\ UNCHANGED <<ctl, environment>>

\* So is the sandbox image.
ImageFound ==
    /\ Goto("image", "tasks")
    /\ Keep /\ UNCHANGED <<ctl, environment>>

PrepareFails ==
    /\ pc \in {"prepare", "image"}
    /\ \E outcome \in {"invalid", "failed", "internal_error"} : End(outcome)
    /\ UNCHANGED <<ctl, environment>>

\* Mutant of RemainingSessions: a resumed task gets all its sessions again.
FullSessions(t) == SessionsPerTask

RemainingSessions(t) == IF mem.sessions[t] < SessionsPerTask THEN SessionsPerTask - mem.sessions[t] ELSE 0

NextTask ==
    /\ Goto("tasks", "sessions")
    /\ BudgetLeft
    /\ \E t \in Tasks :
        /\ Pending(mem, t)
        /\ ctl' = [NoSession EXCEPT !.task = t, !.sessions = RemainingSessions(t)]
    /\ Keep /\ UNCHANGED environment

TasksDone ==
    /\ Goto("tasks", "repairs")
    /\ BudgetLeft
    /\ AllPassed(mem)
    /\ Keep /\ UNCHANGED <<ctl, environment>>

\* check_budget raises, at a round of the task loop or at a decision.
OutOfBudget ==
    /\ pc = "tasks" \/ (pc = "decide" /\ ctl.decisions > 0)
    /\ ~BudgetLeft
    /\ End("budget_exhausted")
    /\ UNCHANGED <<ctl, environment>>

-----------------------------------------------------------------------------
(* CodingSession.run.                                                      *)

OpenSession ==
    /\ Goto("sessions", "decide")
    /\ ctl.sessions > 0
    /\ Save([mem EXCEPT !.sessions[ctl.task] = @ + 1, !.status[ctl.task] = "running"])
    /\ ctl' = [ctl EXCEPT !.sessions = @ - 1, !.decisions = DecisionsPerSession]
    /\ UNCHANGED environment

\* Every session is spent: the task fails, and with it the run, unless this
\* was a repair session.
SessionsSpent ==
    /\ pc = "sessions" /\ ctl.sessions = 0
    /\ LET failed == [mem EXCEPT !.status[ctl.task] = "failed"] IN
       IF ctl.repair
       THEN pc' = "repairs" /\ Save(failed)
       ELSE /\ pc' = "report"
            /\ disk' = failed
            /\ mem' = [failed EXCEPT !.outcome = "failed"]
    /\ UNCHANGED <<ctl, environment>>

DecisionsSpent ==
    /\ Goto("decide", "sessions")
    /\ ctl.decisions = 0
    /\ Keep /\ UNCHANGED <<ctl, environment>>

\* Mutant of Decide: only an action that runs is to be counted.
DecideUncounted ==
    /\ Goto("decide", "call")
    /\ ctl.decisions > 0
    /\ BudgetLeft
    /\ Keep /\ UNCHANGED <<ctl, environment>>

\* A decision is counted and saved before the model is asked.
Decide ==
    /\ Goto("decide", "call")
    /\ ctl.decisions > 0
    /\ BudgetLeft
    /\ Save([mem EXCEPT !.decisions[ctl.task] = @ + 1])
    /\ ctl' = [ctl EXCEPT !.decisions = @ - 1]
    /\ UNCHANGED environment

\* The model answers: an action that is started, or nothing usable.
Answer ==
    /\ \/ Goto("call", "act")
       \/ Goto("call", "decide")
    /\ Keep /\ UNCHANGED <<ctl, environment>>

\* The request does not fit the context or the campaign, the provider fails for
\* good, or start_action finds a changed project.
CallFails ==
    /\ pc = "call"
    /\ \E outcome \in {"budget_exhausted", "failed", "invalid", "internal_error"} : End(outcome)
    /\ UNCHANGED <<ctl, environment>>

\* A tool ran, or an action was refused with an error the model can read.
ToolDone ==
    /\ Goto("act", "decide")
    /\ Keep /\ UNCHANGED <<ctl, environment>>

\* append_followup; a request it refuses is a ToolDone.
RequestFollowup ==
    /\ Goto("act", "decide")
    /\ ctl.task # Final
    /\ mem.followups < Followups
    /\ mem.sessions[ctl.task] < SessionsPerTask
    /\ Save([mem EXCEPT !.followups = @ + 1])
    /\ UNCHANGED <<ctl, environment>>

\* finish: the build passed; the final task is verified as well.
Finish ==
    /\ Goto("act", IF ctl.task = Final THEN "verify" ELSE "accept")
    /\ Keep /\ UNCHANGED <<ctl, environment>>

Verified ==
    /\ \/ Goto("verify", "accept")
       \/ Goto("verify", "decide")
    /\ Keep /\ UNCHANGED <<ctl, environment>>

\* An error no handler of the session turns into a result: the executor's, or
\* that containers could not be removed.
ActionRaises ==
    /\ pc \in {"act", "verify", "accept", "export", "publish"}
    /\ \E outcome \in {"invalid", "failed", "internal_error"} : End(outcome)
    /\ UNCHANGED <<ctl, environment>>

Accept ==
    /\ Goto("accept", IF ctl.repair THEN "repairs" ELSE "tasks")
    /\ Save([mem EXCEPT !.status[ctl.task] = "passed"])
    /\ UNCHANGED <<ctl, environment>>

-----------------------------------------------------------------------------
(* The repair loop and the delivery.                                       *)

\* Mutant of TryExport: a failed repair is followed by another export.
ExportAnyway ==
    /\ Goto("repairs", "export")
    /\ ~mem.delivered
    /\ Keep /\ UNCHANGED <<ctl, environment>>

TryExport ==
    /\ Goto("repairs", "export")
    /\ AllPassed(mem) /\ ~mem.delivered
    /\ Keep /\ UNCHANGED <<ctl, environment>>

RepairFailed ==
    /\ Goto("repairs", "count_repair")
    /\ ~AllPassed(mem)
    /\ Keep /\ UNCHANGED <<ctl, environment>>

Export ==
    /\ \E passed \in BOOLEAN :
        /\ Goto("export", IF passed THEN "publish" ELSE "count_repair")
        /\ Save([mem EXCEPT !.checks = IF passed THEN "passed" ELSE "failed"])
    /\ UNCHANGED <<ctl, environment>>

\* The delivery is moved into place and saved, then the outcome is assigned.
Publish ==
    /\ Goto("publish", "report")
    /\ disk' = [mem EXCEPT !.delivered = TRUE]
    /\ mem' = [mem EXCEPT !.delivered = TRUE, !.outcome = "success"]
    /\ UNCHANGED <<ctl, environment>>

\* A delivery published by an earlier controller is only compared again.
Redeliver ==
    /\ pc = "repairs"
    /\ AllPassed(mem) /\ mem.delivered
    /\ \E outcome \in {"success", "invalid"} : End(outcome)
    /\ UNCHANGED <<ctl, environment>>

\* Mutant of CountRepair: one repair too many.
CountOneMore ==
    /\ Goto("count_repair", "sessions")
    /\ mem.repairs <= FinalRepairs
    /\ Save([mem EXCEPT !.repairs = @ + 1])
    /\ ctl' = [task |-> Final, repair |-> TRUE, sessions |-> 1, decisions |-> 0]
    /\ UNCHANGED environment

CountRepair ==
    /\ Goto("count_repair", "sessions")
    /\ mem.repairs < FinalRepairs
    /\ Save([mem EXCEPT !.repairs = @ + 1])
    /\ ctl' = [task |-> Final, repair |-> TRUE, sessions |-> 1, decisions |-> 0]
    /\ UNCHANGED environment

RepairsSpent ==
    /\ pc = "count_repair"
    /\ mem.repairs = FinalRepairs
    /\ End("failed")
    /\ UNCHANGED <<ctl, environment>>

Report ==
    /\ Goto("report", "save")
    /\ \/ Keep
       \/ Assign([mem EXCEPT !.outcome = "internal_error"])
    /\ UNCHANGED <<ctl, environment>>

\* The last save; the lock is released and the timer disarmed.
Close ==
    /\ Goto("save", "down")
    /\ disk' = mem
    /\ ctl' = NoSession
    /\ alarm' = "off"
    /\ UNCHANGED <<mem, limits, reconfigured>>

-----------------------------------------------------------------------------
(* The environment.                                                        *)

Live == pc # "down"

\* The process is gone without the handlers' save.
Die ==
    /\ pc' = "down"
    /\ mem' = disk
    /\ ctl' = NoSession
    /\ UNCHANGED <<disk, limits, reconfigured>>

Crash == Live /\ "crash" \in Faults /\ Die /\ alarm' = "off"

Expire(limit, fault) ==
    /\ fault \in Faults
    /\ limit \notin limits
    /\ limits' = limits \cup {limit}
    /\ UNCHANGED <<disk, mem, pc, ctl, alarm, reconfigured>>

TimeRunsOut == Expire("time", "deadline")
MoneyRunsOut == pc \in {"call", "decide"} /\ Expire("cost", "cost")

\* Where an exception raised at this moment ends up.  VerificationRunner.run
\* turns a RuntimeError into a failed check, or, while it removes its
\* containers, into the error that the clean-up is incomplete.
RaisedWhileVerifying ==
    \/ Goto("verify", "decide") /\ Keep
    \/ Goto("export", "count_repair") /\ Save([mem EXCEPT !.checks = "failed"])
    \/ pc \in {"verify", "export"} /\ End("failed")

\* SIGALRM raises BudgetExhausted once, wherever the controller is; before the
\* try statement of Orchestrator.run and after it nothing catches it.
Alarm ==
    /\ Live /\ alarm = "armed" /\ "time" \in limits
    /\ \/ pc \in {"prepare", "report", "save"} /\ Die /\ alarm' = "off"
       \/ /\ alarm' = "fired"
          /\ \/ pc \notin {"report", "save"} /\ End("budget_exhausted")
             \/ Goto("report", "save") /\ Assign([mem EXCEPT !.outcome = "internal_error"])
             \/ RaisedWhileVerifying
          /\ UNCHANGED <<ctl, limits, reconfigured>>

\* SIGINT: only the handler of Orchestrator.run catches it.
Interrupt ==
    /\ Live /\ "interrupt" \in Faults
    /\ \/ pc \notin {"report", "save"} /\ End("interrupted") /\ UNCHANGED <<ctl, environment>>
       \/ pc \in {"prepare", "report", "save"} /\ Die /\ alarm' = "off"

\* Mutant of Reconfigure: the counters start afresh with the new limits.
ReconfigureAfresh ==
    /\ pc = "down"
    /\ disk.outcome # "success" /\ ~disk.delivered
    /\ limits # {} /\ reconfigured < MaxReconfigured
    /\ limits' = {}
    /\ reconfigured' = reconfigured + 1
    /\ Save([disk EXCEPT !.sessions = NewRun.sessions, !.decisions = NewRun.decisions])
    /\ UNCHANGED <<pc, ctl, alarm>>

\* reconfigure raises the limits of a run that is not delivered; its counters stay.
Reconfigure ==
    /\ pc = "down"
    /\ disk.outcome # "success" /\ ~disk.delivered
    /\ limits # {} /\ reconfigured < MaxReconfigured
    /\ limits' = {}
    /\ reconfigured' = reconfigured + 1
    /\ UNCHANGED <<disk, mem, pc, ctl, alarm>>

-----------------------------------------------------------------------------
Step ==
    \/ Prepare \/ ImageFound \/ PrepareFails \/ NextTask \/ TasksDone \/ OutOfBudget
    \/ OpenSession \/ SessionsSpent \/ DecisionsSpent \/ Decide \/ Answer \/ CallFails
    \/ ToolDone \/ RequestFollowup \/ Finish \/ Verified \/ ActionRaises \/ Accept
    \/ TryExport \/ RepairFailed \/ Export \/ Publish \/ Redeliver
    \/ CountRepair \/ RepairsSpent \/ Report \/ Close

Next ==
    \/ Step \/ Start \/ ReportAgain
    \/ Crash \/ TimeRunsOut \/ MoneyRunsOut \/ Alarm \/ Interrupt \/ Reconfigure

\* A live controller goes on: every external operation has a time limit of its
\* own (HTTP, docker and command timeouts).  Nobody is bound to start one.
Spec == Init /\ [][Next]_vars /\ WF_vars(Step)

-----------------------------------------------------------------------------
(* Properties.                                                             *)

\* No crash, resumption, repair or reconfiguration lets a task use more than
\* its sessions, a session more than its decisions, or the run more repairs
\* than allowed: the model is asked a bounded number of times, whatever
\* happens (session.py:111-126, orchestrator.py:86-89).  Nor is it asked by a
\* controller whose deadline has fired, although a running verification may
\* swallow that exception, which is raised once (verification.py:214).
WorkIsBounded ==
    /\ alarm = "fired" => pc # "call"
    /\ \A t \in Tasks :
          /\ disk.sessions[t] <= SessionsPerTask + (IF t = Final THEN disk.repairs ELSE 0)
          /\ disk.decisions[t] <= disk.sessions[t] * DecisionsPerSession

\* A recorded success has every task of the final plan passed, a passed export
\* and its delivery, follow-ups appended late included (orchestrator.py:74-96).
SuccessIsEarned ==
    disk.outcome = "success" => AllPassed(disk) /\ disk.checks = "passed" /\ disk.delivered

\* The counters of run.json are never taken back and success is final, through
\* crashes, resumptions and reconfigurations; a delivered run whose report or
\* last save did not come about is finished by later controllers without
\* another export, repair or session (orchestrator.py:19-23).
NothingForgotten ==
    [][ /\ \A t \in Tasks : /\ disk'.sessions[t] >= disk.sessions[t]
                            /\ disk'.decisions[t] >= disk.decisions[t]
        /\ disk'.repairs >= disk.repairs /\ disk'.followups >= disk.followups
        /\ disk.outcome = "success" => disk' = disk
        /\ disk.delivered => /\ disk'.delivered /\ disk'.checks = disk.checks
                             /\ disk'.repairs = disk.repairs /\ disk'.sessions = disk.sessions ]_vars

\* Every controller ends, whatever the model answers and the checks say.
ControllersEnd == Live ~> ~Live

\* What the deadline ends is recorded as budget_exhausted, exit code 3, not as
\* failed, exit code 2.
DeadlineIsNotFailure ==
    alarm = "fired" /\ pc = "save" => ExitCode[mem.outcome] # ExitCode["failed"]

\* After failed final checks the run is given up for want of sessions only when
\* its repairs are spent.
RepairsAllowed ==
    pc = "sessions" /\ ctl = NoSession /\ mem.checks = "failed" => mem.repairs = FinalRepairs
=============================================================================
