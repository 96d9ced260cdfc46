------------------------------ MODULE RunStore ------------------------------
(***************************************************************************)
(* The task, action, checkpoint and recovery state of one generation run   *)
(* (nepa/run_store.py) under the controller that drives it (the session    *)
(* loop of agents/session.py inside the task loop of orchestrator.py).     *)
(*                                                                         *)
(* disk is run.json and mem the dictionary RunStore.run of the live        *)
(* controller: save() is the only step that copies mem to disk.  The       *)
(* project directory, the bare git repository and the archive directory    *)
(* are durable and change at once, so a crash sees every combination.      *)
(*                                                                         *)
(* A project tree is the set of edits it was built from; tree_hashes       *)
(* compares trees, so it is the tree itself (a missing directory hashes    *)
(* like an empty one).  Two different histories with equal files are       *)
(* told apart here, which only makes the comparisons stricter.             *)
(***************************************************************************)
EXTENDS Naturals

CONSTANTS NTasks,         \* tasks of the plan, a serial chain 1..NTasks
          ToolEdits,      \* edits a tool or a build can make (a bound)
          OperatorEdits,  \* edits a person can make by hand (a bound)
          Faults          \* what the environment may do, a subset of FaultKinds

\* "crash" kills the controller outside recover(), "recovery_crash" inside;
\* "interrupt" is SIGINT or the deadline's SIGALRM, raised between two steps;
\* "offline_edit" is a manual change while no controller is running, "idle_edit"
\* one while a controller is between two actions, waiting for the model.
FaultKinds == {"crash", "recovery_crash", "interrupt", "offline_edit", "idle_edit"}

ASSUME NTasksAssumption == NTasks \in Nat \ {0}
ASSUME EditsAssumption == ToolEdits \cap OperatorEdits = {}
ASSUME MissingAssumption == "missing" \notin ToolEdits \cup OperatorEdits
ASSUME FaultsAssumption == Faults \subseteq FaultKinds

VARIABLES disk,      \* run.json
          mem,       \* RunStore.run of the live controller, disk when there is none
          tree,      \* the project directory: a tree, or Missing
          archived,  \* the edits in the trees under interrupted/
          commits,   \* the checkpoints in checkpoints.git
          pc,        \* where the controller is
          ctl,       \* the controller's locals
          made,      \* history: every edit ever made
          gated      \* history: the trees that passed the finish gate of a task

vars == <<disk, mem, tree, archived, commits, pc, ctl, made, gated>>
history == <<made, gated>>
store == <<archived, commits>>

-----------------------------------------------------------------------------
Tasks == 1..NTasks
Final == NTasks                       \* final-integration closes every plan
Edits == ToolEdits \cup OperatorEdits
Trees == SUBSET Edits
Missing == {"missing"}                \* no tree: there is no project directory
Commits == [task : 0..NTasks, tree : Trees]
EmptyCommit == [task |-> 0, tree |-> {}]   \* "empty generated project"

RunRecords ==
    [status : [Tasks -> {"pending", "running", "failed", "passed"}],
     checkpoint : [Tasks -> Commits],  \* EmptyCommit: the task has none
     accepted : Commits,               \* accepted_checkpoint
     current : 0..NTasks,              \* current_task, 0 for None
     pending : BOOLEAN,                \* pending_action is set
     working : Trees]                  \* working_hashes

Locals == [phase : {"tasks", "final"},   \* which loop of Orchestrator.run
           task : 0..NTasks,             \* the task of the session
           finished : BOOLEAN,           \* the action passed the finish gate
           commit : Commits]             \* the commit accept() just made

RecoveryPoints == {"recover", "replace_tree", "restore", "rehash", "save_recovery"}
Points == {"down", "loop", "save_session", "decide", "save_action", "tool",
           "clear_action", "rehash_action", "save_result", "git_commit",
           "mark_passed", "move_checkpoint", "release", "save_accept",
           "done"} \cup RecoveryPoints

TypeOK ==
    /\ disk \in RunRecords
    /\ mem \in RunRecords
    /\ tree \in Trees \cup {Missing}
    /\ archived \subseteq Edits
    /\ commits \subseteq Commits
    /\ pc \in Points
    /\ ctl \in Locals
    /\ made \subseteq Edits
    /\ gated \subseteq Commits

Hashes(t) == IF t = Missing THEN {} ELSE t      \* tree_hashes

NewRun == [status |-> [t \in Tasks |-> "pending"],
           checkpoint |-> [t \in Tasks |-> EmptyCommit],
           accepted |-> EmptyCommit, current |-> 0,
           pending |-> FALSE, working |-> {}]

NewControl == [phase |-> "tasks", task |-> 0, finished |-> FALSE, commit |-> EmptyCommit]

\* RunStore.initialize has published the run directory and the same process
\* goes on to Orchestrator.run.
Init ==
    /\ disk = NewRun
    /\ mem = NewRun
    /\ tree = {}
    /\ archived = {}
    /\ commits = {EmptyCommit}
    /\ pc = "loop"
    /\ ctl = NewControl
    /\ made = {}
    /\ gated = {}

-----------------------------------------------------------------------------
(* Steps of the controller.                                                *)

Goto(from, to) == pc = from /\ pc' = to

\* RunStore.save: the dictionary replaces run.json in one rename.
Save(from, to) ==
    /\ Goto(from, to)
    /\ disk' = mem
    /\ UNCHANGED <<mem, tree, store, ctl, history>>

\* An assignment to the in-memory dictionary.
Assign(from, to, run) ==
    /\ Goto(from, to)
    /\ mem' = run
    /\ UNCHANGED <<disk, tree, store, history>>

\* The controller process ends, having saved what it holds.
Exit ==
    /\ disk' = mem
    /\ pc' = "down"
    /\ ctl' = NewControl
    /\ UNCHANGED <<mem, tree, store, history>>

AllPassed(run) == \A t \in Tasks : run.status[t] = "passed"
NextTask(run, t) == /\ run.status[t] # "passed"
                    /\ \A u \in 1..(t-1) : run.status[u] = "passed"

\* Orchestrator.run picks the first task that is not passed, or, when all are
\* and the delivery failed, repairs the final task; the session opens on it.
OpenSession(t) ==
    /\ IF ctl.phase = "tasks" /\ ~AllPassed(mem) THEN NextTask(mem, t) ELSE t = Final
    /\ Assign("loop", "save_session",
              [mem EXCEPT !.status[t] = "running", !.current = t])
    /\ ctl' = [ctl EXCEPT !.task = t,
                          !.phase = IF AllPassed(mem) THEN "final" ELSE @]

SaveSession == Save("save_session", "decide")

\* start_action refuses a tree it did not leave behind itself.
StartAction ==
    /\ Hashes(tree) = mem.working
    /\ Assign("decide", "save_action", [mem EXCEPT !.pending = TRUE])
    /\ ctl' = [ctl EXCEPT !.finished = FALSE]

RefuseAction == pc = "decide" /\ Hashes(tree) # mem.working /\ Exit

SaveAction == Save("save_action", "tool")

Edit(pool) == \E e \in pool \ made :
    /\ tree' = tree \cup {e}
    /\ made' = made \cup {e}
WriteProject == Edit(ToolEdits) \/ UNCHANGED <<tree, made>>

\* A tool that may write the project, whatever it returns.
RunTool ==
    /\ Goto("tool", "clear_action")
    /\ WriteProject
    /\ UNCHANGED <<disk, mem, store, ctl, gated>>

\* The finish tool: the build writes its artifacts into the project, and build
\* and verification pass on the tree that results.
PassGate ==
    /\ Goto("tool", "clear_action")
    /\ WriteProject
    /\ ctl' = [ctl EXCEPT !.finished = TRUE]
    /\ gated' = gated \cup {[task |-> ctl.task, tree |-> tree']}
    /\ UNCHANGED <<disk, mem, store>>

\* A tool or the gate raises an error that is not turned into a result, after
\* it may have written: the run ends with its action still pending.
ToolRaises ==
    /\ Goto("tool", "down")
    /\ WriteProject
    /\ disk' = mem
    /\ ctl' = NewControl
    /\ UNCHANGED <<mem, store, gated>>

\* finish_action: the pending action is cleared before the tree is hashed.
ClearAction ==
    /\ Assign("clear_action", "rehash_action", [mem EXCEPT !.pending = FALSE])
    /\ UNCHANGED ctl

\* Mutant of RehashAction: the recorded hashes are those from before the tool.
SkipRehash == Goto("rehash_action", "save_result") /\ UNCHANGED <<disk, mem, tree, store, ctl, history>>

RehashAction ==
    /\ Assign("rehash_action", "save_result", [mem EXCEPT !.working = Hashes(tree)])
    /\ UNCHANGED ctl

\* Mutant of SaveResult: the verdict of the gate is not looked at.
SaveUnchecked == Save("save_result", "git_commit")

SaveResult == Save("save_result", IF ctl.finished THEN "git_commit" ELSE "decide")

\* accept: the git commit, then four assignments, then the save.
CommitProject ==
    /\ Goto("git_commit", "mark_passed")
    /\ commits' = commits \cup {[task |-> ctl.task, tree |-> tree]}
    /\ ctl' = [ctl EXCEPT !.commit = [task |-> ctl.task, tree |-> tree]]
    /\ UNCHANGED <<disk, mem, tree, archived, history>>

\* Mutant of MarkPassed: the verdict is published on its own.
PublishVerdict ==
    /\ Goto("mark_passed", "move_checkpoint")
    /\ mem' = [mem EXCEPT !.status[ctl.task] = "passed",
                           !.checkpoint[ctl.task] = ctl.commit]
    /\ disk' = mem'
    /\ UNCHANGED <<tree, store, ctl, history>>

MarkPassed ==
    /\ Assign("mark_passed", "move_checkpoint",
              [mem EXCEPT !.status[ctl.task] = "passed",
                          !.checkpoint[ctl.task] = ctl.commit])
    /\ UNCHANGED ctl

MoveCheckpoint ==
    /\ Assign("move_checkpoint", "release", [mem EXCEPT !.accepted = ctl.commit])
    /\ UNCHANGED ctl

\* Mutant of ReleaseTask: the run moves on to the next number by itself.
AdvanceTask ==
    /\ Assign("release", "save_accept",
              [mem EXCEPT !.working = Hashes(tree), !.current = ctl.task + 1, !.pending = FALSE])
    /\ ctl' = [NewControl EXCEPT !.phase = ctl.phase]

ReleaseTask ==
    /\ Assign("release", "save_accept",
              [mem EXCEPT !.working = Hashes(tree), !.current = 0, !.pending = FALSE])
    /\ ctl' = [NewControl EXCEPT !.phase = ctl.phase]

SaveAccept == Save("save_accept", "loop")

\* The sessions of the task are spent, perhaps by an earlier controller: the
\* task fails.  In the task loop that ends the run; in a final repair, which
\* always opens a session, the loop goes on.
FailTask(t) ==
    /\ \/ pc = "decide" /\ t = ctl.task
       \/ pc = "loop" /\ ctl.phase = "tasks" /\ ~AllPassed(mem) /\ NextTask(mem, t)
    /\ mem' = [mem EXCEPT !.status[t] = "failed"]
    /\ disk' = mem'
    /\ IF ctl.phase = "final"
       THEN pc' = "loop" /\ UNCHANGED ctl
       ELSE pc' = "down" /\ ctl' = NewControl
    /\ UNCHANGED <<tree, store, history>>

\* A limit or an error raised where no dictionary is half written; at
\* git_commit and restore it is a git command that fails.
StopEarly == pc \in {"loop", "decide", "git_commit", "restore"} /\ Exit

Deliver ==
    /\ AllPassed(mem)
    /\ Goto("loop", "done")
    /\ UNCHANGED <<disk, mem, tree, store, ctl, history>>

-----------------------------------------------------------------------------
(* Resumption: RunStore.open and recover().                                *)

Resume ==
    /\ Goto("down", "recover")
    /\ mem' = disk
    /\ UNCHANGED <<disk, tree, store, ctl, history>>

Drifted(run) == Hashes(tree) # run.working /\ ~run.pending

RefuseRecovery == pc = "recover" /\ Drifted(mem) /\ Exit

NothingToRecover ==
    /\ ~Drifted(mem)
    /\ mem.current = 0 /\ ~mem.pending
    /\ Goto("recover", "loop")
    /\ UNCHANGED <<disk, mem, tree, store, ctl, history>>

\* Mutant of ArchiveTree: the interrupted tree is removed.
RemoveTree ==
    /\ ~Drifted(mem)
    /\ mem.current # 0 \/ mem.pending
    /\ tree # Missing
    /\ Goto("recover", "replace_tree")
    /\ tree' = Missing
    /\ UNCHANGED <<disk, mem, store, ctl, history>>

\* os.replace moves the whole project away ...
ArchiveTree ==
    /\ ~Drifted(mem)
    /\ mem.current # 0 \/ mem.pending
    /\ tree # Missing
    /\ Goto("recover", "replace_tree")
    /\ archived' = archived \cup tree
    /\ tree' = Missing
    /\ UNCHANGED <<disk, mem, commits, ctl, history>>

\* ... and raises FileNotFoundError when there is none.
ArchiveFails ==
    /\ pc = "recover" /\ ~Drifted(mem)
    /\ mem.current # 0 \/ mem.pending
    /\ tree = Missing
    /\ Exit

MakeProject ==
    /\ Goto("replace_tree", "restore")
    /\ tree' = {}
    /\ UNCHANGED <<disk, mem, store, ctl, history>>

\* Mutant of RestoreCheckpoint: the fresh working copy stays empty.
SkipRestore ==
    /\ Goto("restore", "rehash")
    /\ UNCHANGED <<disk, mem, tree, store, ctl, history>>

\* checkout-index writes the files of the checkpoint and removes none.
RestoreCheckpoint ==
    /\ Goto("restore", "rehash")
    /\ tree' = tree \cup mem.accepted.tree
    /\ UNCHANGED <<disk, mem, store, ctl, history>>

RehashRecovered ==
    /\ Assign("rehash", "save_recovery",
              [mem EXCEPT !.working = Hashes(tree), !.pending = FALSE])
    /\ UNCHANGED ctl

SaveRecovery == Save("save_recovery", "loop")

\* A later run or resume of a successful run reports it again.
ReportAgain == pc = "done" /\ UNCHANGED vars

-----------------------------------------------------------------------------
(* The environment.                                                        *)

Live == pc \notin {"down", "done"}

\* The process is killed: whatever was not saved is gone.
Crash ==
    /\ Live
    /\ (IF pc \in RecoveryPoints THEN "recovery_crash" ELSE "crash") \in Faults
    /\ pc' = "down"
    /\ mem' = disk
    /\ ctl' = NewControl
    /\ UNCHANGED <<disk, tree, store, history>>

\* KeyboardInterrupt, or BudgetExhausted from the alarm: the handler of
\* Orchestrator.run records the outcome and saves the dictionary as it stands.
Interrupt == Live /\ "interrupt" \in Faults /\ Exit

OperatorEdit ==
    /\ \/ pc = "down" /\ "offline_edit" \in Faults
       \/ pc \in {"loop", "decide"} /\ "idle_edit" \in Faults
    /\ tree # Missing
    /\ Edit(OperatorEdits)
    /\ UNCHANGED <<disk, mem, store, pc, ctl, gated>>

Controller ==
    \/ \E t \in Tasks : OpenSession(t) \/ FailTask(t)
    \/ SaveSession \/ StartAction \/ RefuseAction \/ SaveAction
    \/ RunTool \/ PassGate \/ ToolRaises \/ ClearAction \/ RehashAction \/ SaveResult
    \/ CommitProject \/ MarkPassed \/ MoveCheckpoint \/ ReleaseTask \/ SaveAccept
    \/ StopEarly \/ Deliver \/ ReportAgain

Recovery ==
    \/ Resume \/ RefuseRecovery \/ NothingToRecover \/ ArchiveTree \/ ArchiveFails
    \/ MakeProject \/ RestoreCheckpoint \/ RehashRecovered \/ SaveRecovery

Next == Controller \/ Recovery \/ Crash \/ Interrupt \/ OperatorEdit

Spec == Init /\ [][Next]_vars

-----------------------------------------------------------------------------
(* Properties.                                                             *)

PassedOn(run) == {t \in Tasks : run.status[t] = "passed"}

\* Every task run.json calls passed has the checkpoint of an accepted commit,
\* and the code the next resume restores contains that checkpoint's code:
\* no crash separates a task's verdict from its code (accept, recover).
AcceptedIntact ==
    \A t \in PassedOn(disk) :
        /\ disk.checkpoint[t] \in commits
        /\ disk.checkpoint[t].task = t
        /\ disk.checkpoint[t].tree \subseteq disk.accepted.tree

\* Code is accepted only for the task and in the very state in which the
\* finish gate passed; an orphan commit never becomes the checkpoint of a
\* task that was not gated (session.run, accept).
AcceptedWasGated ==
    disk.accepted # EmptyCommit => disk.accepted \in gated

\* No edit of a tool or of a person is ever destroyed: it is in the project,
\* in an archived tree or in a checkpoint (recover preserves the tree).
EditsKept ==
    \A e \in made : \/ tree # Missing /\ e \in tree
                    \/ e \in archived
                    \/ \E c \in commits : e \in c.tree

ResumeBlocked ==
    /\ pc = "down"
    /\ \/ Drifted(disk)
       \/ tree = Missing /\ (disk.current # 0 \/ disk.pending)

ManualChange == tree # Missing /\ (tree \ disk.working) \cap OperatorEdits # {}
HalfRestored == tree \in {Missing, {}, disk.accepted.tree}

\* A resume is refused, or fails, only after a manual change of the project or
\* over a working copy that an earlier recovery left half restored.
BlockedByKnownCause == ResumeBlocked => ManualChange \/ HalfRestored

\* A resume is refused only because a person changed the project.
BlockedByManualChange == ResumeBlocked => ManualChange

\* The accepted code of the run is only ever extended, through every resume,
\* repair and interruption.
CodeOnlyGrows == [][disk.accepted.tree \subseteq disk'.accepted.tree]_vars

\* run.json implements the abstract progress of a run: tasks are accepted in
\* order, each in one step with its code.
Progress == INSTANCE AcceptedProgress WITH
    passed <- PassedOn(disk),
    built <- [t \in Tasks |-> disk.checkpoint[t].tree],
    code <- disk.accepted.tree
AcceptanceIsAtomic == Progress!Spec
=============================================================================
