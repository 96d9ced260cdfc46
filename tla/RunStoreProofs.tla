--------------------------- MODULE RunStoreProofs ---------------------------
(***************************************************************************)
(* Theorems about RunStore, for every plan length, every set of edits and  *)
(* every combination of faults its hypotheses allow.                       *)
(***************************************************************************)
EXTENDS RunStore, TLAPS

USE DEF Tasks, Edits, Trees, Missing, Final, history, store

(***************************************************************************)
(* The project directory is missing only inside a recovery, or after one   *)
(* was cut short; run.json then still asks for that recovery.              *)
(***************************************************************************)
Present ==
    /\ pc \in {"down", "recover", "replace_tree"} => mem = disk
    /\ pc = "replace_tree" => tree = Missing
    /\ tree = Missing => /\ pc \in {"down", "recover", "replace_tree"}
                         /\ disk.current # 0 \/ disk.pending

InSession == {"save_session", "decide", "save_action", "tool", "clear_action",
              "rehash_action", "save_result", "git_commit", "mark_passed",
              "move_checkpoint"}

TypeInv == TypeOK /\ Present /\ (pc \in InSession => ctl.task \in Tasks)

(***************************************************************************)
(* Without interrupts the dictionary differs from run.json only between an *)
(* assignment and its save, and the working copy holds the accepted code   *)
(* wherever a session can run.                                             *)
(***************************************************************************)
Saved == {"down", "loop", "decide", "tool", "clear_action", "git_commit",
          "mark_passed", "recover", "replace_tree", "restore", "rehash", "done"}
Hashed == {"save_result", "git_commit", "mark_passed", "move_checkpoint",
           "release", "save_accept"}

IntactExcept(run, ts) ==
    \A t \in PassedOn(run) \ ts : /\ run.checkpoint[t] \in commits
                                  /\ run.checkpoint[t].task = t
                                  /\ run.checkpoint[t].tree \subseteq run.accepted.tree

Accepting ==
    /\ pc \in Saved => mem = disk
    /\ disk.accepted.tree \subseteq disk.working
    /\ mem.accepted.tree \subseteq mem.working
    /\ pc \notin {"down", "recover", "replace_tree", "restore"} => mem.accepted.tree \subseteq tree
    /\ pc \in Hashed => mem.working = tree
    /\ pc \in {"mark_passed", "move_checkpoint"} =>
          /\ ctl.commit = [task |-> ctl.task, tree |-> tree]
          /\ ctl.commit \in commits
    /\ IntactExcept(disk, {})
    /\ IntactExcept(mem, IF pc = "move_checkpoint" THEN {ctl.task} ELSE {})
    /\ pc = "move_checkpoint" => mem.checkpoint[ctl.task] = ctl.commit

IInv == TypeInv /\ Accepting

-----------------------------------------------------------------------------
LEMMA NewTypes == NewRun \in RunRecords /\ NewControl \in Locals /\ EmptyCommit \in Commits
<1>1. EmptyCommit \in Commits
    BY NTasksAssumption DEF EmptyCommit, Commits
<1>2. NewControl \in Locals
    BY <1>1, NTasksAssumption DEF NewControl, Locals
<1>3. NewRun \in RunRecords
    BY <1>1, NTasksAssumption DEF NewRun, RunRecords
<1> QED
    BY <1>1, <1>2, <1>3

LEMMA HashesType == \A t \in Trees \cup {Missing} : Hashes(t) \in Trees
  BY DEF Hashes

LEMMA MissingIsNoTree == Missing \notin Trees
  BY MissingAssumption

LEMMA InitTypeInv == Init => TypeInv
  BY NewTypes, MissingIsNoTree DEF Init, TypeInv, TypeOK, Present, InSession, Points, RecoveryPoints

LEMMA StepTypeInv == TypeInv /\ [Next]_vars => TypeInv'
<1> SUFFICES ASSUME TypeInv, [Next]_vars PROVE TypeInv'
    OBVIOUS
<1> USE HashesType, MissingIsNoTree DEF TypeInv, TypeOK, Present, InSession, Points, RecoveryPoints
<1>1. CASE \E t \in Tasks : OpenSession(t)
  <2>1. PICK t \in Tasks : OpenSession(t)
      BY <1>1
  <2>2. t \in 0..NTasks
      BY NTasksAssumption
  <2>3. ctl' \in Locals /\ ctl'.task = t
    <3>1. PICK ph \in {"tasks", "final"} : ctl' = [ctl EXCEPT !.task = t, !.phase = ph]
      <4>1. CASE AllPassed(mem)
          BY <2>1, <4>1 DEF OpenSession
      <4>2. CASE ~AllPassed(mem)
          BY <2>1, <4>2 DEF OpenSession, Locals
      <4> QED
          BY <4>1, <4>2
    <3> QED
        BY <2>2, <3>1 DEF Locals
  <2>4. mem' \in RunRecords
    <3>1. mem' = [mem EXCEPT !.status[t] = "running", !.current = t]
        BY <2>1 DEF OpenSession, Assign
    <3>2. mem.status \in [1..NTasks -> {"pending", "running", "failed", "passed"}]
        BY DEF RunRecords
    <3>3. [mem.status EXCEPT ![t] = "running"] \in [1..NTasks -> {"pending", "running", "failed", "passed"}]
        BY <3>2
    <3> QED
        BY <2>2, <3>1, <3>3 DEF RunRecords
  <2> QED
      BY <2>1, <2>3, <2>4 DEF OpenSession, Assign, Goto
<1>2. CASE SaveSession
    BY <1>2 DEF SaveSession, Save, Goto
<1>3. CASE StartAction
    BY <1>3 DEF StartAction, Assign, Goto, RunRecords, Locals
<1>4. CASE RefuseAction
    BY <1>4, NewTypes DEF RefuseAction, Exit
<1>5. CASE SaveAction
    BY <1>5 DEF SaveAction, Save, Goto
<1>6. CASE RunTool
    BY <1>6 DEF RunTool, WriteProject, Edit, Goto
<1>7. CASE PassGate
  <2>1. tree' \in Trees /\ made' \subseteq Edits
      BY <1>7 DEF PassGate, WriteProject, Edit, Goto
  <2>2. ctl' \in Locals /\ ctl'.task = ctl.task
      BY <1>7 DEF PassGate, Locals
  <2>3. gated' \subseteq Commits
      BY <1>7, <2>1 DEF PassGate, Commits, Locals
  <2> QED
      BY <1>7, <2>1, <2>2, <2>3 DEF PassGate, Goto
<1>8. CASE ClearAction
    BY <1>8 DEF ClearAction, Assign, Goto, RunRecords, Locals
<1>9. CASE RehashAction
    BY <1>9 DEF RehashAction, Assign, Goto, RunRecords, Locals
<1>10. CASE SaveResult
    BY <1>10 DEF SaveResult, Save, Goto
<1>11. CASE CommitProject
    BY <1>11 DEF CommitProject, Goto, Commits, Locals
<1>12. CASE MarkPassed
    BY <1>12 DEF MarkPassed, Assign, Goto, RunRecords, Locals
<1>13. CASE MoveCheckpoint
    BY <1>13 DEF MoveCheckpoint, Assign, Goto, RunRecords, Locals
<1>14. CASE ReleaseTask
    BY <1>14, NewTypes DEF ReleaseTask, Assign, Goto, NewControl, RunRecords, Locals
<1>15. CASE SaveAccept
    BY <1>15 DEF SaveAccept, Save, Goto
<1>16. CASE \E t \in Tasks : FailTask(t)
  <2>1. PICK t \in Tasks : FailTask(t)
      BY <1>16
  <2>2. mem' \in RunRecords
      BY <2>1 DEF FailTask, RunRecords
  <2> QED
      BY <2>1, <2>2, NewTypes DEF FailTask
<1>17. CASE StopEarly
    BY <1>17, NewTypes DEF StopEarly, Exit
<1>18. CASE Deliver
    BY <1>18 DEF Deliver, Goto
<1>19. CASE ReportAgain
    BY <1>19 DEF ReportAgain, vars
<1>20. CASE Resume
    BY <1>20 DEF Resume, Goto
<1>21. CASE RefuseRecovery
    BY <1>21, NewTypes DEF RefuseRecovery, Exit
<1>22. CASE NothingToRecover
    BY <1>22 DEF NothingToRecover, Goto, Drifted
<1>23. CASE ArchiveTree
    BY <1>23 DEF ArchiveTree, Goto
<1>24. CASE ArchiveFails
    BY <1>24, NewTypes DEF ArchiveFails, Exit
<1>25. CASE MakeProject
    BY <1>25 DEF MakeProject, Goto
<1>26. CASE RestoreCheckpoint
  <2>1. tree' \in Trees
      BY <1>26 DEF RestoreCheckpoint, Goto, RunRecords, Commits
  <2> QED
      BY <1>26, <2>1 DEF RestoreCheckpoint, Goto
<1>27. CASE RehashRecovered
    BY <1>27 DEF RehashRecovered, Assign, Goto, RunRecords, Locals
<1>28. CASE SaveRecovery
    BY <1>28 DEF SaveRecovery, Save, Goto
<1>29. CASE Crash
    BY <1>29, NewTypes DEF Crash
<1>30. CASE Interrupt
    BY <1>30, NewTypes DEF Interrupt, Exit
<1>31. CASE OperatorEdit
    BY <1>31 DEF OperatorEdit, Edit
<1>32. CASE ToolRaises
    BY <1>32, NewTypes DEF ToolRaises, WriteProject, Edit, Goto
<1>33. CASE UNCHANGED vars
    BY <1>33 DEF vars
<1> QED
    BY <1>1, <1>2, <1>3, <1>4, <1>5, <1>6, <1>7, <1>8, <1>9, <1>10, <1>11, <1>12, <1>13, <1>14, <1>15, <1>16, <1>17, <1>18, <1>19, <1>20, <1>21, <1>22, <1>23, <1>24, <1>25, <1>26, <1>27, <1>28, <1>29, <1>30, <1>31, <1>32, <1>33 DEF Next, Controller, Recovery

\* Every reachable state is well typed: the bodies of run.json, the project
\* and the archive stay what the code takes them for, under all faults.
THEOREM Typing == Spec => []TypeOK
<1>1. TypeInv => TypeOK
    BY DEF TypeInv
<1> QED
    BY <1>1, InitTypeInv, StepTypeInv, PTL DEF Spec

-----------------------------------------------------------------------------
(* No edit is lost: a step that takes edits out of the project directory   *)
(* puts them into the archive.                                             *)

Keeping == TypeInv /\ EditsKept

LEMMA StepEditsKept == Keeping /\ [Next]_vars => EditsKept'
<1> SUFFICES ASSUME TypeInv, EditsKept, [Next]_vars PROVE EditsKept'
    BY DEF Keeping
<1>1. CASE UNCHANGED <<tree, archived, made>> /\ commits \subseteq commits'
    BY <1>1 DEF EditsKept
<1>2. CASE RunTool \/ PassGate \/ ToolRaises
  <2>1. tree # Missing /\ UNCHANGED <<archived, commits>>
      BY <1>2 DEF TypeInv, Present, RunTool, PassGate, ToolRaises, Goto
  <2>2. WriteProject
      BY <1>2 DEF RunTool, PassGate, ToolRaises
  <2> QED
      BY <2>1, <2>2, MissingAssumption DEF WriteProject, Edit, EditsKept
<1>3. CASE OperatorEdit
    BY <1>3, MissingAssumption DEF OperatorEdit, Edit, EditsKept
<1>4. CASE ArchiveTree
    BY <1>4 DEF ArchiveTree, EditsKept
<1>5. CASE MakeProject
    BY <1>5 DEF MakeProject, Goto, EditsKept, TypeInv, Present
<1>6. CASE RestoreCheckpoint
  <2>1. tree \in Trees /\ mem.accepted.tree \in Trees
      BY <1>6 DEF TypeInv, TypeOK, Present, RestoreCheckpoint, Goto, RunRecords, Commits
  <2> QED
      BY <1>6, <2>1, MissingIsNoTree DEF RestoreCheckpoint, EditsKept
<1> QED
    BY <1>1, <1>2, <1>3, <1>4, <1>5, <1>6
    DEF Next, Controller, Recovery, OpenSession, SaveSession, StartAction, RefuseAction,
        SaveAction, ClearAction, RehashAction, SaveResult, CommitProject, MarkPassed,
        MoveCheckpoint, ReleaseTask, SaveAccept, FailTask, StopEarly, Deliver, ReportAgain,
        Resume, RefuseRecovery, NothingToRecover, ArchiveFails, RehashRecovered,
        SaveRecovery, Crash, Interrupt, Assign, Save, Exit, vars

\* No crash, interrupt, refusal or recovery destroys an edit of a tool or of a
\* person (recover moves the interrupted tree away before it restores).
THEOREM KeepsEdits == Spec => []EditsKept
<1>1. Init => Keeping
    BY InitTypeInv DEF Init, Keeping, EditsKept
<1>2. Keeping /\ [Next]_vars => Keeping'
    BY StepTypeInv, StepEditsKept DEF Keeping
<1>3. Keeping => EditsKept
    BY DEF Keeping
<1> QED
    BY <1>1, <1>2, <1>3, PTL DEF Spec

-----------------------------------------------------------------------------
(* Acceptance, when nothing is raised between an assignment and its save.  *)

LEMMA InitAccepting == Init => Accepting
  BY NTasksAssumption DEF Init, Accepting, Saved, Hashed, IntactExcept, PassedOn, NewRun,
     EmptyCommit, RecoveryPoints

LEMMA StepAccepting ==
    ASSUME "interrupt" \notin Faults, TypeInv, TypeInv', Accepting, [Next]_vars
    PROVE  Accepting'
<1> USE MissingIsNoTree DEF Accepting, Saved, Hashed
<1>t. /\ disk \in RunRecords /\ mem \in RunRecords
      /\ pc \in Points
      /\ pc \notin {"down", "recover", "replace_tree"} => tree \in Trees
      /\ pc \in InSession => ctl.task \in Tasks
    BY DEF TypeInv, TypeOK, Present
<1> USE <1>t
<1>1. CASE \E t \in Tasks : OpenSession(t)
    BY <1>1 DEF OpenSession, Assign, Goto, IntactExcept, PassedOn, RunRecords, InSession
<1>2. CASE SaveSession
    BY <1>2 DEF SaveSession, Save, Goto, IntactExcept, PassedOn, RunRecords, InSession
<1>3. CASE StartAction
    BY <1>3 DEF StartAction, Assign, Goto, IntactExcept, PassedOn, RunRecords, InSession
<1>4. CASE RefuseAction
    BY <1>4 DEF RefuseAction, Exit, IntactExcept, PassedOn, RunRecords, InSession
<1>5. CASE SaveAction
    BY <1>5 DEF SaveAction, Save, Goto, IntactExcept, PassedOn, RunRecords, InSession
<1>6. CASE RunTool
    BY <1>6 DEF RunTool, WriteProject, Edit, Goto, IntactExcept, PassedOn, RunRecords, InSession
<1>7. CASE PassGate
    BY <1>7 DEF PassGate, WriteProject, Edit, Goto, IntactExcept, PassedOn, RunRecords, InSession
<1>8. CASE ClearAction
    BY <1>8 DEF ClearAction, Assign, Goto, IntactExcept, PassedOn, RunRecords, InSession
<1>9. CASE RehashAction
    BY <1>9 DEF RehashAction, Assign, Goto, Hashes, IntactExcept, PassedOn, RunRecords, InSession
<1>10. CASE SaveResult
    BY <1>10 DEF SaveResult, Save, Goto, IntactExcept, PassedOn, RunRecords, InSession
<1>11. CASE CommitProject
    BY <1>11 DEF CommitProject, Goto, IntactExcept, PassedOn, RunRecords, InSession
<1>12. CASE MarkPassed
  <2>1. /\ mem' = [mem EXCEPT !.status[ctl.task] = "passed", !.checkpoint[ctl.task] = ctl.commit]
        /\ ctl.task \in Tasks
      BY <1>12 DEF MarkPassed, Assign, Goto, InSession
  <2>2. /\ mem'.checkpoint[ctl.task] = ctl.commit
        /\ mem'.accepted = mem.accepted /\ mem'.working = mem.working
        /\ \A t \in Tasks \ {ctl.task} : /\ mem'.status[t] = mem.status[t]
                                        /\ mem'.checkpoint[t] = mem.checkpoint[t]
      BY <2>1 DEF RunRecords
  <2>3. IntactExcept(mem, {})
      BY <1>12 DEF MarkPassed, Assign, Goto
  <2> QED
      BY <1>12, <2>2, <2>3 DEF MarkPassed, Assign, Goto, IntactExcept, PassedOn
<1>13. CASE MoveCheckpoint
    BY <1>13 DEF MoveCheckpoint, Assign, Goto, IntactExcept, PassedOn, RunRecords, InSession
<1>14. CASE ReleaseTask
    BY <1>14 DEF ReleaseTask, Assign, Goto, Hashes, IntactExcept, PassedOn, RunRecords, InSession
<1>15. CASE SaveAccept
    BY <1>15 DEF SaveAccept, Save, Goto, IntactExcept, PassedOn, RunRecords, InSession
<1>16. CASE \E t \in Tasks : FailTask(t)
    BY <1>16 DEF FailTask, IntactExcept, PassedOn, RunRecords, InSession
<1>17. CASE StopEarly
    BY <1>17 DEF StopEarly, Exit, IntactExcept, PassedOn, RunRecords, InSession
<1>18. CASE Deliver
    BY <1>18 DEF Deliver, Goto, IntactExcept, PassedOn, RunRecords, InSession
<1>19. CASE ReportAgain
    BY <1>19 DEF ReportAgain, vars, IntactExcept, PassedOn, RunRecords, InSession
<1>20. CASE Resume
    BY <1>20 DEF Resume, Goto, IntactExcept, PassedOn, RunRecords, InSession
<1>21. CASE RefuseRecovery
    BY <1>21 DEF RefuseRecovery, Exit, IntactExcept, PassedOn, RunRecords, InSession
<1>22. CASE NothingToRecover
    BY <1>22 DEF NothingToRecover, Goto, Drifted, Hashes, IntactExcept, PassedOn, RunRecords, InSession
<1>23. CASE ArchiveTree
    BY <1>23 DEF ArchiveTree, Goto, IntactExcept, PassedOn, RunRecords, InSession
<1>24. CASE ArchiveFails
    BY <1>24 DEF ArchiveFails, Exit, IntactExcept, PassedOn, RunRecords, InSession
<1>25. CASE MakeProject
    BY <1>25 DEF MakeProject, Goto, IntactExcept, PassedOn, RunRecords, InSession
<1>26. CASE RestoreCheckpoint
    BY <1>26 DEF RestoreCheckpoint, Goto, IntactExcept, PassedOn, RunRecords, InSession
<1>27. CASE RehashRecovered
    BY <1>27 DEF RehashRecovered, Assign, Goto, Hashes, IntactExcept, PassedOn, RunRecords, InSession
<1>28. CASE SaveRecovery
    BY <1>28 DEF SaveRecovery, Save, Goto, IntactExcept, PassedOn, RunRecords, InSession
<1>29. CASE Crash
    BY <1>29 DEF Crash, IntactExcept, PassedOn, RunRecords, InSession
<1>30. CASE Interrupt
    BY <1>30 DEF Interrupt, IntactExcept, PassedOn, RunRecords, InSession
<1>31. CASE OperatorEdit
    BY <1>31 DEF OperatorEdit, Edit, IntactExcept, PassedOn, RunRecords, InSession
<1>32. CASE ToolRaises
    BY <1>32 DEF ToolRaises, WriteProject, Edit, Goto, IntactExcept, PassedOn, RunRecords, InSession
<1>33. CASE UNCHANGED vars
    BY <1>33 DEF vars, IntactExcept, PassedOn, RunRecords, InSession
<1> QED
    BY <1>1, <1>2, <1>3, <1>4, <1>5, <1>6, <1>7, <1>8, <1>9, <1>10, <1>11, <1>12, <1>13, <1>14, <1>15, <1>16, <1>17, <1>18, <1>19, <1>20, <1>21, <1>22, <1>23, <1>24, <1>25, <1>26, <1>27, <1>28, <1>29, <1>30, <1>31, <1>32, <1>33 DEF Next, Controller, Recovery

\* Crashes anywhere, in recovery too, and manual edits never separate a passed
\* task from its code: resuming restores a checkpoint that contains it.
THEOREM KeepsAcceptance ==
    ASSUME "interrupt" \notin Faults
    PROVE  Spec => []AcceptedIntact
<1>1. Init => IInv
    BY InitTypeInv, InitAccepting DEF IInv
<1>2. IInv /\ [Next]_vars => IInv'
    BY StepTypeInv, StepAccepting DEF IInv
<1>3. IInv => AcceptedIntact
    BY DEF IInv, Accepting, IntactExcept, AcceptedIntact
<1> QED
    BY <1>1, <1>2, <1>3, PTL DEF Spec

-----------------------------------------------------------------------------
(* What an interrupt cannot break.  From the moment a finish gate passes to *)
(* the move of the checkpoint nobody writes the project, and the accepted   *)
(* code is in the project wherever a gate can run.                          *)

Here == [task |-> ctl.task, tree |-> tree]
Gated(run) == run.accepted # EmptyCommit => run.accepted \in gated

Gating ==
    /\ Gated(disk) /\ Gated(mem)
    /\ pc \in {"save_action", "tool"} => ~ctl.finished
    /\ pc \in {"clear_action", "rehash_action", "save_result"} /\ ctl.finished => Here \in gated
    /\ pc \in {"git_commit", "mark_passed", "move_checkpoint"} => Here \in gated
    /\ pc \in {"mark_passed", "move_checkpoint"} => ctl.commit = Here

Growing ==
    /\ disk.accepted.tree \subseteq mem.accepted.tree
    /\ disk.accepted.tree \subseteq disk.working
    /\ mem.accepted.tree \subseteq mem.working
    /\ pc \notin {"down", "recover", "replace_tree", "restore"} => mem.accepted.tree \subseteq tree
    /\ pc \in Hashed => mem.working = tree

GInv == TypeInv /\ Gating /\ Growing

LEMMA StepGating ==
    ASSUME GInv, TypeInv', [Next]_vars
    PROVE  Gating' /\ Growing'
<1> USE MissingIsNoTree DEF GInv, Gating, Growing, Gated, Here, Hashed
<1>t. /\ disk \in RunRecords /\ mem \in RunRecords
      /\ pc \in Points /\ ctl \in Locals
      /\ pc \notin {"down", "recover", "replace_tree"} => tree \in Trees
    BY DEF TypeInv, TypeOK, Present
<1> USE <1>t
<1>1. CASE \E t \in Tasks : OpenSession(t)
    BY <1>1 DEF OpenSession, Assign, Goto, RunRecords, Locals
<1>2. CASE SaveSession \/ SaveAction \/ SaveAccept \/ SaveRecovery
    BY <1>2 DEF SaveSession, SaveAction, SaveAccept, SaveRecovery, Save, Goto
<1>3. CASE SaveResult
    BY <1>3 DEF SaveResult, Save, Goto
<1>4. CASE StartAction
    BY <1>4 DEF StartAction, Assign, Goto, RunRecords, Locals
<1>5. CASE RefuseAction \/ StopEarly \/ RefuseRecovery \/ ArchiveFails \/ Interrupt
    BY <1>5 DEF RefuseAction, StopEarly, RefuseRecovery, ArchiveFails, Interrupt, Exit
<1>6. CASE RunTool
    BY <1>6 DEF RunTool, WriteProject, Edit, Goto
<1>7. CASE PassGate
    BY <1>7 DEF PassGate, WriteProject, Edit, Goto, Locals
<1>8. CASE ToolRaises
    BY <1>8 DEF ToolRaises, WriteProject, Edit, Goto
<1>9. CASE ClearAction
    BY <1>9 DEF ClearAction, Assign, Goto, RunRecords
<1>10. CASE RehashAction
    BY <1>10 DEF RehashAction, Assign, Goto, Hashes, RunRecords
<1>11. CASE CommitProject
    BY <1>11 DEF CommitProject, Goto, Locals
<1>12. CASE MarkPassed
    BY <1>12 DEF MarkPassed, Assign, Goto, RunRecords
<1>13. CASE MoveCheckpoint
    BY <1>13 DEF MoveCheckpoint, Assign, Goto, RunRecords
<1>14. CASE ReleaseTask
    BY <1>14 DEF ReleaseTask, Assign, Goto, Hashes, RunRecords
<1>15. CASE \E t \in Tasks : FailTask(t)
    BY <1>15 DEF FailTask, RunRecords
<1>16. CASE Deliver \/ ReportAgain
    BY <1>16 DEF Deliver, ReportAgain, Goto, vars
<1>17. CASE Resume
    BY <1>17 DEF Resume, Goto
<1>18. CASE NothingToRecover
    BY <1>18 DEF NothingToRecover, Goto, Drifted, Hashes
<1>19. CASE ArchiveTree \/ MakeProject
    BY <1>19 DEF ArchiveTree, MakeProject, Goto
<1>20. CASE RestoreCheckpoint
    BY <1>20 DEF RestoreCheckpoint, Goto
<1>21. CASE RehashRecovered
    BY <1>21 DEF RehashRecovered, Assign, Goto, Hashes, RunRecords
<1>22. CASE Crash
    BY <1>22 DEF Crash
<1>23. CASE OperatorEdit
    BY <1>23 DEF OperatorEdit, Edit
<1>24. CASE UNCHANGED vars
    BY <1>24 DEF vars
<1> QED
    BY <1>1, <1>2, <1>3, <1>4, <1>5, <1>6, <1>7, <1>8, <1>9, <1>10, <1>11, <1>12, <1>13, <1>14, <1>15, <1>16, <1>17, <1>18, <1>19, <1>20, <1>21, <1>22, <1>23, <1>24 DEF Next, Controller, Recovery

LEMMA GatingInductive == (Init => GInv) /\ (GInv /\ [Next]_vars => GInv')
<1>1. Init => GInv
    BY InitTypeInv DEF Init, GInv, Gating, Growing, Gated, Hashed, NewRun, EmptyCommit
<1>2. GInv /\ [Next]_vars => GInv'
    BY StepTypeInv, StepGating DEF GInv
<1> QED
    BY <1>1, <1>2

\* Under all faults, interrupts between any two assignments included, the code
\* a resume restores went through the finish gate of its task as it is.
THEOREM KeepsGated == Spec => []AcceptedWasGated
<1>1. GInv => AcceptedWasGated
    BY DEF GInv, Gating, Gated, AcceptedWasGated
<1> QED
    BY <1>1, GatingInductive, PTL DEF Spec

\* Under all faults no step takes accepted code back: run.json is only ever
\* replaced by a dictionary whose checkpoint contains the recorded one.
THEOREM Grows == Spec => CodeOnlyGrows
<1>1. ASSUME GInv, [Next]_vars PROVE disk.accepted.tree \subseteq disk'.accepted.tree
  <2>1. disk' = disk \/ disk'.accepted = mem.accepted
    <3>1. CASE \E t \in Tasks : FailTask(t)
        BY <1>1, <3>1 DEF GInv, TypeInv, TypeOK, FailTask, RunRecords
    <3>2. CASE UNCHANGED disk \/ disk' = mem
        BY <3>2
    <3> QED
        BY <1>1, <3>1, <3>2
        DEF Next, Controller, Recovery, OpenSession, SaveSession, StartAction, RefuseAction,
            SaveAction, RunTool, PassGate, ToolRaises, ClearAction, RehashAction, SaveResult,
            CommitProject, MarkPassed, MoveCheckpoint, ReleaseTask, SaveAccept, StopEarly,
            Deliver, ReportAgain, Resume, RefuseRecovery, NothingToRecover, ArchiveTree,
            ArchiveFails, MakeProject, RestoreCheckpoint, RehashRecovered, SaveRecovery,
            Crash, Interrupt, OperatorEdit, Assign, Save, Exit, vars
  <2> QED
      BY <1>1, <2>1 DEF GInv, Growing
<1>2. GInv /\ [Next]_vars => [disk.accepted.tree \subseteq disk'.accepted.tree]_vars
    BY <1>1
<1> QED
    BY <1>2, GatingInductive, PTL DEF Spec, CodeOnlyGrows

-----------------------------------------------------------------------------
(* Why a resume is refused, when nothing is raised between an assignment    *)
(* and its save: whenever run.json asks for no recovery, the project is as  *)
(* it was recorded, or a person changed it, or a recovery was cut short.    *)

Recovering == {"down", "recover", "replace_tree", "restore", "rehash", "save_recovery"}

Explained ==
    \/ disk.pending
    \/ Hashes(tree) = disk.working
    \/ ManualChange
    \/ pc \in Recovering /\ HalfRestored

\* An edit is made once, so that no recorded tree has a later manual change.
OnceMade ==
    /\ tree # Missing => tree \subseteq made
    /\ disk.working \subseteq made /\ mem.working \subseteq made

Blaming ==
    /\ Explained
    /\ OnceMade
    /\ pc \in {"save_session", "save_action"} => mem.working = disk.working
    /\ pc = "save_session" => mem.pending = disk.pending
    /\ pc = "save_action" => mem.pending
    /\ pc \in {"tool", "clear_action", "rehash_action", "save_result"} => disk.pending
    /\ pc = "restore" => tree = {}
    /\ pc \in {"rehash", "save_recovery"} => tree = disk.accepted.tree
    /\ pc = "save_recovery" => mem.working = tree

BInv == IInv /\ Blaming

LEMMA StepBlaming ==
    ASSUME "interrupt" \notin Faults, BInv, TypeInv', [Next]_vars
    PROVE  Blaming'
<1> USE MissingIsNoTree, EditsAssumption, MissingAssumption
    DEF BInv, IInv, Blaming, Accepting, Saved, Hashed, Explained, OnceMade, Recovering,
        ManualChange, HalfRestored, Hashes
<1>t. /\ disk \in RunRecords /\ mem \in RunRecords
      /\ pc \in Points /\ made \subseteq Edits
      /\ tree \in Trees \cup {Missing}
      /\ pc \notin {"down", "recover", "replace_tree"} => tree \in Trees
      /\ pc = "replace_tree" => tree = Missing
    BY DEF TypeInv, TypeOK, Present
<1> USE <1>t
<1>1. CASE \E t \in Tasks : OpenSession(t)
    BY <1>1 DEF OpenSession, Assign, Goto, RunRecords
<1>2. CASE SaveSession
    BY <1>2 DEF SaveSession, Save, Goto
<1>3. CASE SaveAction
    BY <1>3 DEF SaveAction, Save, Goto
<1>4. CASE SaveResult
    BY <1>4 DEF SaveResult, Save, Goto
<1>5. CASE SaveAccept
    BY <1>5 DEF SaveAccept, Save, Goto
<1>6. CASE SaveRecovery
    BY <1>6 DEF SaveRecovery, Save, Goto
<1>7. CASE StartAction
    BY <1>7 DEF StartAction, Assign, Goto, RunRecords
<1>8. CASE RefuseAction \/ StopEarly \/ RefuseRecovery \/ ArchiveFails
    BY <1>8 DEF RefuseAction, StopEarly, RefuseRecovery, ArchiveFails, Exit
<1>9. CASE RunTool
    BY <1>9 DEF RunTool, WriteProject, Edit, Goto
<1>10. CASE PassGate
    BY <1>10 DEF PassGate, WriteProject, Edit, Goto
<1>11. CASE ToolRaises
    BY <1>11 DEF ToolRaises, WriteProject, Edit, Goto
<1>12. CASE ClearAction
    BY <1>12 DEF ClearAction, Assign, Goto, RunRecords
<1>13. CASE RehashAction
    BY <1>13 DEF RehashAction, Assign, Goto, RunRecords
<1>14. CASE CommitProject
    BY <1>14 DEF CommitProject, Goto
<1>15. CASE MarkPassed
    BY <1>15 DEF MarkPassed, Assign, Goto, RunRecords
<1>16. CASE MoveCheckpoint
    BY <1>16 DEF MoveCheckpoint, Assign, Goto, RunRecords
<1>17. CASE ReleaseTask
    BY <1>17 DEF ReleaseTask, Assign, Goto, RunRecords
<1>18. CASE \E t \in Tasks : FailTask(t)
    BY <1>18 DEF FailTask, RunRecords
<1>19. CASE Deliver \/ ReportAgain
    BY <1>19 DEF Deliver, ReportAgain, Goto, vars
<1>20. CASE Resume
    BY <1>20 DEF Resume, Goto
<1>21. CASE NothingToRecover
    BY <1>21 DEF NothingToRecover, Goto, Drifted
<1>22. CASE ArchiveTree
    BY <1>22 DEF ArchiveTree, Goto
<1>23. CASE MakeProject
    BY <1>23 DEF MakeProject, Goto
<1>24. CASE RestoreCheckpoint
    BY <1>24 DEF RestoreCheckpoint, Goto
<1>25. CASE RehashRecovered
    BY <1>25 DEF RehashRecovered, Assign, Goto, RunRecords
<1>26. CASE Crash
    BY <1>26 DEF Crash, Live, RecoveryPoints, Points
<1>27. CASE Interrupt
    BY <1>27 DEF Interrupt
<1>28. CASE OperatorEdit
  <2>1. PICK e \in OperatorEdits \ made : tree' = tree \cup {e} /\ made' = made \cup {e}
      BY <1>28 DEF OperatorEdit, Edit
  <2>2. /\ tree # Missing /\ tree \in Trees /\ tree' # Missing
        /\ UNCHANGED <<disk, mem, pc>> /\ pc \in {"down", "loop", "decide"}
      BY <1>28, <2>1 DEF OperatorEdit, TypeInv, TypeOK, Present
  <2>3. ManualChange'
      BY <2>1, <2>2
  <2> QED
      BY <2>1, <2>2, <2>3
<1>29. CASE UNCHANGED vars
    BY <1>29 DEF vars
<1> QED
    BY <1>1, <1>2, <1>3, <1>4, <1>5, <1>6, <1>7, <1>8, <1>9, <1>10, <1>11, <1>12, <1>13, <1>14, <1>15, <1>16, <1>17, <1>18, <1>19, <1>20, <1>21, <1>22, <1>23, <1>24, <1>25, <1>26, <1>27, <1>28, <1>29 DEF Next, Controller, Recovery

\* Crashes anywhere, in recovery too, block a resume only over a working copy
\* that a recovery left half restored; any other refusal is a person's change.
THEOREM BlocksForCause ==
    ASSUME "interrupt" \notin Faults
    PROVE  Spec => []BlockedByKnownCause
<1>1. Init => BInv
    BY InitTypeInv, InitAccepting, MissingIsNoTree
    DEF Init, BInv, IInv, Blaming, Explained, OnceMade, Hashes, NewRun
<1>2. BInv /\ [Next]_vars => BInv'
    BY StepTypeInv, StepAccepting, StepBlaming DEF BInv, IInv
<1>3. BInv => BlockedByKnownCause
    BY DEF BInv, Blaming, Explained, BlockedByKnownCause, ResumeBlocked, Drifted, HalfRestored, Missing
<1> QED
    BY <1>1, <1>2, <1>3, PTL DEF Spec

-----------------------------------------------------------------------------
(* The refinement of AcceptedProgress, when nothing is raised between an    *)
(* assignment and its save: how the dictionary differs from run.json before *)
(* each save says which abstract step the save is.                          *)

Before(run, t) == \A u \in 1..(t-1) : run.status[u] = "passed"

Alike == /\ PassedOn(mem) = PassedOn(disk)
         /\ mem.checkpoint = disk.checkpoint
         /\ mem.accepted = disk.accepted

\* The final task is open again, or some other task is worked on.
Opened ==
    /\ \/ PassedOn(mem) = PassedOn(disk)
       \/ PassedOn(disk) = Tasks /\ PassedOn(mem) = Tasks \ {Final}
    /\ mem.checkpoint = disk.checkpoint
    /\ mem.accepted = disk.accepted

\* Task t has been accepted with commit c and run.json does not say so yet.
Ahead(t, c) ==
    /\ t \notin PassedOn(disk) /\ Before(disk, t)
    /\ PassedOn(mem) = PassedOn(disk) \cup {t}
    /\ mem.checkpoint = [disk.checkpoint EXCEPT ![t] = c]
    /\ disk.accepted.tree \subseteq c.tree

Unsaved == {"save_session", "move_checkpoint", "release", "save_accept"}

Refining ==
    /\ pc \notin Unsaved => Alike
    /\ pc = "save_session" => Opened
    /\ pc \in InSession \ {"move_checkpoint"} =>
          mem.status[ctl.task] # "passed" /\ Before(mem, ctl.task)
    /\ pc = "move_checkpoint" => Ahead(ctl.task, ctl.commit) /\ mem.accepted = disk.accepted
    /\ pc = "release" => ctl.task \in Tasks
    /\ pc = "release" => Ahead(ctl.task, mem.accepted)
    /\ pc = "save_accept" => \E t \in Tasks : Ahead(t, mem.accepted)
    /\ ctl.phase = "final" => /\ Before(mem, Final)
                              /\ pc \in InSession => ctl.task = Final

RInv == IInv /\ Refining

LEMMA StepRefining ==
    ASSUME "interrupt" \notin Faults, RInv, TypeInv', Accepting', [Next]_vars
    PROVE  Refining'
<1> USE NTasksAssumption DEF RInv, IInv, Accepting, Saved, Refining, Alike, Unsaved, InSession
<1>t. /\ disk \in RunRecords /\ mem \in RunRecords
      /\ pc \in Points /\ ctl \in Locals
      /\ pc \in InSession => ctl.task \in Tasks
    BY DEF TypeInv, TypeOK
<1> USE <1>t
<1>1. CASE \E t \in Tasks : OpenSession(t)
  <2>1. PICK t \in Tasks : OpenSession(t)
      BY <1>1
  <2>2. /\ mem.status \in [Tasks -> {"pending", "running", "failed", "passed"}]
        /\ mem'.status = [mem.status EXCEPT ![t] = "running"]
        /\ mem'.checkpoint = mem.checkpoint /\ mem'.accepted = mem.accepted
        /\ mem = disk /\ disk' = disk /\ pc' = "save_session" /\ ctl'.task = t
      BY <2>1 DEF OpenSession, Assign, Goto, RunRecords, Locals
  <2>3. CASE ctl.phase = "tasks" /\ ~AllPassed(mem)
    <3>1. NextTask(mem, t) /\ ctl'.phase = "tasks"
        BY <2>1, <2>3 DEF OpenSession, Locals
    <3>2. PassedOn(mem') = PassedOn(mem) /\ mem'.status[t] # "passed" /\ Before(mem', t)
        BY <2>2, <3>1 DEF NextTask, PassedOn, Before
    <3> QED
        BY <2>2, <3>1, <3>2 DEF Opened
  <2>4. CASE AllPassed(mem)
    <3>1. t = Final
        BY <2>1, <2>4 DEF OpenSession
    <3>2. PassedOn(disk') = Tasks /\ PassedOn(mem') = Tasks \ {Final}
        BY <2>2, <2>4, <3>1 DEF AllPassed, PassedOn
    <3>3. Before(mem', Final) /\ mem'.status[Final] # "passed"
        BY <2>2, <2>4, <3>1 DEF AllPassed, Before
    <3> QED
        BY <2>2, <3>1, <3>2, <3>3 DEF Opened
  <2>5. CASE ctl.phase = "final" /\ ~AllPassed(mem)
    <3>1. t = Final /\ ctl'.phase = "final"
        BY <2>1, <2>5 DEF OpenSession, Locals
    <3>2. mem.status[Final] # "passed" /\ Before(mem, Final)
        BY <2>5 DEF AllPassed, Before
    <3>3. PassedOn(mem') = PassedOn(mem) /\ Before(mem', Final) /\ mem'.status[Final] # "passed"
        BY <2>2, <3>1, <3>2 DEF PassedOn, Before
    <3> QED
        BY <2>2, <3>1, <3>3 DEF Opened
  <2> QED
      BY <2>3, <2>4, <2>5 DEF Locals
<1>2. CASE SaveSession \/ SaveAction \/ SaveResult
    BY <1>2 DEF SaveSession, SaveAction, SaveResult, Save, Goto
<1>3. CASE SaveAccept \/ SaveRecovery
    BY <1>3 DEF SaveAccept, SaveRecovery, Save, Goto
<1>4. CASE StartAction \/ ClearAction \/ RehashAction
  <2>1. /\ mem'.status = mem.status /\ mem'.checkpoint = mem.checkpoint
        /\ mem'.accepted = mem.accepted /\ disk' = disk
        /\ ctl'.task = ctl.task /\ ctl'.phase = ctl.phase
        /\ pc \in InSession \ Unsaved /\ pc' \in InSession \ Unsaved
      BY <1>4 DEF StartAction, ClearAction, RehashAction, Assign, Goto, RunRecords, Locals
  <2> QED
      BY <2>1 DEF PassedOn, Before
<1>5. CASE RefuseAction \/ StopEarly \/ RefuseRecovery \/ ArchiveFails
    BY <1>5 DEF RefuseAction, StopEarly, RefuseRecovery, ArchiveFails, Exit, NewControl
<1>6. CASE RunTool \/ PassGate
    BY <1>6 DEF RunTool, PassGate, Goto, Locals
<1>7. CASE ToolRaises
    BY <1>7 DEF ToolRaises, Goto, NewControl
<1>8. CASE CommitProject
    BY <1>8 DEF CommitProject, Goto, Locals
<1>9. CASE MarkPassed
  <2>1. /\ mem' = [mem EXCEPT !.status[ctl.task] = "passed", !.checkpoint[ctl.task] = ctl.commit]
        /\ ctl.task \in Tasks /\ mem = disk /\ disk' = disk /\ ctl' = ctl
        /\ pc' = "move_checkpoint"
        /\ mem.accepted.tree \subseteq ctl.commit.tree
      BY <1>9 DEF MarkPassed, Assign, Goto
  <2>2. /\ mem'.status = [mem.status EXCEPT ![ctl.task] = "passed"]
        /\ mem'.checkpoint = [mem.checkpoint EXCEPT ![ctl.task] = ctl.commit]
        /\ mem'.accepted = mem.accepted
        /\ mem.status \in [Tasks -> {"pending", "running", "failed", "passed"}]
      BY <2>1 DEF RunRecords
  <2>3. mem.status[ctl.task] # "passed" /\ Before(mem, ctl.task)
      BY <1>9 DEF MarkPassed, Assign, Goto
  <2>4. PassedOn(mem') = PassedOn(disk) \cup {ctl.task}
      BY <2>1, <2>2 DEF PassedOn
  <2>5. Ahead(ctl.task, ctl.commit)'
      BY <2>1, <2>2, <2>3, <2>4 DEF Ahead, PassedOn, Before
  <2>6. ctl.phase = "final" => Before(mem', Final) /\ ctl.task = Final
      BY <1>9, <2>1, <2>2 DEF MarkPassed, Assign, Goto, Before
  <2> QED
      BY <2>1, <2>2, <2>5, <2>6
<1>10. CASE MoveCheckpoint
  <2>1. /\ mem'.status = mem.status /\ mem'.checkpoint = mem.checkpoint
        /\ mem'.accepted = ctl.commit
        /\ disk' = disk /\ ctl' = ctl /\ pc = "move_checkpoint" /\ pc' = "release"
      BY <1>10 DEF MoveCheckpoint, Assign, Goto, RunRecords
  <2> QED
      BY <2>1 DEF Ahead, PassedOn, Before
<1>11. CASE ReleaseTask
  <2>1. /\ mem'.status = mem.status /\ mem'.checkpoint = mem.checkpoint
        /\ mem'.accepted = mem.accepted /\ ctl'.phase = ctl.phase
        /\ disk' = disk /\ pc = "release" /\ pc' = "save_accept"
      BY <1>11, NewTypes DEF ReleaseTask, Assign, Goto, RunRecords, Locals, NewControl
  <2> QED
      BY <2>1 DEF Ahead, PassedOn, Before
<1>12. CASE \E t \in Tasks : FailTask(t)
  <2>1. PICK t \in Tasks : FailTask(t)
      BY <1>12
  <2>2. /\ mem'.status = [mem.status EXCEPT ![t] = "failed"]
        /\ mem'.checkpoint = mem.checkpoint /\ mem'.accepted = mem.accepted /\ disk' = mem'
        /\ mem.status \in [Tasks -> {"pending", "running", "failed", "passed"}]
      BY <2>1 DEF FailTask, RunRecords
  <2>3. CASE ctl.phase = "final"
    <3>1. pc = "decide" /\ t = Final /\ pc' = "loop" /\ ctl' = ctl
        BY <2>1, <2>3 DEF FailTask
    <3> QED
        BY <2>2, <3>1 DEF Before
  <2>4. CASE ctl.phase # "final"
      BY <2>1, <2>2, <2>4 DEF FailTask, NewControl
  <2> QED
      BY <2>3, <2>4
<1>13. CASE Deliver \/ ReportAgain \/ Resume \/ NothingToRecover
    BY <1>13 DEF Deliver, ReportAgain, Resume, NothingToRecover, Goto, vars
<1>14. CASE ArchiveTree \/ MakeProject \/ RestoreCheckpoint
    BY <1>14 DEF ArchiveTree, MakeProject, RestoreCheckpoint, Goto
<1>15. CASE RehashRecovered
  <2>1. /\ mem'.status = mem.status /\ mem'.checkpoint = mem.checkpoint
        /\ mem'.accepted = mem.accepted /\ disk' = disk /\ ctl' = ctl
        /\ pc = "rehash" /\ pc' = "save_recovery"
      BY <1>15 DEF RehashRecovered, Assign, Goto, RunRecords
  <2> QED
      BY <2>1 DEF PassedOn, Before
<1>16. CASE Crash
    BY <1>16 DEF Crash, NewControl
<1>17. CASE Interrupt
    BY <1>17 DEF Interrupt
<1>18. CASE OperatorEdit
    BY <1>18 DEF OperatorEdit
<1>19. CASE UNCHANGED vars
  <2>1. mem' = mem /\ disk' = disk /\ ctl' = ctl /\ pc' = pc
      BY <1>19 DEF vars
  <2>2. Refining
      OBVIOUS
  <2> HIDE DEF RInv, IInv, Accepting, Saved, Unsaved, InSession
  <2>3. Alike' <=> Alike
      BY ONLY <2>1 DEF Alike
  <2>4. Opened' <=> Opened
      BY ONLY <2>1 DEF Opened
  <2>5. \A t, c : Ahead(t, c)' <=> Ahead(t, c)
      BY ONLY <2>1 DEF Ahead
  <2> HIDE DEF Alike
  <2> QED
      BY ONLY <2>1, <2>2, <2>3, <2>4, <2>5 DEF Refining, Unsaved, InSession
<1> QED
    BY <1>1, <1>2, <1>3, <1>4, <1>5, <1>6, <1>7, <1>8, <1>9, <1>10, <1>11, <1>12, <1>13, <1>14, <1>15, <1>16, <1>17, <1>18, <1>19 DEF Next, Controller, Recovery

\* Only three saves change what AcceptedProgress sees of run.json.
LEMMA DiskSteps ==
    ASSUME "interrupt" \notin Faults, RInv, [Next]_vars
    PROVE  \/ SaveSession \/ SaveAccept
           \/ /\ PassedOn(disk') = PassedOn(disk)
              /\ disk'.checkpoint = disk.checkpoint
              /\ disk'.accepted = disk.accepted
<1> USE DEF RInv, IInv, Accepting, Saved, Refining, Unsaved, InSession
<1>1. CASE \E t \in Tasks : FailTask(t)
  <2>1. PICK t \in Tasks : FailTask(t)
      BY <1>1
  <2>2. /\ disk'.status = [mem.status EXCEPT ![t] = "failed"]
        /\ disk'.checkpoint = mem.checkpoint /\ disk'.accepted = mem.accepted
        /\ mem = disk /\ mem.status[t] # "passed"
        /\ mem.status \in [Tasks -> {"pending", "running", "failed", "passed"}]
      BY <2>1 DEF FailTask, NextTask, TypeInv, TypeOK, RunRecords
  <2> QED
      BY <2>2 DEF PassedOn
<1>2. CASE SaveAction \/ SaveResult \/ SaveRecovery
    BY <1>2 DEF SaveAction, SaveResult, SaveRecovery, Save, Goto, Alike
<1>3. CASE RefuseAction \/ StopEarly \/ RefuseRecovery \/ ArchiveFails \/ ToolRaises
    BY <1>3 DEF RefuseAction, StopEarly, RefuseRecovery, ArchiveFails, ToolRaises, Exit, Goto, Alike
<1>4. CASE UNCHANGED disk
    BY <1>4
<1> QED
    BY <1>1, <1>2, <1>3, <1>4
    DEF Next, Controller, Recovery, OpenSession, StartAction, RunTool, PassGate, ClearAction,
        RehashAction, CommitProject, MarkPassed, MoveCheckpoint, ReleaseTask, Deliver,
        ReportAgain, Resume, NothingToRecover, ArchiveTree, MakeProject, RestoreCheckpoint,
        RehashRecovered, Crash, Interrupt, OperatorEdit, Assign, vars

Built == [t \in Tasks |-> disk.checkpoint[t].tree]

LEMMA RefinementStep ==
    ASSUME "interrupt" \notin Faults, RInv, TypeInv', [Next]_vars
    PROVE  [Progress!Next]_(Progress!vars)
<1>t. disk \in RunRecords /\ mem \in RunRecords /\ disk' \in RunRecords
    BY DEF RInv, IInv, TypeInv, TypeOK
<1>1. CASE SaveAccept
  <2>1. disk' = mem /\ \E t \in Tasks : Ahead(t, mem.accepted)
      BY <1>1 DEF SaveAccept, Save, Goto, RInv, Refining
  <2>2. PICK t \in Tasks : Ahead(t, mem.accepted)
      BY <2>1
  <2>3. /\ 1..(t-1) \subseteq PassedOn(disk)
        /\ t \notin PassedOn(disk)
        /\ PassedOn(disk') = PassedOn(disk) \cup {t}
      BY <2>1, <2>2, NTasksAssumption DEF Ahead, Before, PassedOn
  <2>4. disk'.accepted.tree \in SUBSET Edits /\ disk.accepted.tree \subseteq disk'.accepted.tree
      BY <1>t, <2>1, <2>2 DEF Ahead, RunRecords, Commits
  <2>5. Built' = [Built EXCEPT ![t] = disk'.accepted.tree]
    <3>1. disk'.checkpoint = [disk.checkpoint EXCEPT ![t] = disk'.accepted]
        BY <2>1, <2>2 DEF Ahead
    <3>2. disk.checkpoint \in [Tasks -> Commits]
        BY <1>t DEF RunRecords
    <3> QED
        BY <3>1, <3>2 DEF Built
  <2>6. Progress!Accept(t)
      BY <2>3, <2>4, <2>5 DEF Progress!Accept, Built
  <2> QED
      BY <2>6 DEF Progress!Next
<1>2. CASE SaveSession
  <2>1. disk' = mem /\ Opened
      BY <1>2 DEF SaveSession, Save, Goto, RInv, Refining
  <2>2. Built' = Built /\ disk'.accepted.tree = disk.accepted.tree
      BY <2>1 DEF Opened, Built
  <2>3. CASE PassedOn(mem) = PassedOn(disk)
      BY <2>1, <2>2, <2>3 DEF Progress!vars, Built
  <2>4. CASE PassedOn(disk) = Tasks /\ PassedOn(mem) = Tasks \ {Final}
    <3>1. Progress!Reopen
        BY <2>1, <2>2, <2>4 DEF Progress!Reopen, Built
    <3> QED
        BY <3>1 DEF Progress!Next
  <2> QED
      BY <2>1, <2>3, <2>4 DEF Opened
<1>3. CASE /\ PassedOn(disk') = PassedOn(disk)
           /\ disk'.checkpoint = disk.checkpoint
           /\ disk'.accepted = disk.accepted
    BY <1>3 DEF Progress!vars
<1> QED
    BY <1>1, <1>2, <1>3, DiskSteps

\* The durable progress of a run is that of AcceptedProgress: tasks are accepted
\* in order, each with its code in one step, and only the last one is reopened,
\* through crashes at any point, resumptions and manual changes.
THEOREM AcceptsAtomically ==
    ASSUME "interrupt" \notin Faults
    PROVE  Spec => AcceptanceIsAtomic
<1>1. Init => RInv
  <2> SUFFICES ASSUME Init PROVE RInv
      OBVIOUS
  <2>1. Refining
      BY DEF Init, Refining, Alike, Unsaved, InSession, NewControl
  <2> QED
      BY <2>1, InitTypeInv, InitAccepting DEF RInv, IInv
<1>2. RInv /\ [Next]_vars => RInv'
    BY StepTypeInv, StepAccepting, StepRefining DEF RInv, IInv
<1>3. Init => Progress!Init
  <2> SUFFICES ASSUME Init PROVE Progress!Init
      OBVIOUS
  <2>1. PassedOn(disk) = {} /\ disk.accepted.tree = {}
      BY DEF Init, PassedOn, NewRun, EmptyCommit
  <2>2. Built = [t \in Tasks |-> {}]
      BY DEF Init, Built, NewRun, EmptyCommit
  <2> QED
      BY <2>1, <2>2 DEF Progress!Init, Built
<1>4. RInv /\ [Next]_vars => [Progress!Next]_(Progress!vars)
    BY StepTypeInv, RefinementStep DEF RInv, IInv
<1> QED
    BY <1>1, <1>2, <1>3, <1>4, PTL DEF Spec, AcceptanceIsAtomic, Progress!Spec
=============================================================================
