----------------------------- MODULE SampleQueue ----------------------------
(***************************************************************************)
(* The experiment driver (experiments/p0-p2/driver.py): a batch of paid    *)
(* stages that are started by hand one after the other, or three samples   *)
(* in processes of their own (parallel), against a person who changes the  *)
(* candidate or a delivery at any time, crashes and interrupts.            *)
(*                                                                         *)
(* A candidate (scoped_manifest: runtime, inputs, config, image) is a      *)
(* version.  The commands compare it at some instants and read its files   *)
(* at others: modules when a process starts, prompts and the checker while *)
(* it works.  What a run does inside is its outcome here: the production   *)
(* run is modelled by Controller, RunStore and Delivery.                   *)
(***************************************************************************)
EXTENDS Naturals, FiniteSets, FiniteSetsExt

CONSTANTS Versions,        \* candidates, positive numbers
          CapabilityRows,  \* models and modes of the probes
          PublicRows,      \* models and fixtures of the public sessions
          MaxChanges,      \* times a person changes the candidate (a bound)
          MaxEdits,        \* times a person changes a delivery (a bound)
          MaxArchives,     \* archives that are written (a bound)
          ByHand           \* the stages a person starts in the batch (a bound)

ASSUME VersionsAssumption == Versions \subseteq Nat \ {0} /\ Versions # {}
ASSUME ChangesAssumption == MaxChanges \in Nat /\ MaxEdits \in Nat /\ MaxArchives \in Nat
ASSUME RowsAssumption == CapabilityRows \in Nat \ {0} /\ PublicRows \in Nat \ {0}

Study == {"capability", "public-tools", "private-repair"}
Generation == {"mqtt-first", "mqtt-repeat-1", "mqtt-repeat-2", "http"}
SerialStages == Study \cup {"freeze"} \cup Generation
Stages == SerialStages \cup {"parallel"}

ASSUME ByHandAssumption == ByHand \subseteq Stages

Top == "batch"
Children == <<"mqtt-a", "mqtt-b", "http">>
ChildStage == <<"mqtt-first", "mqtt-first", "http">>
ChildSet == {Children[i] : i \in 1..3}
Batches == {Top} \cup ChildSet

VARIABLES world,     \* the candidate as it is on disk now
          changes,   \* how often a person has changed it
          edits,     \* how often a person has changed a delivery
          disk,      \* experiment.json of every batch
          at,        \* where the process of a batch is; it holds the batch's lock
          stage,     \* the command it runs
          mem,       \* its copy of the record
          row,       \* the row, or the child, it works on
          good,      \* no row has failed so far
          loaded,    \* the candidate whose modules the process has loaded
          exit,      \* the last command of the batch exited with 0
          runs,      \* the run directories of the campaign
          archived   \* the archives written, with the delivery that is in them

process == <<at, stage, mem, row, good, loaded, exit>>
around == <<world, changes, edits>>
vars == <<around, disk, process, runs, archived>>

-----------------------------------------------------------------------------
NotAttempted == [state |-> "none", status |-> FALSE, candidate |-> 0]
Started == [state |-> "running", status |-> FALSE, candidate |-> 0]
Failed == [state |-> "failed", status |-> FALSE, candidate |-> 0]
\* Mutant of Completed: a stage without success is failed, with no verdict.
CompletedOrNot(ok, candidate) ==
    [state |-> IF ok THEN "complete" ELSE "incomplete", status |-> ok, candidate |-> candidate]

Completed(ok, candidate) == [state |-> "complete", status |-> ok, candidate |-> candidate]

NoRecord == [admission |-> 0, child |-> FALSE, paid |-> FALSE, runs |-> {}, status |-> FALSE,
             stages |-> [s \in Stages |-> NotAttempted]]

\* A stage is attempted once in a batch, so it names its runs.
Keys == [batch : Batches, stage : Stages, row : Nat]
Key(b) == [batch |-> b, stage |-> stage[b], row |-> row[b]]

Records == [admission : Versions \cup {0}, child : BOOLEAN, paid : BOOLEAN,
            runs : SUBSET Keys, status : BOOLEAN,
            stages : [Stages -> [state : {"none", "running", "complete", "failed"},
                                 status : BOOLEAN, candidate : Versions \cup {0}]]]

\* made is the runtime and the inputs that a run records, used what is read of
\* the candidate on its behalf (kept for a sample only), audited the delivery
\* that was copied, built and verified again.
Deliveries == {"none", "delivered", "edited"}
Runs == [made : Versions, used : SUBSET Versions, called : BOOLEAN,
         status : {"open", "study_complete", "success", "failed"},
         delivery : Deliveries, audited : Deliveries]

TypeOK ==
    /\ world \in Versions /\ changes \in 0..MaxChanges /\ edits \in 0..MaxEdits
    /\ \A b \in Batches : {disk[b], mem[b]} \subseteq Records
    /\ \A b \in Batches : at[b] \in {"idle", "boot", "freeze", "pay", "compare", "new", "list",
                                     "run", "audit", "copy", "recheck", "spawn", "wait", "save",
                                     "archive"}
    /\ \A b \in Batches : loaded[b] \in Versions \cup {0}
    /\ DOMAIN runs \subseteq Keys /\ \A k \in DOMAIN runs : runs[k] \in Runs

Init ==
    /\ world = Min(Versions) /\ changes = 0 /\ edits = 0
    /\ disk = [b \in Batches |-> NoRecord]
    /\ at = [b \in Batches |-> "idle"] /\ stage = [b \in Batches |-> "freeze"]
    /\ mem = [b \in Batches |-> NoRecord] /\ row = [b \in Batches |-> 0]
    /\ good = [b \in Batches |-> TRUE] /\ loaded = [b \in Batches |-> 0]
    /\ exit = [b \in Batches |-> FALSE]
    /\ runs = <<>> /\ archived = {}

-----------------------------------------------------------------------------
(* The gates and the verdict of a record.                                  *)

Predecessors(s) ==
    CASE s = "capability" -> {}
      [] s = "public-tools" -> {"capability"}
      [] s = "private-repair" -> {"public-tools"}
      [] s = "freeze" -> Study
      [] s \in {"parallel", "mqtt-first"} -> {"freeze"}
      [] s = "mqtt-repeat-1" -> {"mqtt-first"}
      [] s = "mqtt-repeat-2" -> {"mqtt-first", "mqtt-repeat-1"}
      [] s = "http" -> {"mqtt-first", "mqtt-repeat-1", "mqtt-repeat-2"}

Passes(record, s) == record.stages[s].status

Attempted(record, s) == record.stages[s].state # "none"

Gate(record, s) ==
    /\ ~Attempted(record, s)
    /\ LET alone == record.child /\ s \in {"mqtt-first", "http"} IN
       \A p \in (IF alone THEN {"freeze"} ELSE Predecessors(s)) : Passes(record, p)

Summary(record) ==
    IF Attempted(record, "parallel") THEN Passes(record, "parallel")
    ELSE \A s \in SerialStages : Passes(record, s)

Concluded(record) == [record EXCEPT !.status = Summary(record)]

-----------------------------------------------------------------------------
(* main, and what every command does.                                      *)

Goto(b, from, to) == at[b] = from /\ at' = [at EXCEPT ![b] = to]

Ended(b, outcome) ==
    /\ mem' = [mem EXCEPT ![b].stages[stage[b]] = outcome]
    /\ UNCHANGED <<disk, stage, row, good, loaded, exit>>

Prepare ==
    /\ disk[Top].admission = 0
    /\ disk' = [disk EXCEPT ![Top] = [NoRecord EXCEPT !.admission = world]]
    /\ UNCHANGED <<around, process, runs, archived>>

Admitted(b, s) == Gate(disk[b], s) /\ world = disk[b].admission

\* The attempt is on disk before anything is done for it.
Begin(b, s) ==
    /\ Admitted(b, s)
    /\ stage' = [stage EXCEPT ![b] = s]
    /\ mem' = [mem EXCEPT ![b] = [disk[b] EXCEPT !.stages[s] = Started]]
    /\ disk' = [disk EXCEPT ![b] = mem'[b]]
    /\ row' = [row EXCEPT ![b] = 1] /\ good' = [good EXCEPT ![b] = TRUE]
    /\ UNCHANGED <<around, loaded, exit, runs, archived>>

Refuse(b) ==
    /\ Goto(b, "boot", "idle") /\ loaded' = [loaded EXCEPT ![b] = 0]
    /\ UNCHANGED <<around, disk, stage, mem, row, good, exit, runs, archived>>

\* A command loads its modules before it has the lock and is admitted.
Launch ==
    /\ disk[Top].admission # 0
    /\ Goto(Top, "idle", "boot") /\ loaded' = [loaded EXCEPT ![Top] = world]
    /\ UNCHANGED <<around, disk, stage, mem, row, good, exit, runs, archived>>

Command ==
    \E s \in ByHand :
        /\ Goto(Top, "boot", IF s = "freeze" THEN "freeze" ELSE "pay")
        /\ Begin(Top, s)

CommandRefused == Refuse(Top) /\ \E s \in ByHand : ~Admitted(Top, s)

Freeze(b) ==
    /\ Goto(b, "freeze", "save")
    /\ \E outcome \in {Completed(TRUE, world), Failed} : Ended(b, outcome)
    /\ UNCHANGED <<around, runs, archived>>

\* paid_executed is on disk before the stage can spend.
RecordPaid(b) ==
    /\ Goto(b, "pay", IF stage[b] \in Generation THEN "compare"
                      ELSE IF stage[b] = "parallel" THEN "spawn" ELSE "new")
    /\ mem' = [mem EXCEPT ![b].paid = TRUE]
    /\ disk' = [disk EXCEPT ![b] = mem'[b]]
    /\ UNCHANGED <<around, stage, row, good, loaded, exit, runs, archived>>

\* The finally block: the verdict and the outcome are saved, the lock is free.
Save(b) ==
    /\ Goto(b, "save", "idle")
    /\ disk' = [disk EXCEPT ![b] = Concluded(mem[b])]
    /\ mem' = [mem EXCEPT ![b] = NoRecord]
    /\ exit' = [exit EXCEPT ![b] = Passes(mem[b], stage[b])]
    /\ loaded' = [loaded EXCEPT ![b] = 0]
    /\ UNCHANGED <<around, stage, row, good, runs, archived>>

-----------------------------------------------------------------------------
(* The runs of a stage: one per row.                                       *)

Rows(s) == IF s = "capability" THEN CapabilityRows ELSE IF s = "public-tools" THEN PublicRows ELSE 1

Candidate(b) == mem[b].stages["freeze"].candidate

CompareCandidate(b) ==
    /\ at[b] = "compare"
    /\ IF world = Candidate(b)
       THEN Goto(b, "compare", "new") /\ UNCHANGED <<disk, mem, stage, row, good, loaded, exit>>
       ELSE Goto(b, "compare", "save") /\ Ended(b, Failed)
    /\ UNCHANGED <<around, runs, archived>>

\* What a process reads of the candidate.
Read(b, versions) == IF stage[b] \in Generation THEN versions ELSE {}

\* RunStore.initialize records the runtime as it is now.
NewRun(b) ==
    /\ Goto(b, "new", "list")
    /\ LET run == [made |-> world, used |-> Read(b, {loaded[b], world}), called |-> FALSE,
                   status |-> "open", delivery |-> "none", audited |-> "none"] IN
       runs' = [k \in DOMAIN runs \cup {Key(b)} |-> IF k = Key(b) THEN run ELSE runs[k]]
    /\ UNCHANGED <<around, disk, stage, mem, row, good, loaded, exit, archived>>

NewRunFails(b) ==
    /\ Goto(b, "new", "save")
    /\ Ended(b, Failed)
    /\ UNCHANGED <<around, runs, archived>>

\* Mutant of ListRun: the list is saved with the outcome of the stage.
ListRunLater(b) ==
    /\ Goto(b, "list", "run")
    /\ mem' = [mem EXCEPT ![b].runs = @ \cup {Key(b)}]
    /\ UNCHANGED <<around, disk, stage, row, good, loaded, exit, runs, archived>>

ListRun(b) ==
    /\ Goto(b, "list", "run")
    /\ mem' = [mem EXCEPT ![b].runs = @ \cup {Key(b)}]
    /\ disk' = [disk EXCEPT ![b] = mem'[b]]
    /\ UNCHANGED <<around, stage, row, good, loaded, exit, runs, archived>>

\* The prompts are read before the first call.
Call(b) ==
    /\ at[b] = "run" /\ ~runs[Key(b)].called
    /\ runs' = [runs EXCEPT ![Key(b)].called = TRUE, ![Key(b)].used = @ \cup Read(b, {world})]
    /\ UNCHANGED <<around, disk, process, archived>>

\* The checker's worker is read at every verification, of the run and the audit.
ReadCandidate(b) ==
    /\ at[b] \in {"run", "recheck"} /\ stage[b] \in Generation /\ runs[Key(b)].called
    /\ runs' = [runs EXCEPT ![Key(b)].used = @ \cup {world}]
    /\ UNCHANGED <<around, disk, process, archived>>

\* A failed probe is counted, and the next one is run.
ProbeOutcome(last, before, ok) == IF last THEN Completed(before /\ ok, 0) ELSE Started

\* A failed public session ends its stage.
SessionOutcome(last, ok) == IF ~ok THEN Failed ELSE IF last THEN Completed(TRUE, 0) ELSE Started

\* A failed repair completes its stage, without success.
RepairOutcome(ok) == Completed(ok, 0)

RowOutcome(s, last, before, ok) ==
    CASE s = "capability" -> ProbeOutcome(last, before, ok)
      [] s = "public-tools" -> SessionOutcome(last, ok)
      [] s = "private-repair" -> RepairOutcome(ok)

\* A row needs its responses (call_audit).
RowMayPass(b) == runs[Key(b)].called

\* A study run ends as study_complete, whatever happened in it.
StudyRowEnds(b) ==
    /\ at[b] = "run" /\ stage[b] \in Study
    /\ \E ok \in BOOLEAN :
        LET outcome == RowOutcome(stage[b], row[b] = Rows(stage[b]), good[b], ok) IN
        /\ ok => RowMayPass(b)
        /\ runs' = [runs EXCEPT ![Key(b)].status = "study_complete"]
        /\ good' = [good EXCEPT ![b] = @ /\ ok]
        /\ mem' = [mem EXCEPT ![b].stages[stage[b]] = outcome]
        /\ IF outcome = Started
           THEN Goto(b, "run", "new") /\ row' = [row EXCEPT ![b] = @ + 1]
           ELSE Goto(b, "run", "save") /\ UNCHANGED row
    /\ UNCHANGED <<around, disk, stage, loaded, exit, archived>>

GenerationSucceeds(b) ==
    /\ Goto(b, "run", "audit")
    /\ stage[b] \in Generation /\ runs[Key(b)].called
    /\ runs' = [runs EXCEPT ![Key(b)].status = "success", ![Key(b)].delivery = "delivered"]
    /\ UNCHANGED <<around, disk, stage, mem, row, good, loaded, exit, archived>>

GenerationFails(b) ==
    /\ Goto(b, "run", "save")
    /\ stage[b] \in Generation
    /\ Ended(b, Failed)
    /\ \E status \in {"open", "failed"} : runs' = [runs EXCEPT ![Key(b)].status = status]
    /\ UNCHANGED <<around, archived>>

\* Mutant of Auditable: the runtime that the run recorded is not looked at.
AuditableDelivery(b) == runs[Key(b)].delivery = "delivered"

\* The runtime of the run is the frozen one, the delivery the recorded one.
Auditable(b) == runs[Key(b)].made = Candidate(b) /\ runs[Key(b)].delivery = "delivered"

Audit(b) ==
    /\ at[b] = "audit"
    /\ \/ /\ Auditable(b)
          /\ Goto(b, "audit", "copy") /\ UNCHANGED <<disk, mem, stage, row, good, loaded, exit>>
       \/ Goto(b, "audit", "save") /\ Ended(b, Failed)
    /\ UNCHANGED <<around, runs, archived>>

\* A copy of the delivery, as it is now, is built and verified again.
CopyDelivery(b) ==
    /\ Goto(b, "copy", "recheck")
    /\ runs' = [runs EXCEPT ![Key(b)].audited = runs[Key(b)].delivery]
    /\ UNCHANGED <<around, disk, stage, mem, row, good, loaded, exit, archived>>

\* The checks of the copy fail.
AuditFails(b) ==
    /\ at[b] \in {"copy", "recheck"} /\ Goto(b, at[b], "save")
    /\ Ended(b, Failed)
    /\ UNCHANGED <<around, runs, archived>>

\* The delivery and the candidate are compared once more.
Recheck(b) ==
    /\ Goto(b, "recheck", "save")
    /\ Ended(b, IF runs[Key(b)].delivery = "delivered" /\ world = Candidate(b)
                THEN Completed(TRUE, Candidate(b)) ELSE Failed)
    /\ UNCHANGED <<around, runs, archived>>

-----------------------------------------------------------------------------
(* parallel: every sample has a batch and a process of its own.            *)

Inherited(record) ==
    [record EXCEPT !.child = TRUE, !.runs = {}, !.status = FALSE,
                   !.stages = [s \in Stages |-> IF s \in Study \cup {"freeze"} THEN record.stages[s]
                                                ELSE NotAttempted]]

Spawn ==
    LET c == Children[row[Top]] IN
    /\ at[Top] = "spawn"
    /\ disk' = [disk EXCEPT ![c] = Inherited(mem[Top])]
    /\ at' = [at EXCEPT ![c] = "boot", ![Top] = IF row[Top] = 3 THEN "wait" ELSE "spawn"]
    /\ loaded' = [loaded EXCEPT ![c] = world]
    /\ row' = [row EXCEPT ![Top] = IF @ = 3 THEN 1 ELSE @ + 1]
    /\ UNCHANGED <<around, stage, mem, good, exit, runs, archived>>

\* The children that have started go on by themselves.
SpawnFails ==
    /\ Goto(Top, "spawn", "save")
    /\ Ended(Top, Failed)
    /\ UNCHANGED <<around, runs, archived>>

ChildBegins(i) == Goto(Children[i], "boot", "pay") /\ Begin(Children[i], ChildStage[i])

ChildRefused(i) == Refuse(Children[i]) /\ ~Admitted(Children[i], ChildStage[i])

Waited(c) == at[c] \in {"idle", "archive"}

\* Mutant of Counts: it is enough that the sample was attempted.
CountsAttempt(i) == Attempted(disk[Children[i]], ChildStage[i])

Counts(i) == exit[Children[i]] /\ Passes(disk[Children[i]], ChildStage[i])

\* The runs of a child are listed when it has ended, the last child ends the stage.
Wait ==
    LET i == row[Top] IN
    /\ at[Top] = "wait" /\ Waited(Children[i])
    /\ good' = [good EXCEPT ![Top] = @ /\ Counts(i)]
    /\ row' = [row EXCEPT ![Top] = @ + 1]
    /\ at' = [at EXCEPT ![Top] = IF i = 3 THEN "save" ELSE "wait"]
    /\ mem' = [mem EXCEPT ![Top].runs = @ \cup disk[Children[i]].runs,
                          ![Top].stages["parallel"] = IF i = 3 THEN Completed(good'[Top], 0) ELSE @]
    /\ UNCHANGED <<around, disk, stage, loaded, exit, runs, archived>>

-----------------------------------------------------------------------------
(* archive, and what happens around the driver.                            *)

Archivable(b, s) ==
    LET run == runs[[batch |-> b, stage |-> s, row |-> 1]] IN
    Passes(disk[b], s) /\ run.status = "success" /\ run.delivery = "delivered"

\* The sample and the hashes of its delivery are checked under the lock.
CheckArchive ==
    \E b \in Batches, s \in Generation :
        /\ Cardinality(archived) < MaxArchives
        /\ Goto(b, "idle", "archive") /\ Archivable(b, s)
        /\ stage' = [stage EXCEPT ![b] = s] /\ row' = [row EXCEPT ![b] = 1]
        /\ UNCHANGED <<around, disk, mem, good, loaded, exit, runs, archived>>

\* The files are read later, as they are then.
Archive(b) ==
    /\ Goto(b, "archive", "idle")
    /\ archived' = archived \cup {[run |-> Key(b), delivery |-> runs[Key(b)].delivery]}
    /\ UNCHANGED <<around, disk, stage, mem, row, good, loaded, exit, runs>>

ChangeCandidate ==
    /\ changes < MaxChanges /\ changes' = changes + 1
    /\ world' \in Versions \ {world}
    /\ UNCHANGED <<edits, disk, process, runs, archived>>

\* A delivery is edited, or the edit is undone.
EditDelivery ==
    \E k \in DOMAIN runs, edited \in {"delivered", "edited"} :
        /\ runs[k].delivery \in {"delivered", "edited"} \ {edited}
        /\ edits < MaxEdits /\ edits' = edits + 1
        /\ runs' = [runs EXCEPT ![k].delivery = edited]
        /\ UNCHANGED <<world, changes, disk, process, archived>>

Down(b) ==
    /\ at[b] # "idle"
    /\ at' = [at EXCEPT ![b] = "idle"]
    /\ mem' = [mem EXCEPT ![b] = NoRecord] /\ exit' = [exit EXCEPT ![b] = @ /\ at[b] = "archive"]
    /\ loaded' = [loaded EXCEPT ![b] = 0]
    /\ UNCHANGED <<around, stage, row, good, archived>>

Crash(b) == Down(b) /\ UNCHANGED <<disk, runs>>

\* KeyboardInterrupt is no Exception: the stage stays "running", the finally
\* blocks save the record and close a study run.
Interrupt(b) ==
    /\ at[b] \notin {"boot", "save", "archive"} /\ Down(b)
    /\ disk' = [disk EXCEPT ![b] = Concluded(mem[b])]
    /\ runs' = IF at[b] = "run" /\ stage[b] \in Study
               THEN [runs EXCEPT ![Key(b)].status = "study_complete"] ELSE runs

Next ==
    \/ Prepare \/ Launch \/ Command \/ CommandRefused \/ Spawn \/ SpawnFails \/ Wait \/ CheckArchive
    \/ ChangeCandidate \/ EditDelivery
    \/ \E i \in 1..3 : ChildBegins(i) \/ ChildRefused(i)
    \/ \E b \in Batches :
        \/ Freeze(b) \/ RecordPaid(b) \/ Save(b)
        \/ CompareCandidate(b) \/ NewRun(b) \/ NewRunFails(b) \/ ListRun(b) \/ Call(b) \/ ReadCandidate(b)
        \/ StudyRowEnds(b) \/ GenerationSucceeds(b) \/ GenerationFails(b)
        \/ Audit(b) \/ CopyDelivery(b) \/ AuditFails(b) \/ Recheck(b) \/ Archive(b)
        \/ Crash(b) \/ Interrupt(b)

Spec == Init /\ [][Next]_vars

-----------------------------------------------------------------------------
(* Properties.                                                             *)

\* What a stage that no process runs has on disk stays: a failed, crashed or
\* interrupted attempt is neither repeated nor completed later.
AttemptStays ==
    \A b \in Batches, s \in Stages :
        (Attempted(disk[b], s) /\ (at[b] = "idle" \/ stage[b] # s))
            => disk'[b].stages[s] = disk[b].stages[s]

\* A run that may have spent is in the record of its batch, which says that
\* it spent, wherever the driver died.
EveryCallIsListed ==
    \A k \in DOMAIN runs : runs[k].called => k \in disk[k.batch].runs /\ disk[k.batch].paid

\* The two together: what was attempted or spent stays on record.
AttemptsAreKept == [][EveryCallIsListed' /\ AttemptStays]_vars

\* A sample that counts succeeded, was audited, and has recorded the frozen
\* candidate of its batch, also when a person changes files and undoes the
\* change while the commands compare them.  Unless a change was undone, all that
\* was read for it is of that candidate.
SamplesShareCandidate ==
    \A b \in Batches : \A s \in Generation : Passes(disk[b], s) =>
        LET run == runs[[batch |-> b, stage |-> s, row |-> 1]] IN
        /\ run.made = disk[b].stages["freeze"].candidate
        /\ run.status = "success" /\ run.audited # "none"
        /\ disk[b].stages[s].candidate = run.made
        /\ run.used = {run.made} \/ changes >= 2

\* An archive is of a sample that counts.
ArchivesAreAudited == \A a \in archived : Passes(disk[a.run.batch], a.run.stage)

\* Samples and archives together.
SamplesCount == TypeOK /\ SamplesShareCandidate /\ ArchivesAreAudited

\* A batch that reports success has passed every study stage, every probe with
\* a response, and has either the serial samples or those of all children.
SuccessIsWhole ==
    disk[Top].status =>
        /\ \A s \in Study \cup {"freeze"} : Passes(disk[Top], s)
        /\ \A i \in 1..CapabilityRows :
            runs[[batch |-> Top, stage |-> "capability", row |-> i]].called
        /\ \/ \A s \in Generation : Passes(disk[Top], s)
           \/ \A i \in 1..3 : Passes(disk[Children[i]], ChildStage[i])

\* When parallel has completed, the batch lists what its children spent on.
ParallelListsRuns ==
    disk[Top].stages["parallel"].state = "complete" =>
        {k \in DOMAIN runs : k.batch # Top /\ runs[k].called} \subseteq disk[Top].runs

\* What a batch reports as its success and as its runs is all of it.
CampaignIsWhole == SuccessIsWhole /\ ParallelListsRuns

\* README: "A failed first MQTT blocks repeats."
NoRepeatAfterFailure ==
    [][disk[Top].stages["mqtt-first"].state = "failed" =>
        \A k \in DOMAIN runs' : k.stage \in Generation => k \in DOMAIN runs]_vars

\* "candidate changed during run: sample does not count": nothing of another
\* candidate was read for a sample that counts.
SamplesUseCandidate ==
    \A b \in Batches : \A s \in Generation : Passes(disk[b], s) =>
        runs[[batch |-> b, stage |-> s, row |-> 1]].used = {disk[b].stages["freeze"].candidate}

\* "only independently verified successful public deliveries may be archived":
\* what is in an archive is what was delivered and what was audited.
ArchivesAreDeliveries ==
    \A a \in archived : a.delivery = "delivered" /\ runs[a.run].audited = "delivered"
=============================================================================
