------------------------------ MODULE Delivery ------------------------------
(***************************************************************************)
(* The end of a run: Orchestrator._delivery (orchestrator.py) and          *)
(* publish_report (report.py), step by step against crashes, interrupts,   *)
(* the deadline and a person who changes files.                            *)
(*                                                                         *)
(* A tree is a number: a new one for every edit or repair.  The tasks have *)
(* passed; a repair is one step (its session is in RunStore, its budget in *)
(* Controller).  The directory export-attempts/ is the newest candidate and *)
(* the trees in attempts: earlier candidates and unpublished deliveries.   *)
(***************************************************************************)
EXTENDS Naturals

CONSTANTS Repairs,    \* budgets.final_repairs
          MaxTrees,   \* trees that are made by edits and repairs (a bound)
          Faults      \* a subset of {"crash", "interrupt", "person"}

ASSUME RepairsAssumption == Repairs \in Nat /\ MaxTrees \in Nat
ASSUME FaultsAssumption == Faults \subseteq {"crash", "interrupt", "person"}

VARIABLES project,      \* runs/<id>/project
          accepted,     \* the tree of accepted_checkpoint
          trees,        \* trees made so far
          candidate, attempts,  \* export-attempts/
          destination,  \* delivery/
          disk, mem,    \* run.json, and the dictionary of the controller
          report, public,  \* report.json and report.public.json
          pc

files == <<project, accepted, trees, candidate, attempts, destination>>
reports == <<report, public>>
vars == <<files, disk, mem, reports, pc>>

-----------------------------------------------------------------------------
None == 0
Trees == 1..(MaxTrees + 1)
Statuses == {"running", "success", "stopped", "internal_error"}
NoChecks == [tree |-> None, passed |-> FALSE]
NoDelivery == [files |-> None, checkpoint |-> None]

\* The fields of run.json this module is about; a report copies them.
RunRecords == [status : Statuses,
               checks : [tree : Trees \cup {None}, passed : BOOLEAN],
               delivery : [files : Trees \cup {None}, checkpoint : Trees \cup {None}],
               repairs : 0..Repairs]

TypeOK ==
    /\ {project, accepted} \subseteq Trees /\ trees \in Trees
    /\ {candidate, destination} \subseteq Trees \cup {None}
    /\ attempts \subseteq Trees
    /\ disk \in RunRecords /\ mem \in RunRecords
    /\ report \in RunRecords /\ public \in RunRecords
    /\ pc \in {"down", "begin", "again", "deliver", "copy", "check", "checked", "move", "record",
               "delivered", "repair", "mend", "publish", "publish_public", "close"}

NewRun == [status |-> "running", checks |-> NoChecks, delivery |-> NoDelivery, repairs |-> 0]

Init ==
    /\ project = 1 /\ accepted = 1 /\ trees = 1
    /\ candidate = None /\ attempts = {} /\ destination = None
    /\ disk = NewRun /\ mem = NewRun
    /\ report = NewRun /\ public = NewRun
    /\ pc = "deliver"

-----------------------------------------------------------------------------
Goto(from, to) == pc = from /\ pc' = to

\* An outcome of Orchestrator.run; then the report is published.
Outcome(from, status) ==
    /\ Goto(from, "publish")
    /\ mem' = [mem EXCEPT !.status = status]
    /\ UNCHANGED <<files, disk, reports>>

Resume ==
    /\ Goto("down", "begin")
    /\ mem' = disk
    /\ UNCHANGED <<files, disk, reports>>

Intact == mem.delivery # NoDelivery => destination = mem.delivery.files

\* A finished run publishes its report again and saves nothing; a changed
\* delivery makes that fail, and the handler records an internal error.
ReportAgain ==
    /\ mem.status = "success" /\ Intact
    /\ Goto("begin", "again")
    /\ report' = mem
    /\ UNCHANGED <<files, disk, mem, public>>

PublicAgain ==
    /\ Goto("again", "down")
    /\ public' = mem
    /\ UNCHANGED <<files, disk, mem, report>>

AgainFails == mem.status = "success" /\ ~Intact /\ Outcome("begin", "internal_error")

\* recover() refuses a project that is not the accepted one.
RefuseDrift == mem.status # "success" /\ project # accepted /\ Outcome("begin", "stopped")

Recover ==
    /\ Goto("begin", "deliver")
    /\ mem.status # "success" /\ project = accepted
    /\ mem' = [mem EXCEPT !.status = "running"]
    /\ disk' = mem'
    /\ UNCHANGED <<files, reports>>

-----------------------------------------------------------------------------
(* _delivery.                                                              *)

\* A delivery that was saved is the result of every later attempt, unless
\* somebody changed it.
Redeliver ==
    /\ mem.delivery # NoDelivery
    /\ Outcome("deliver", IF destination = mem.delivery.files THEN "success" ELSE "stopped")

\* Mutant of SetAside: the orphan is deleted.
DeleteOrphan ==
    /\ Goto("deliver", "copy")
    /\ mem.delivery = NoDelivery
    /\ destination' = None
    /\ UNCHANGED <<project, accepted, trees, attempts, candidate, disk, mem, reports>>

\* A delivery/ that no record mentions is moved away.
SetAside ==
    /\ Goto("deliver", "copy")
    /\ mem.delivery = NoDelivery
    /\ attempts' = attempts \cup ({destination} \ {None})
    /\ destination' = None
    /\ UNCHANGED <<project, accepted, trees, candidate, disk, mem, reports>>

CopyProject ==
    /\ Goto("copy", "check")
    /\ attempts' = attempts \cup ({candidate} \ {None})
    /\ candidate' = project
    /\ UNCHANGED <<project, accepted, trees, destination, disk, mem, reports>>

\* README and sources are looked for, the candidate is built from clean and
\* verified; the evidence is written, and saved with the result.
Check ==
    /\ Goto("check", "checked")
    /\ \E passed \in BOOLEAN :
        mem' = [mem EXCEPT !.checks = [tree |-> candidate, passed |-> passed]]
    /\ UNCHANGED <<files, disk, reports>>

SaveChecks ==
    /\ pc = "checked"
    /\ pc' = IF mem.checks.passed THEN "move" ELSE "repair"
    /\ disk' = mem
    /\ UNCHANGED <<files, mem, reports>>

MoveIntoPlace ==
    /\ Goto("move", "record")
    /\ destination = None
    /\ destination' = candidate /\ candidate' = None
    /\ UNCHANGED <<project, accepted, trees, attempts, disk, mem, reports>>

RecordDelivery ==
    /\ Goto("record", "delivered")
    /\ mem' = [mem EXCEPT !.delivery = [files |-> destination, checkpoint |-> accepted]]
    /\ UNCHANGED <<files, disk, reports>>

\* Mutant of SaveDelivery: the record is saved with the outcome only.
SkipSaveDelivery == Outcome("delivered", "success")

SaveDelivery ==
    /\ Goto("delivered", "publish")
    /\ disk' = mem
    /\ mem' = [mem EXCEPT !.status = "success"]
    /\ UNCHANGED <<files, reports>>

\* Failed checks are repaired while repairs are left: each is counted first,
\* and its session may change the code, or be given up.
CountRepair ==
    /\ Goto("repair", "mend")
    /\ mem.repairs < Repairs
    /\ mem' = [mem EXCEPT !.repairs = @ + 1]
    /\ disk' = mem'
    /\ UNCHANGED <<files, reports>>

Mend ==
    /\ Goto("mend", "deliver")
    /\ trees < MaxTrees + 1
    /\ trees' = trees + 1 /\ project' = trees' /\ accepted' = trees'
    /\ UNCHANGED <<attempts, destination, candidate, disk, mem, reports>>

RepairFails ==
    /\ Goto("mend", "repair")
    /\ UNCHANGED <<files, disk, mem, reports>>

GiveUp == mem.repairs >= Repairs /\ Outcome("repair", "stopped")

-----------------------------------------------------------------------------
(* publish_report.                                                         *)

Publish ==
    /\ Goto("publish", "publish_public")
    /\ Intact
    /\ report' = mem
    /\ UNCHANGED <<files, disk, mem, public>>

PublishPublic ==
    /\ Goto("publish_public", "close")
    /\ public' = mem
    /\ UNCHANGED <<files, disk, mem, report>>

PublicationFails ==
    /\ Goto("publish", "close")
    /\ ~Intact
    /\ mem' = [mem EXCEPT !.status = "internal_error"]
    /\ UNCHANGED <<files, disk, reports>>

Close ==
    /\ Goto("close", "down")
    /\ disk' = mem
    /\ UNCHANGED <<files, mem, reports>>

-----------------------------------------------------------------------------
Crash ==
    /\ "crash" \in Faults
    /\ pc # "down" /\ pc' = "down"
    /\ mem' = disk
    /\ UNCHANGED <<files, disk, reports>>

\* SIGINT or the deadline in the try block is an outcome; in publish_report
\* the deadline is an internal error, and SIGINT ends the program unsaved,
\* as a crash does.
Interrupt ==
    /\ "interrupt" \in Faults
    /\ \/ /\ pc \notin {"down", "publish", "publish_public", "close"}
          /\ Outcome(pc, "stopped")
       \/ /\ pc \in {"publish", "publish_public"} /\ pc' = "close"
          /\ mem' = [mem EXCEPT !.status = "internal_error"]
          /\ UNCHANGED <<files, disk, reports>>

\* A person edits the project at any time, and the delivery between controllers.
EditProject ==
    /\ trees < MaxTrees + 1
    /\ trees' = trees + 1 /\ project' = trees'
    /\ UNCHANGED <<accepted, candidate, attempts, destination>>

EditDelivery ==
    /\ pc = "down" /\ destination # None /\ trees < MaxTrees + 1
    /\ trees' = trees + 1 /\ destination' = trees'
    /\ UNCHANGED <<project, accepted, candidate, attempts>>

Person ==
    /\ "person" \in Faults
    /\ EditProject \/ EditDelivery
    /\ UNCHANGED <<disk, mem, reports, pc>>

Next ==
    \/ Resume \/ ReportAgain \/ PublicAgain \/ AgainFails \/ RefuseDrift \/ Recover
    \/ Redeliver \/ SetAside \/ CopyProject \/ Check \/ SaveChecks
    \/ MoveIntoPlace \/ RecordDelivery \/ SaveDelivery
    \/ CountRepair \/ Mend \/ RepairFails \/ GiveUp
    \/ Publish \/ PublishPublic \/ PublicationFails \/ Close
    \/ Crash \/ Interrupt \/ Person

Spec == Init /\ [][Next]_vars

-----------------------------------------------------------------------------
(* Properties.                                                             *)

\* Whatever is published as a success, also by a controller that then died,
\* is a delivery run.json records, whose very files passed the final checks.
ReportedSuccessIsReal ==
    \A r \in {report, public} : r.status = "success" =>
        /\ r.delivery = disk.delivery /\ disk.delivery # NoDelivery
        /\ disk.checks = [tree |-> disk.delivery.files, passed |-> TRUE]

\* A recorded delivery passed the final checks, unchanged since.
DeliveryWasChecked ==
    disk.delivery # NoDelivery => disk.checks = [tree |-> disk.delivery.files, passed |-> TRUE]

\* A success that is published, also by a controller that then died, is a
\* delivery that run.json records and whose very files passed the final checks;
\* whatever delivery it records has passed them.
SuccessIsReal == TypeOK /\ ReportedSuccessIsReal /\ DeliveryWasChecked

\* No controller destroys an exported tree: orphans of crashed deliveries and
\* failed candidates stay in export-attempts (only a person changes delivery/).
\* A delivery is recorded once and for all, whatever is resumed, repaired or
\* edited, and reported as a success only while it is what was checked.
ExportsKept ==
    [][/\ \/ attempts \cup {candidate, destination} \subseteq attempts' \cup {candidate', destination', None}
          \/ pc = "down"
       /\ disk.delivery # NoDelivery => disk'.delivery = disk.delivery
       /\ \A r \in {report'} : r # report /\ r.status = "success" => destination = r.delivery.files]_vars

\* The export is the accepted project.
ExportIsAccepted == disk.delivery.files = disk.delivery.checkpoint
=============================================================================
