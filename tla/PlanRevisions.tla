--------------------------- MODULE PlanRevisions ----------------------------
(***************************************************************************)
(* The immutable revisions of a run's plan: RunStore.append_followup       *)
(* (run_store.py) as a session requests it, step by step against crashes   *)
(* and interrupts, and the task loop that reads the active revision.       *)
(*                                                                         *)
(* files is the directory plans/: a revision is a sequence of tasks, each  *)
(* with the task it depends on, and is created exclusively, never replaced.*)
(* disk is run.json, mem the live controller's dictionary.  Sessions are   *)
(* left to Controller: that one is left to the requesting task is a choice.*)
(***************************************************************************)
EXTENDS Naturals, Sequences, SequencesExt

CONSTANTS NBase,    \* tasks of the first plan before final-integration
          Limit,    \* budgets.followups
          MaxRevisions,  \* revisions that are written (a bound)
          Faults    \* a subset of {"crash", "interrupt"}

ASSUME LimitsAssumption == NBase \in Nat \ {0} /\ Limit \in Nat /\ MaxRevisions \in Nat
ASSUME FaultsAssumption == Faults \subseteq {"crash", "interrupt"}

VARIABLES files,    \* plans/: a sequence of revisions
          disk,     \* run.json
          mem,      \* RunStore.run of the live controller
          pc,       \* where the controller is
          next      \* the local plan of append_followup

vars == <<files, disk, mem, pc, next>>

-----------------------------------------------------------------------------
None == 0
Final == NBase + Limit + 1
Followup(n) == NBase + n            \* followup:00n
Tasks == 1..Final

\* depends_on is rewritten for every task when a revision is made.
Chain(ids) == [i \in DOMAIN ids |-> [id |-> ids[i], dep |-> IF i = 1 THEN None ELSE ids[i-1]]]
Ids(plan) == [i \in DOMAIN plan |-> plan[i].id]

FirstIds == Append([i \in 1..NBase |-> i], Final)

NewRun == [active |-> 1,                           \* active_plan
           entries |-> ToSet(FirstIds),            \* the keys of tasks
           passed |-> {},
           followups |-> 0]

Plans == Seq([id : Tasks, dep : Tasks \cup {None}])
RunRecords == [active : Nat, entries : SUBSET Tasks, passed : SUBSET Tasks, followups : 0..Limit]

TypeOK ==
    /\ files \in Seq(Plans) /\ next \in Plans
    /\ {disk, mem} \subseteq RunRecords
    /\ \A run \in {disk, mem} : run.active \in DOMAIN files /\ run.passed \subseteq run.entries
    /\ pc \in {"down", "tasks", "write", "activate", "enter", "count", "save"}

Init ==
    /\ files = <<Chain(FirstIds)>>
    /\ disk = NewRun
    /\ mem = NewRun
    /\ pc = "tasks"
    /\ next = <<>>

-----------------------------------------------------------------------------
Goto(from, to) == pc = from /\ pc' = to

Plan(run) == files[run.active]
Pending(run) == {i \in DOMAIN Plan(run) : Plan(run)[i].id \notin run.passed}

\* The task loop looks up the entry of every planned task.
Readable(run) == ToSet(Ids(Plan(run))) \subseteq run.entries

\* The first pending task runs; here it is accepted.
PassTask ==
    /\ Goto("tasks", "tasks")
    /\ Readable(mem) /\ Pending(mem) # {}
    /\ LET i == CHOOSE i \in Pending(mem) : \A j \in Pending(mem) : i <= j IN
       mem' = [mem EXCEPT !.passed = @ \cup {Plan(mem)[i].id}]
    /\ disk' = mem'
    /\ UNCHANGED <<files, next>>

\* A planned task without an entry is a KeyError: the run ends.
LookupFails ==
    /\ Goto("tasks", "down")
    /\ ~Readable(mem)
    /\ disk' = mem
    /\ UNCHANGED <<files, mem, next>>

\* Mutant of Revision: the follow-up goes to the front.
InsertFirst(plan, id) == Chain(InsertAt(Ids(plan), 1, id))

\* The new task goes before the last one and the chain is rebuilt.
Revision(plan, id) == Chain(InsertAt(Ids(plan), Len(plan), id))

\* append_followup, for the task whose session is open: never the final one,
\* and at most Limit times; another request is answered with an error.
Request ==
    /\ Goto("tasks", "write")
    /\ Readable(mem)
    /\ \E i \in Pending(mem) : Plan(mem)[i].id # Final
    /\ mem.followups < Limit
    /\ Len(files) < MaxRevisions
    /\ next' = Revision(Plan(mem), Followup(mem.followups + 1))
    /\ UNCHANGED <<files, disk, mem>>

WriteRevision ==
    /\ Goto("write", "activate")
    /\ mem.active = Len(files)
    /\ files' = Append(files, next)
    /\ UNCHANGED <<disk, mem, next>>

\* open("xb") raises FileExistsError, which the session returns to the model.
RevisionExists ==
    /\ Goto("write", "tasks")
    /\ mem.active < Len(files)
    /\ next' = <<>>
    /\ UNCHANGED <<files, disk, mem>>

Activate ==
    /\ Goto("activate", "enter")
    /\ mem' = [mem EXCEPT !.active = @ + 1]
    /\ UNCHANGED <<files, disk, next>>

\* Mutant of EnterTask: the entry is saved at once, before it is counted.
EnterSaved ==
    /\ Goto("enter", "count")
    /\ mem' = [mem EXCEPT !.entries = @ \cup {Followup(mem.followups + 1)}]
    /\ disk' = mem'
    /\ UNCHANGED <<files, next>>

\* A new entry, pending; it replaces one of the same name.
EnterTask ==
    /\ Goto("enter", "count")
    /\ LET id == Followup(mem.followups + 1) IN
       mem' = [mem EXCEPT !.entries = @ \cup {id}, !.passed = @ \ {id}]
    /\ UNCHANGED <<files, disk, next>>

CountFollowup ==
    /\ Goto("count", "save")
    /\ mem' = [mem EXCEPT !.followups = @ + 1]
    /\ UNCHANGED <<files, disk, next>>

Save ==
    /\ Goto("save", "tasks")
    /\ disk' = mem
    /\ next' = <<>>
    /\ UNCHANGED <<files, mem>>

Resume ==
    /\ Goto("down", "tasks")
    /\ mem' = disk
    /\ UNCHANGED <<files, disk, next>>

Stop == pc # "down" /\ pc' = "down" /\ next' = <<>> /\ UNCHANGED files

Crash == "crash" \in Faults /\ Stop /\ mem' = disk /\ UNCHANGED disk

\* The handler of Orchestrator.run saves the dictionary as it stands.
Interrupt == "interrupt" \in Faults /\ Stop /\ disk' = mem /\ UNCHANGED mem

Next ==
    \/ PassTask \/ LookupFails \/ Request \/ WriteRevision \/ RevisionExists
    \/ Activate \/ EnterTask \/ CountFollowup \/ Save \/ Resume \/ Crash \/ Interrupt

Spec == Init /\ [][Next]_vars

-----------------------------------------------------------------------------
(* Properties.                                                             *)

\* The active plan is one serial chain that final-integration closes, whatever
\* was appended and interrupted (append_followup, compile_plan).
PlanIsClosedChain ==
    LET plan == Plan(disk) IN
    /\ Last(plan).id = Final
    /\ \A i \in DOMAIN plan : plan[i].dep = IF i = 1 THEN None ELSE plan[i-1].id

\* What passed is a prefix of the active plan: no follow-up enters behind a
\* task that is already done.
PassedIsPrefix ==
    LET plan == Plan(disk) IN
    \A i, j \in DOMAIN plan : i < j /\ plan[j].id \in disk.passed => plan[i].id \in disk.passed

\* After crashes and interrupts anywhere in append_followup, what has passed is
\* a prefix of the active plan, which is one serial chain up to final-integration.
PlanIsOrdered == TypeOK /\ PassedIsPrefix /\ PlanIsClosedChain

\* run.json implements the promise: reference, entry and count change together.
Promise == INSTANCE FollowupPlan WITH
    FirstPlan <- FirstIds,
    FollowupIds <- [n \in 1..Limit |-> Followup(n)],
    plan <- Ids(Plan(disk)),
    passed <- disk.passed
FollowupsAreAtomic == Promise!Spec

\* Every task of the active plan has its entry in run.json, so that the task
\* loop can read its status.
PlannedTasksEntered == Readable(disk)

\* A run has at most Limit follow-ups.
FollowupsLimited == Len(Plan(disk)) <= NBase + 1 + Limit

\* While the limit is not reached, the next revision can be written.
FollowupsPossible == pc = "down" /\ disk.followups < Limit => disk.active = Len(files)
=============================================================================
