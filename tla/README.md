# NePA: a verification project in TLA+

NePA turns a protocol specification into a C program: it compiles the
specification into a serial plan of tasks, lets a language model work on each
task through tools, gates every task with builds and independent checks, keeps
accepted code in git checkpoints, and publishes a delivery. A run takes hours,
costs money, and may be killed, interrupted or resumed at any moment. This
directory models the durable state of a run and of a campaign of runs, the
front end that a specification passes through and the experiments that measure
the generator, checks them with TLC and proves with TLAPS every safety property
that a run checks, for all values of the constants.

Paths below are relative to the repository (`nepa/...`), modules to this
directory.

## 1. Inventory

| Component | State | Operations | Correct when |
| --- | --- | --- | --- |
| Run store (`nepa/run_store.py`, `nepa/tools/git_ops.py`) | `run.json` (tasks, checkpoint, pending action, working hashes), the project directory, `checkpoints.git`, `interrupted/` | initialize, open, save, start_action, finish_action, accept, recover, reconfigure, append_followup, cleanup_verification | a task's verdict and its code are published together, nothing is overwritten, every interruption can be resumed |
| Campaign accounting (`nepa/run_store.py`, `nepa/llm/client.py`) | budget, pending calls, overflow and call counter of every `run.json`; `.campaign.lock`; call evidence | check_budget, reserve_call, settle_call, fail_call, the retry loop of `complete` | limits hold over all runs, no charge is forgotten, call numbers are never reused |
| Orchestrator (`nepa/orchestrator.py`) | status, exit code, final repairs | run, resume, the outcome handlers | the run ends, with the outcome that happened |
| Coding session (`nepa/agents/session.py`) | sessions, decisions, last feedback of a task | run: sessions of decisions, the action protocol, the finish gate | only gated code is accepted, budgets are never evaded |
| Plan revisions (`append_followup`, `nepa/speclib/plan.py`) | plan files, active plan, follow-up counter | compile_plan, append_followup | the chain stays serial and closed by final-integration; a crash leaves a usable plan |
| Delivery and report (`nepa/orchestrator.py`, `nepa/report.py`) | delivery directory, export attempts, final checks, reports | `_delivery`, publish_report, requirement_verification | a published delivery passed its checks and is never replaced; the report says no more than the evidence |
| Coding context (`nepa/agents/context.py`) | observations, transactions, latest diagnostic | record, request | no stale observation is shown, nothing current is dropped silently |
| Verification and sandbox (`nepa/tools/verification.py`, `nepa/tools/sandbox.py`) | containers, ownership records, verdict rows | run, exec, remove_container | every container is removed in the end; a pass needs every mandatory check in every variant |
| Workspace tools and build (`nepa/tools/workspace.py`, `nepa/tools/build.py`) | the project files | execute, run | writes stay inside the project |
| Client, pricing, adapters (`nepa/llm/`) | none between calls | prepare, send, price_usage, stream assembly | the reservation is a worst case, only complete answers count |
| Specification tool chain (`nepa/spec_extract/`, `nepa/speclib/lint.py`) | documents | ingest, compile, merge, approve, lint | nothing is lost without a trace |
| Experiment driver (`experiments/p0-p2/driver.py`) | frozen manifests, sample rows | gates between samples | a sample starts only on what was frozen |

The parts interact through one process and a few files. `cli.py` opens a run
store (reading `run.json`) and hands it to `Orchestrator.run`, which takes the
run's lock, arms the deadline timer, recovers, and drives `CodingSession.run`
task by task. The session asks `LLMClient.complete` for a decision, which
reserves and settles money in the same `run.json` dictionary, and runs tools
and gates on the project directory. Runs of one campaign share nothing but the
runs root: they read each other's `run.json` under the campaign lock.

The hard behaviours all come from one design: *the dictionary in memory is
mutated field by field and published by replacing `run.json`*. A crash loses
what was not saved; an exception (SIGINT, or the deadline's SIGALRM, both
raised between two arbitrary bytecodes) does not: the handler of
`Orchestrator.run` saves the dictionary however far it got. The project
directory, git and the evidence files change at once and independently.

## 2. Modules

### RunStore: tasks, actions, checkpoints, recovery

`disk` is `run.json`; `mem` is `RunStore.run` of the controller; only `Save`
and `Exit` (the handler) copy one to the other. `tree`, `archived` and
`commits` are the project directory, `interrupted/` and `checkpoints.git`.
`pc` is the controller's place in the code, one value per place where a crash
or an exception makes a difference. `made` and `gated` are history: the edits
ever made, and the states that passed a task's gate.

| Code | Actions |
| --- | --- |
| `CodingSession.run`, opening | `OpenSession`, `SaveSession` |
| `start_action` | `StartAction` / `RefuseAction`, `SaveAction` |
| tool or finish gate | `RunTool`, `PassGate`, `ToolRaises` |
| `finish_action` | `ClearAction`, `RehashAction`, `SaveResult` |
| `accept` | `CommitProject`, `MarkPassed`, `MoveCheckpoint`, `ReleaseTask`, `SaveAccept` |
| end of a task without success | `FailTask` |
| outcome handlers | `Exit`, `StopEarly`, `Interrupt` |
| `open` and `recover` | `Resume`, `RefuseRecovery`, `NothingToRecover`, `ArchiveTree`, `ArchiveFails`, `MakeProject`, `RestoreCheckpoint`, `RehashRecovered`, `SaveRecovery` |
| environment | `Crash`, `OperatorEdit` |

Abstractions. A project tree is the set of edits it was built from, a removal
being an edit as well; comparing hashes is comparing trees, except that a
missing directory hashes like an empty one (`Hashes`). The sessions and
decisions of a task are one open session that can fail at any decision: the
budgets only decide when. An export that fails or is repeated is a return to
`loop`; `Deliver` is the one that succeeds. A failed git command is `StopEarly`
at `git_commit` or `restore`. A crash kills the process; power failures that
tear git's own objects are left out, `atomic_json` itself is durable by its
fsyncs. People change the project
between controllers or between two actions of one (`StartAction` refuses then).

### AcceptedProgress: what a run promises

The abstract specification: tasks are accepted in plan order, each in one step
with its code; code is only built upon; only the final task may be reopened,
when a delivery fails. `RunStore` implements it with

    passed <- tasks passed in disk,  built <- checkpoint trees in disk,
    code <- accepted checkpoint's tree in disk

so that the many assignments of `accept` collapse into the rename of its save.

### CampaignLedger: reservations and settlements

Several runs, several controller processes. `disk[r]` holds the money fields of
run `r`'s `run.json`, `mem[p]` process `p`'s copy, read by `Open` *before* the
run's lock is taken by `Control`, as in `cli.py`. `controller` and `campaign`
are the two locks. `bill` and `excess` are history: what the provider truly
charged, and how far charges went above their reservations.

| Code | Actions |
| --- | --- |
| `RunStore.open`, `lock`, `run` | `Open`, `Control` / `GiveUp`, `SaveRunning`, `Leave`, `Close` |
| `reserve_call` | `BeginCall`, `EnterCampaign`, `RefuseCall` / `ReserveCost`, `EnterPending`, `PublishReservation`, `RecordRequest` |
| `complete` | `Send`, `Answer`, `FailCall`, `Retry`, `Abandon` |
| `settle_call` | `EnterSettlement`, `PopPending`, `AdjustCost`, `SettleOverrun`, `PublishSettlement` |
| environment | `Crash`, `Interrupt` |

Abstractions. Costs are naturals of a smallest unit (the code uses floats).
`pending_calls` is the sum of its reservations. A run charges one phase, the
one its configuration names, so its phase cost is its cost. The limits are
checked in one step from all files: the code reads them twice under the
campaign lock, and only a handler's save can fall in between. The wall clock,
token counts and the three settlement periods are left out.


### Controller: budgets and outcomes

`Orchestrator.run` around `CodingSession.run`: the task loop, the repair loop,
sessions and decisions, follow-ups, reconfigurations, every outcome with its
exit code, the deadline's one-shot alarm and the cost limit. An assignment and
the `save()` after it are one action here; what an interrupt between the two
publishes is RunStore's and PlanRevisions' subject. The image is checked after
the state "running" is saved, as in the code, so that a missing image is a
recorded outcome. `ctl` holds the locals
(the task, the sessions left of the `range` at session.py:111, the decisions
left), `alarm` the timer, which raises once and which a running verification
may swallow (verification.py:214).

### PlanRevisions, FollowupPlan: follow-ups

`append_followup` step by step (`Request`, `WriteRevision`, `Activate`,
`EnterTask`, `CountFollowup`, `Save`), the exclusively created plan files, and
the task loop that reads the active revision. `FollowupPlan` is the promise:
tasks pass in order, at most `Limit` follow-ups enter, each at once, before
the last task. Without interrupts `PlanRevisions` implements it
(`FollowupsAreAtomic`, with run.json alone mapped to the abstract state;
`PromiseHolds` in the run).

### Delivery and RequirementReport: the end of a run

`Delivery` is `_delivery` and `publish_report` with the directories they move
(`candidate`, `attempts`, `destination`), `final_checks` and `delivery` in
run.json, and both report files; a tree is a number, a person may change the
project or the delivery. `RequirementReport` is what the report says of a
requirement: the join of `requirement_verification` next to the verdict of
`VerificationRunner.run` and of the checker. Of what can go wrong with a
variant besides its rows one thing per variant is enumerated (`Wrongs`). A
resumption whose inputs cannot be read reports no requirements.

### Verification: containers and verdicts

`VerificationRunner.run`, `SandboxExecutor.exec` and `cleanup_verification`
over a daemon that may refuse, miss its time, or (`"late"`) complete a creation
after its client gave up; `journals` are the `containers.json` records. The
containers that came into being that late are `strays`, a history variable:
the records cannot know them, and every property says what it claims of them.

### Feedback and CodingContext: what the model is shown

`Feedback` follows a result from the tool or the delivery through
`publish_agent_evidence`, `_feedback_view`, `record` and the save of
`last_feedback` to the next request, over crashes and resumptions. A repair
session whose decisions are spent without success (`RepairEnds`) goes back to
the loop of orchestrator.py:86-95, which delivers nothing and publishes the
result of the last export, `exportResult`, once more: the next session is given
that instead of what failed last. `known` is therefore the failure and the gate
that the session was given or has met last; that this is the latest of the run
is `LatestIsGiven`, a divergence (section 3).
`CodingContext` is the context itself: observations, history, eviction at the
byte limit, and restoring after a resume. Texts are sizes; of a row only the
check and its variant are kept.

### StreamedCall and Pricing: one request

`StreamedCall` is `complete` over a streaming provider, down to the events: a
JSON text and the arguments of a tool call have two halves, an event carries
any sequence of them, and an answer is up to four events and a last one, in any
order. What the parser makes of the events (`parsed`) is a variable that
follows `sent`, one event at a time, as `_parse_chat_stream` does; what it has
understood of all that was sent is therefore a part of the invariant, and not a
definition. Content of the other action format is ignored by the code and by the
model. `ReserveCall`, `Try`, `Price` and `Settle` are steps of their own, so
that SIGINT and the deadline can come between the reservation and the `try`
(client.py:231-232), between the end of the `try` and the settlement (267-273),
or in the handler that was to close the call: `StoppedUnclosed` leaves the call
pending for ever. `Pricing` enumerates routes, tiers and hours: a million tokens is one
token, costs are counted in halves because off-peak hours may cost half.

### ClaimCompiler, SpecMerge, SpecGates: the specification

`ClaimCompiler` takes claims in every order: a structural claim is the set of
facts it states, "contains" is inclusion, specificity the number of facts; one
message, one field, one type. The id of a claim is its own, or the one of an
earlier claim: an answer of the model promises ids that are unique within its
request at best. Ids are only compared where `compile_v4` removes gaps, so only
claims that the format cannot express may repeat one. `SpecMerge` merges valid
specifications and keeps the order of their entries (`InOrder`); the protocol
with its roles is that of the first, messages with their roles come from all.
Types are left out: they are merged and referred to as requirements are. `SpecGates` has the commands from draft to run, each with its
second read for the hash and the two looks of `_write_immutable`; the report of
a projection is a function of the draft and needs no state.

### SampleQueue and ActionStudy: what is measured

`SampleQueue` is the experiment driver: stages of a batch with their gates,
samples, the three children of `parallel`, audits and archives, and a person
who changes the candidate or a delivery. The freeze hashes the candidate anew
after its gate, as the code does, and a child runs only its own stage. The
candidate is not read at one instant: a process loads its modules when it
starts (`Launch`, `loaded`), compares hashes at `CompareCandidate`, records them
in `NewRun` (`made`), reads the prompts before the first call (`Call`) and the
checker's worker at each verification (`ReadCandidate`), and compares again in
`Recheck`; `used` is all that was read on behalf of a sample. In the same way
an audit looks at the delivery (`Audit`), copies it (`CopyDelivery`) and
compares it again, and an archive is checked (`CheckArchive`) and read
(`Archive`) in two steps, with a person's edit possible between any two. `ActionStudy` is the
paired study in its order of calls, with its allocation over repeated studies.
A lost answer is asked for again within its call (`RetryCall`), the reservation
of the failed attempt stays spent; how often is left to the allocation (the code
tries three times), which allows more behaviours.

### MC modules

`MCRunStore` and `MCCampaignLedger` give constants their small values.
`MCDelivery` extends Delivery, RequirementReport and Feedback; `MCInputs`
PlanRevisions, SpecGates, Pricing, ClaimCompiler and SpecMerge; `MCTools`
Verification and CodingContext; `MCStudies` SampleQueue, ActionStudy and
StreamedCall. Each puts its modules (and, of Verification, SampleQueue and
PlanRevisions, a second instance with other constants) into one state space:
a variable `part`,
chosen initially, says whose behaviour it is, and the variables of all others
stay at their initial (or an at-rest) value. The components of one MC module share no variable
with each other in the code either, or share only what one of them abstracts to an outcome, so
interleaving them would add states and no behaviour; the composition is of
runs, not of steps. A property of an
extended module holds in all parts, since its variables rest in the others, and
is the very definition that the theorem is about.

### Modules of proofs

| Module | Theorems about |
| --- | --- |
| `RunStoreProofs`, `CampaignLedgerProofs`, `ControllerProofs`, `PlanRevisionsProofs` | the module each is named after |
| `DeliveryProofs` | Delivery, RequirementReport, Feedback |
| `VerificationProofs` | Verification, CodingContext |
| `InputsProofs` | SpecGates, Pricing, ClaimCompiler, SpecMerge |
| `StudiesProofs` | SampleQueue, ActionStudy, StreamedCall |

## 3. Runs

| Run | Distinct states | Shows |
| --- | --- | --- |
| `run_store_crash` | 435 000 | crashes everywhere, recovery included, and manual edits: `AcceptedIntact`, `EditsKept`, `BlockedByKnownCause`, and the refinement `AcceptanceIsAtomic` |
| `run_store_interrupt` | 1 063 000 | the same with interrupts: what survives a half-written dictionary is `AcceptedWasGated` and `CodeOnlyGrows` |
| `ledger_crash` | 154 000 | crashes: balance, the limits of a run and (with its phase) of the campaign, `BillCovered` |
| `ledger_faults` | 475 000 | crashes, interrupts and two controllers of run A at once: no interrupt hides a charge of run B, whose controller is alone, and no request evidence is written over |
| `controller` | 290 000 | crashes, interrupts, deadline, cost limit, reconfigurations: bounded work, earned success, nothing taken back; every controller ends |
| `delivery` | 4 484 000 | Delivery (`SuccessIsReal`, `ExportsKept`), RequirementReport (`VerdictsAgree`), Feedback (`EveryFailureShown`) |
| `inputs` | 2 358 000 | SpecGates (`GatesHold`, `RunsAreLossless`: one command at a time with three drafts; two at once, edits while they work and hand-written specifications. `GatesHold` says of any of these that what is approved has no open gap, the rest of commands that work alone), ClaimCompiler (`ClaimsAreKept`), SpecMerge (`MergedIsValid`), Pricing (`CallsArePriced`), PlanRevisions (`PlanIsOrdered` with crashes and interrupts, `PromiseHolds` with crashes) |
| `tools` | 1 195 000 | Verification (`ContainersAreOwned`, `PassIsUndisturbed`, `RecoveryCleans`, `JobsEnd`; with and without late creations) and CodingContext (`ContextIsCurrent`) |
| `studies` | 1 977 000 | SampleQueue (`SamplesCount`, `AttemptsAreKept`, `CampaignIsWhole`; serial batch, parallel batch), ActionStudy (`PromotionIsSound`), StreamedCall (`CallsAreSound`) |
| `run_store_interrupted_accept` | | `AcceptedIntact` fails under interrupts (finding 1) |
| `run_store_recovery_crash` | | `BlockedByManualChange` fails (finding 2) |
| `ledger_stale_open` | | `BillCovered` fails (finding 3) |

In RunStore `"offline_edit"` is a manual change between controllers,
`"idle_edit"` one between two actions of a live controller, `"recovery_crash"`
a crash inside `recover`; in the ledger `"stale_open"` is a controller opened
while another one still has the run open; in Delivery `"person"` is somebody
who changes the project or the delivery.

Deadlock is checked for RunStore, CampaignLedger and Controller: a finished run
can report again, any other can resume. The MC modules of parts switch it off:
an experiment batch, a study, a compiled specification, a call and a report
attempt end, and stop at their bounds.

Bounds.

- RunStore. Two tasks are the first and the last of a plan: one that is built
  upon and one that can be reopened by a repair. Three tool edits let a task be
  accepted, a second session write, and a repair or an unfinished attempt write
  once more; two manual edits allow one before and one after a recovery. Edits
  are interchangeable, so their permutations are a symmetry. The number of
  sessions, crashes and resumptions is not bounded.
- Ledger. Two runs compete for a campaign limit, two processes for a run;
  in `ledger_crash` `MaxCalls` lets a retry and a second call happen, charges lie below and above
  the reservations. In `ledger_crash` the limits are 2 for the capped phase, 3
  for a run and 4 for the campaign, so that each refuses some reservation.
  In `ledger_faults` one call number per copy is enough: a stale copy brings
  the counter back, so the run makes calls beyond it.
- Controller. One task before the last, one follow-up, two sessions of one
  decision, two repairs and one reconfiguration: a second session, a repair
  after a repair and a raised limit all happen. Two decisions per session with one repair
  (1.46 million states), and with one session, were checked too and add nothing.
- Delivery: two repairs, three trees. PlanRevisions: three tasks, three
  follow-ups, five revisions. RequirementReport: two variants, two checks that
  share a requirement, two attempts (stale evidence of the first). Feedback:
  one check per variant, four results: the one that finishes the task, a failed
  export, a failure in its repair session, and what the next one is given.
- Verification: two variants, four jobs (three with late creations), so that a
  recovery meets journals of several jobs. CodingContext: two files, five
  actions, a context that holds three of them.
- SpecGates: three drafts while one command works at a time (`alone`), two
  drafts with two commands at once, which is what it takes to swap a draft
  between the two reads of a command. ClaimCompiler: three claims, because a
  third one may hide a conflict; four claims were checked once besides and
  found a case that three do not reach (section 4). SpecMerge: two
  specifications of up to two entries, with one or both of two roles and one
  text (two texts only matter to `NothingSilentlyLost`). Pricing: up to two
  tiers, two rates, two models.
- SampleQueue: two candidates and two changes let one be changed and put back
  between two comparisons, two edits do the same to a delivery, and one archive
  can be written meanwhile; two rows per study stage, or one public row with all
  three children, and then no changes and no archive. ActionStudy: a sample of
  each model, a session of each mode, two studies within an allocation that the
  second can exhaust. StreamedCall: four events before the last one of a first
  answer, three of an answer to a retry.

Fairness. Controller and Verification assume weak fairness of `Step`, the
steps of the live process: every HTTP call, docker request and command has a
time limit of its own (client.py, sandbox.py, verification.py:182-196), so a
live controller does go on. Nobody is assumed to start or resume one, and no
fault is fair. `ControllersEnd` and `JobsEnd` need it; everything else is
safety.

### Findings

1. `nepa/run_store.py:349`: `accept` sets the task's status and checkpoint
   before `accepted_checkpoint` (351). An exception in between is saved by the
   handler: the task is passed, its code is not restored. The design document
   says tasks and checkpoints are accepted atomically (`system_design.md:221`).
2. `nepa/run_store.py:412`: a crash inside `recover` after the project was
   moved away blocks every later resume: with no directory and an action still
   pending, `os.replace` fails; with a recreated one and no pending action, it
   counts as a manual change.
3. `nepa/cli.py:132`: `resume` reads `run.json` before the run's lock is taken.
   If another controller finishes in between, its reservations and settlements
   are overwritten by the stale copy.

### Known divergences

The modules also state properties that a document or a comment promises and
the code does not keep. They are not in the runs above; each was violated by
TLC with the constants given, everything else as in the MC modules. Documents
are `project_docs/system_design.md` unless said otherwise.

| Module: property | Constants | What the code does, and what is said |
| --- | --- | --- |
| RunStore: `BlockedByKnownCause` | `Faults = {"interrupt"}` | run_store.py:341: the action is cleared before the tree is rehashed; an interrupt in between makes every resume refuse the tool's own work. :222 promises a fresh working copy |
| CampaignLedger: `CampaignCapped` | `Faults = {"interrupt"}` | run_store.py:300: an interrupted reservation is published by the handler outside the campaign lock. nepa-p0-p2-plan.md:149: one atomic campaign lock |
| Controller: `DeadlineIsNotFailure` | NBase 1, Followups 0, one session, decision, repair, `{"deadline"}` | verification.py:214, 258: the deadline raised in a verification becomes a failed check or a clean-up failure, and the run may end with exit code 2. :258-259: 3 is budget exhausted |
| Controller: `RepairsAllowed` | the same with FinalRepairs 2, `{"crash"}` | orchestrator.py:78: a crash in a repair session leaves the last task to the task loop, whose sessions are spent. :230: up to three repair sessions |
| PlanRevisions: `PlannedTasksEntered`, `FollowupsLimited` | NBase 2, Limit 2, MaxRevisions 5, `{"interrupt"}` | run_store.py:447-449: reference, entry and count are saved apart: KeyError on every resume, or one follow-up too many. :207 one atomic run.json, :228-229 at most three |
| PlanRevisions: `FollowupsPossible` | the same, `{"crash"}` | run_store.py:445: after a crash the file of the next revision exists and blocks every later follow-up. :228-229 |
| Delivery: `ExportIsAccepted` | Repairs 1, MaxTrees 2, `{"person"}` | orchestrator.py:29: the export copies the project as it stands. nepa-p0-p2-plan.md:109: only the accepted project is exported |
| Verification: `InterruptCleans` | one variant, one job, `{"interrupt"}` | verification.py:239, 247: SIGINT leaves the clean-up half done. :160-161: containers are removed at an interrupt and at a resume |
| Verification: `NoneEscapes` | one variant, one job, `{"docker", "late"}` | verification.py:167, sandbox.py:81: "No such container" counts as removed, a creation that completes later is nobody's |
| Feedback: `RepairIsTried` | two rows, three results | session.py:60: when an export's build fails with more than 20000 characters, the null verification is unpacked: TypeError, internal_error, no repair. :228-230 |
| Feedback: `LatestIsGiven` | two rows, four results | orchestrator.py:86-95, session.py:87, 103-110: after a repair session without success the old result of the export is published again and preferred to its last feedback. :133 a retry carries the real diagnostic |
| RequirementReport: `EvidenceIsCurrent` | as in MCDelivery | orchestrator.py:41-43: an attempt that raises leaves `final_checks` of an earlier one, and the report joins it. :246-251 |
| StreamedCall: `ObservedTextIsKept` | MaxEvents 4 | client.py:262: an answer that was received is not kept when the deadline fires before it is settled. openai_compat.py:143 |
| Pricing: `ReservationCovers` | `Dear = TRUE` | telemetry.py:45, config.py:69: a table may price cache hits above misses. telemetry.py:41 "Conservative" |
| ClaimCompiler: `GapsAreTheirOwn` | as in MCInputs | compile.py:233: gaps are removed by an id that two answers may share, since an id is unique within one request at best (llm.py:12). compile.py:1 |
| ClaimCompiler: `MergedIsRecorded` | as in MCInputs | compile.py:102: a merge into a richer claim is recorded for the wrong candidate. compile.py:98 |
| SpecGates: `ApprovedWasReviewed` | as in MCInputs (not `alone`) | cli.py:45: the draft is read for its content and again for its hash. :282 |
| SpecGates: `ReportedStays` | two commands (not `alone`) | cli.py:24: the test and the write are apart. :284 immutable snapshots |
| SpecGates: `RunsWereApproved` | one command (not `alone`) | cli.py:122: run does not ask for the projection of an approved draft. :284-285 |
| SpecGates: `RejectedBlocks`, `RelationsBlock` | one command | cli.py:48: gaps of rejected claims are not counted; projection.py:34: relations are dropped without a loss. cli.py:50, :280-281 |
| SpecMerge: `NothingSilentlyLost` | two specifications of up to one entry, two texts | merge.py:19: a later entry of an id is dropped. merge.py:1 "nothing is silently lost" |
| SpecMerge: `RolesAreMerged` | two specifications of up to one entry | merge.py:9: the roles are those of the first specification, messages of later ones may name others, which the lint refuses (lint.py:80). merge.py:1 |
| SampleQueue: `SamplesUseCandidate` | two versions, one row, two changes, no edits; by hand the study stages, freeze, mqtt-first | driver.py:551-562: the candidate is compared before and after, and read in between. driver.py:562 "candidate changed during run: sample does not count" |
| SampleQueue: `ArchivesAreDeliveries` | one version, one row, two edits, one archive; the same by hand | driver.py:631, 645-648: the hashes of the delivery are compared before its files are read. driver.py:626 "only independently verified successful public deliveries may be archived" |
| SampleQueue: `NoRepeatAfterFailure` | one version, no changes, one row; by hand the study stages, freeze, mqtt-first, parallel | driver.py:569: the gate of parallel does not look at a failed first sample. experiments/p0-p2/README.md:74-75 |

`VerdictsAgree` has one exception, `Unnoticed`: an error that the verifier
catches after it has read the rows fails the candidate and is not in the rows
that the report joins, so that every requirement may read as passed in the report of a
run that failed. `AttemptsAreClosed` excepts the stop of `ObservedTextIsKept`,
and lets the last call stay open after a stop that none of complete()'s handlers
sees: it then leads to no action, no earlier call is open, and none after it is
made. That no call is ever left open, `NoCallLeftOpen`, is violated so
(MaxEvents 4; client.py:229-232, 267-273), but no document says it: unknown
calls keep their reservation (nepa-p0-p2-plan.md:24). `SamplesShareCandidate`
excepts what was read between a change and its undoing (`SamplesUseCandidate`),
`ClaimsAreKept` a gap that was closed through another claim's id (`ClosedById`),
`MergedIsValid` roles that the first specification has not.

## 4. Proofs

Each theorem is about the specification of its component with the constants
left open: any number of tasks, runs, processes, jobs, variants, claims, rows
and events, any limit, any set of edits, reservations, charges and prices. It uses the named assumptions on
the constants, which TLC evaluates in the runs. "All faults" means every subset
of the module's faults; a theorem that excludes one says so in its statement,
and the finding or divergence that is named there shows why. Each inductive
invariant was first checked by TLC.

`RunStoreProofs`:

| Theorem | Faults | Argument |
| --- | --- | --- |
| `Typing` (`TypeOK`), `KeepsEdits` (`EditsKept`) | all | `Present`: the directory is missing only inside a recovery or after one was cut short, and then `run.json` still asks for that recovery, so no tool runs without it. The one step that takes edits away archives them |
| `KeepsGated` (`AcceptedWasGated`) | all | `Gating`: between the gate and the save the tree is a gated one, and every commit that can become a checkpoint was made of such a tree |
| `Grows` (`CodeOnlyGrows`) | all | the tree of a session contains the accepted code wherever a commit can be taken from it, so what is published contains what it replaces, half-written or not |
| `KeepsAcceptance` (`AcceptedIntact`) | no interrupt (finding 1) | `Accepting`: where `mem` and `disk` agree; between the git commit and `MoveCheckpoint` the commit is the working copy. `AcceptedIntact` alone does not know what is in the tree that the next commit takes |
| `BlocksForCause` (`BlockedByKnownCause`) | no interrupt (divergence) | the hashes in `run.json` are those of the tree, or an action is pending, or a known cause is recorded, at every place a crash can fall |
| `AcceptsAtomically` (`AcceptanceIsAtomic`) | no interrupt (finding 1) | the refinement of `AcceptedProgress`: `SaveAccept` is a step of it, a reopened final task another, the rest stutters, since `disk` changes nowhere else in what the mapping reads |

`CampaignLedgerProofs`:

| Theorem | Faults | Argument |
| --- | --- | --- |
| `Typing` (`TypeOK`) | all | `Funded`: what a settlement will take out of a copy is in it, whatever other controllers have published |
| `CoversInterrupted` (`InterruptedBillCovered`) | all | `Owned`: for a run whose controllers never overlapped, every charge in flight is part of the recorded cost, in the copy and in the file, wherever the handler saves |
| `Covers` (`BillCovered`) | no stale open (finding 3) | the same, for all runs. The property alone is not inductive: only the invariant knows, when the charge falls, that it was reserved |
| `Balances` (`AccountsBalance`), `Caps` (`RunCapped`) | no interrupt | `Balanced`: how far a copy is from a balanced one within its limit (`Tight`) at every place of its controller. `LocalStep`: a step that touches only its own run and process preserves the invariant if its new values satisfy it |
| `CapsCampaign` (`CampaignCapped`) | crashes only (divergence) | the campaign lock: between `EnterCampaign` and the publication of the reservation no file of another run gains cost. The total is the cardinality of a set of units, one for each unit of each ledger, so that a sum over any number of runs needs the theorems on finite sets and no induction |
| `KeepsRequests` (`RequestsFresh`) | all | a controller between the choice of a call number and its evidence holds the campaign lock, and the number has no evidence yet; so nobody else writes it meanwhile, however stale the counters are |

`ControllerProofs`, all faults: `Typing`; `BoundsWork` (`WorkIsBounded`): the
sessions left in the loop and those counted add up to the budget, and the same
of decisions and repairs, so a resumption cannot gain any; `EarnsSuccess`
(`SuccessIsEarned`): a delivery is only reached with every task passed;
`ForgetsNothing` (`NothingForgotten`): what a step may never take back.

`DeliveryProofs`, all faults: `Delivers` (`SuccessIsReal`) follows the tree
from the candidate that was checked to the directory that is published, with
what a person may change at each place; `KeepsExports` (`ExportsKept`): no
controller destroys a tree that was exported, a recorded delivery stays, and a
success is reported only while the delivery is as recorded.

`PlanRevisionsProofs`: `Orders` (`PlanIsOrdered`, all faults) needs that the
tasks of a plan rise in number up to final-integration, that the next follow-up
is not below any of those before it, and that final-integration has not passed
while a follow-up is requested; so a revision inserts behind all that has passed. An uncounted
follow-up (divergence) enters twice, and the invariant allows that. `Limits`
(`PlannedTasksEntered` and `FollowupsLimited`) and `KeepsPromise`
(`FollowupsAreAtomic`, the refinement of `FollowupPlan`) exclude interrupts and
say at every place of `append_followup` how the dictionary differs from
run.json. The run checks the refinement as `PromiseHolds`.

`VerificationProofs`, all faults: `Owns` (`ContainersAreOwned`): the journal of
the job at work is the last one, open, and of the right kind, and while no
removal has failed, what was removed is gone, so that the journal is marked
clean only when nothing it names is left; `Recovers` (`RecoveryCleans`) follows,
for a resume goes on only without an open journal; `PassesUndisturbed`
(`PassIsUndisturbed`): at each place of `run`, what is recorded of the variant
lets it pass only if nothing went wrong so far.

The second module of each of these two files:

| Theorem | Argument |
| --- | --- |
| `ReportsTheVerdict` (`VerdictsAgree`) | `ReportInv`: what is delivered has passed. That the join of the report and the verdict agree is a lemma about the operators alone, for every set of checks, requirements and variants: the row of a check is the worst of its variants in both |
| `ShowsFailures` (`EveryFailureShown`) | `FeedbackInv`: the diagnostic in hand, and the one that run.json would restore, are views of a published result, and both show the failure that is known at that place, before and after the save; `Shows` is kept by every shortening |
| `ShowsTheCurrent` (`ContextIsCurrent`) | `ContextInv`: what is in the context (`Complete`) and what the last request was built from (`Sent`) cover the current observations, the file's content being the one in the tree. Eviction takes the largest set that fits; that there is one is the least-number principle |

`InputsProofs`:

| Theorem | Hypothesis | Argument |
| --- | --- | --- |
| `GatesAreSafe` (`GatesHold`) | none. What is approved is closed with any commands and edits at once; the rest of `GatesHold` is about one command at a time (divergences) | `LosslessInv`: a command that has counted the gaps holds the number of a closed draft, and drafts never change. `GatesInv`: while one command works, what it has in hand agrees with the draft and the artifacts at each of its steps (`Reviewing`, `Approving`, `Projecting`, `Writing`); the approved artifact has the hash of the draft its review was of |
| `NothingIsLostInProjection` (`RunsAreLossless`) | none | `LosslessInv`: the projection that is in hand, on disk or in use is of a lossless draft. Drafts never change, so it survives overlapping commands, edits and torn files |
| `AnswersAreCovered` (`CallsArePriced`) | `~Dear` (divergence) | `PriceInv`: what was reserved is `calculate_cost` of the prepared bounds. That it covers every usage below them is arithmetic: the cost at the limits of the tiers below the bound (`Candidates`) is at least the cost of any usage in the same tier, a product of two bounds at a time (`Products`); the largest of them exists by the least-number principle |
| `NoClaimIsLost` (`ClaimsAreKept`) | none; the property excepts `ClosedById` (divergence) | `ClaimInv`: of each claim taken it is known where its facts are (`Taken`), of each node which claim defines it (`Defines`), of each part of the draft its evidence, pass after pass (`Placed`) |
| `MergeStaysValid` (`MergedIsValid`) | none; of the roles if the first specification has them all (divergence) | the property is inductive as it stands: a type of either side refers to an id that its own side has, and no id gets lost. `PositionsInOrder`, that the kept positions of a sequence can be listed in their order, takes the smallest set of positions that could not, and removes its last one |

`~Dear` says that no table asks more for a cache hit than for a miss, as every
provider's list does. The code does not check it, and without it the property
fails.

`StudiesProofs`, all faults, and any changes by a person:

| Theorem | Argument |
| --- | --- |
| `SamplesStand` (`SamplesCount`), `WholeCampaign` (`CampaignIsWhole`), `AttemptsStay` (`AttemptsAreKept`) | one invariant, `QueueInv`: what the process of a batch holds, and what its record says at each of its places (`AllLocal`); how the record of the batch and those of its children hang together (`Family`); what is archived (`Archives`); what was read of the candidate for a sample, while it changed at most once (`Sight`: the candidate the batch was admitted with, or the one it was changed to). A step of one batch disturbs only its own local part, and the parts of others only through the family |
| `PromotesSoundly` (`PromotionIsSound`) | `StudyInv`: the answers come in their turn (`InTurn`), so the answers of one mode are in bijection with the samples asked, which gives the cardinalities of a whole study for any number of samples; the modes' lead over each other follows from the number of answers (`Balance`); a promotion is that of whole rows and sessions (`Judged`). A retry adds to what is spent and to nothing else |
| `CallsEndSoundly` (`CallsAreSound`) | `CallInv`: `Understood` relates what was parsed to all that was sent: which events there were, whether the answer is ended, refused or still open, and that what was joined is the parts that came, in their order. It is kept by each event, so that it holds of streams of any length. Every attempt but the last is closed at each place of `complete`, the last one by its place |

A proof attempt that failed was a finding about the model. `ConflictsStayOpen`
used to say of two claims that contradict each other that one of them is open
unless the compiled claim says what both say. It is not inductive, and TLC
showed why with four claims: a third claim that says all that the first one
says may be in the conflict, and open, instead of it: the conflict is in the gap
ledger, under another claim. The property now says so.

`PricesAssumption` (ActionStudy) lets a call cost at most its reservation: that
it does is `AnswersAreCovered`, and what happens when it does not is the
ledger's subject.

Only model-checked:

- Liveness (`ControllersEnd`, `JobsEnd`): it rests on fairness and ENABLED,
  which TLAPS does not reason about.
- The violations of the findings and divergences: they are behaviours, which
  TLC shows.
- `PromiseHolds` of `MCInputs` is the run's form of `FollowupsAreAtomic`, which is
  proved for PlanRevisions by itself.

Induction over data is avoided: where the smallest or largest of a set is
needed, or an order of its elements, the proofs use that the natural numbers
are well-founded, and sums are cardinalities.

## 5. Not modelled, and the plan

- Path confinement (`workspace.py`, `safe_relative`), redaction and the public
  projection of reports: properties of host paths and of text.
- HTTP, Docker and make themselves: they are the environment, with the failures
  and time limits that the code handles.
- Schema lint (`lint.py`): pure validation of documents. What it guarantees is
  the precondition of SpecMerge and SpecGates.
- Segmentation and discovery of documents, prompts, and what an answer of the
  model must quote: text processing without state.
- The tar members of an archive, the evidence of a study session and the probe
  payloads of the driver. Child batches of `parallel` that a person starts again
  by hand, outside the driver's own spawning.
- The gold oracles and baselines: clients that test generated programs.
- Manual changes *during* an action, though nothing in the code prevents them:
  they are taken for the tool's work, and the tree that is committed is the one
  at the time of `git add`.

No module uses RECURSIVE operators. Every invariant and every action property
of the passing runs has its theorem; the two liveness properties stay with TLC.
What would come next is breadth: the tar members of an archive, and the clients
of the gold oracles.
