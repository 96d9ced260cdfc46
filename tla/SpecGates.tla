----------------------------- MODULE SpecGates -----------------------------
(***************************************************************************)
(* From a draft specification to the run that uses it: spec-extract,       *)
(* spec-review, spec-approve, spec-project and run (cli.py), with the      *)
(* artifacts they leave on disk.  A command reads its input, an approval   *)
(* and a review read the draft a second time for its hash, and the         *)
(* artifact is written by _write_immutable, which looks twice whether it   *)
(* exists; a crash while it writes leaves a torn file.                     *)
(***************************************************************************)
EXTENDS Naturals, Sequences

CONSTANTS Commands,      \* processes that run a command each at a time
          MaxVersions,   \* drafts (a bound; one less when not alone)
          Flaws,         \* what may be wrong with a draft
          Absent, Torn   \* files that cannot be read

AllFlaws == {"open", "lossy", "rejected", "related"}

Artifacts == {"review", "approved", "projected"}
Versions == 1..MaxVersions

\* An artifact is of a version of the draft; reviews and approvals have the
\* hash of one too, and a hand-written specification is of no draft.
Contents == [version : Versions \cup {0}, hash : Versions \cup {0}]
NoContent == [version |-> 0, hash |-> 0]

ASSUME GatesAssumption ==
    /\ MaxVersions \in Nat /\ Flaws \subseteq AllFlaws
    /\ Absent # Torn /\ {Absent, Torn} \cap Contents = {}

VARIABLES alone,      \* one command runs at a time, and nothing is edited meanwhile
          drafts,     \* what is wrong with each version of the draft, the last one is on disk
          artifacts,  \* the artifacts on disk
          running,    \* what each process does
          reported,   \* artifacts that a command has reported as written
          inputs      \* versions that runs were started with

gateVars == <<alone, drafts, artifacts, running, reported, inputs>>

-----------------------------------------------------------------------------
\* A draft has open gaps, or requirements that version 3 cannot express, or
\* claims of the model were rejected when it was extracted, or relations or
\* conflicts were written into it; the last two are left out when not alone (a
\* bound), nothing that is stated there is about them.
Drafts == {d \in SUBSET Flaws : alone \/ d \subseteq {"open", "lossy"}}

Idle == [command |-> "none", step |-> "none", content |-> NoContent, exists |-> FALSE]

Processes == [command : Artifacts \cup {"none"}, step : {"none", "hash", "check", "test", "write"},
              content : Contents, exists : BOOLEAN]

GateTypeOK ==
    /\ alone \in BOOLEAN /\ drafts \in Seq(SUBSET Flaws) /\ Len(drafts) <= MaxVersions
    /\ artifacts \in [Artifacts -> Contents \cup {Absent, Torn}]
    /\ running \in [Commands -> Processes]
    /\ reported \subseteq Artifacts \X Contents /\ inputs \subseteq Versions \cup {0}

GateInit ==
    /\ alone \in BOOLEAN /\ drafts = <<>> /\ artifacts = [f \in Artifacts |-> Absent]
    /\ running = [p \in Commands |-> Idle] /\ reported = {} /\ inputs = {}

-----------------------------------------------------------------------------
Legible(f) == artifacts[f] \notin {Absent, Torn}

AllIdle == \A p \in Commands : running[p] = Idle

NewDraft(d) ==
    /\ Len(drafts) < IF alone THEN MaxVersions ELSE MaxVersions - 1
    /\ alone => AllIdle
    /\ drafts' = Append(drafts, d)
    /\ UNCHANGED <<alone, artifacts, running, reported, inputs>>

\* spec-extract replaces the draft; rejected claims are in the gap file only,
\* and the compiler knows no relations.
Extract == \E d \in Drafts : "related" \notin d /\ NewDraft(d)

\* A person resolves gaps, rewrites requirements or adds relations.
EditDraft ==
    /\ drafts # <<>>
    /\ \E d \in Drafts : ("rejected" \in d <=> "rejected" \in drafts[Len(drafts)]) /\ NewDraft(d)

\* A specification of version 3 may be written by hand.
WriteByHand ==
    /\ ~alone
    /\ artifacts' = [artifacts EXCEPT !["projected"] = NoContent]
    /\ UNCHANGED <<alone, drafts, running, reported, inputs>>

-----------------------------------------------------------------------------
(* The commands.                                                           *)

Start(p, command, step, content) ==
    /\ running[p] = Idle /\ (alone => AllIdle)
    /\ running' = [running EXCEPT ![p] = [command |-> command, step |-> step, content |-> content,
                                          exists |-> FALSE]]
    /\ UNCHANGED <<alone, drafts, artifacts, reported, inputs>>

StartReview(p) ==
    /\ drafts # <<>>
    /\ Start(p, "review", "hash", [version |-> Len(drafts), hash |-> 0])

StartApprove(p) ==
    /\ drafts # <<>> /\ Legible("review")
    /\ Start(p, "approved", "hash", [version |-> Len(drafts), hash |-> artifacts["review"].hash])

\* Mutant of Projectable: open gaps only.
ProjectableOpen(v) == "open" \notin drafts[v]

\* project_to_v3 refuses open gaps and what version 3 cannot express.
Projectable(v) == drafts[v] \cap {"open", "lossy"} = {}

StartProject(p) ==
    /\ Legible("approved") /\ Projectable(artifacts["approved"].version)
    /\ Start(p, "projected", "check", artifacts["approved"])

Step(p, process) ==
    /\ running' = [running EXCEPT ![p] = process]
    /\ UNCHANGED <<alone, drafts, artifacts, reported, inputs>>

\* Mutant of Hash: the hash of the review is not compared.
HashUnread(p) ==
    LET r == running[p] IN
    /\ r.step = "hash"
    /\ Step(p, [r EXCEPT !.step = "check", !.content.hash = IF r.command = "review" THEN Len(drafts) ELSE @])

\* The draft is read again: its hash is recorded, or compared with the review.
Hash(p) ==
    LET r == running[p] IN
    /\ r.step = "hash"
    /\ Step(p, IF r.command = "review" THEN [r EXCEPT !.step = "check", !.content.hash = Len(drafts)]
               ELSE IF r.content.hash = Len(drafts) /\ "open" \notin drafts[r.content.version]
               THEN [r EXCEPT !.step = "check"] ELSE Idle)

\* _write_immutable refuses to change an artifact, a torn one included.
Check(p) ==
    LET r == running[p] IN
    /\ r.step = "check"
    /\ Step(p, IF artifacts[r.command] \in {Absent, r.content} THEN [r EXCEPT !.step = "test"] ELSE Idle)

Test(p) ==
    LET r == running[p] IN
    /\ r.step = "test"
    /\ Step(p, [r EXCEPT !.step = "write", !.exists = artifacts[r.command] # Absent])

Write(p) ==
    LET r == running[p] IN
    /\ r.step = "write"
    /\ artifacts' = IF r.exists THEN artifacts ELSE [artifacts EXCEPT ![r.command] = r.content]
    /\ reported' = reported \cup {<<r.command, r.content>>}
    /\ running' = [running EXCEPT ![p] = Idle]
    /\ UNCHANGED <<alone, drafts, inputs>>

\* The process dies, or is interrupted, and leaves what it has written.
Die(p) ==
    LET r == running[p] IN
    /\ r # Idle
    /\ \/ UNCHANGED artifacts
       \/ r.step = "write" /\ ~r.exists /\ artifacts' = [artifacts EXCEPT ![r.command] = Torn]
    /\ running' = [running EXCEPT ![p] = Idle]
    /\ UNCHANGED <<alone, drafts, reported, inputs>>

\* run takes any specification of version 3 that its lint accepts.
StartRun(p) ==
    /\ running[p] = Idle /\ Legible("projected")
    /\ inputs' = inputs \cup {artifacts["projected"].version}
    /\ UNCHANGED <<alone, drafts, artifacts, running, reported>>

GateNext ==
    \/ Extract \/ EditDraft \/ WriteByHand
    \/ \E p \in Commands :
        \/ StartReview(p) \/ StartApprove(p) \/ StartProject(p) \/ StartRun(p)
        \/ Hash(p) \/ Check(p) \/ Test(p) \/ Write(p) \/ Die(p)

GateSpec == GateInit /\ [][GateNext]_gateVars

-----------------------------------------------------------------------------
(* Properties.                                                             *)

\* What is approved is the draft that was reviewed, although the draft may be
\* replaced between its reviews, and it had no open gap.
ApprovedWasReviewed ==
    Legible("approved") =>
        LET v == artifacts["approved"].version IN
        /\ artifacts["approved"].hash = v /\ "open" \notin drafts[v]
        /\ artifacts["review"] = [version |-> v, hash |-> v]

\* "RunStore accepts only the approved projection": a run is of the draft that
\* was approved, whatever became of the draft and of interrupted commands.
RunsWereApproved == \A v \in inputs : Legible("approved") /\ artifacts["approved"].version = v

\* An artifact is immutable: what a command has reported stays, and a crash or
\* another command does not replace it.
ReportedStays == \A artifact \in reported : artifacts[artifact[1]] = artifact[2]

\* What is approved has no open gap, also when its hash is that of another draft
\* because the draft was replaced while the command ran, or a review beside it.
ApprovedIsClosed == Legible("approved") => "open" \notin drafts[artifacts["approved"].version]

\* The gates, of which one holds whatever runs at the same time, and the others
\* while one command at a time works on the draft.
GatesHold ==
    GateTypeOK /\ ApprovedIsClosed /\ (alone => ApprovedWasReviewed /\ RunsWereApproved /\ ReportedStays)

\* What cannot be projected without loss blocks the projection: nothing was
\* open or lossy in a draft that a run was started with, whatever was edited
\* while the commands ran, and whatever was written by hand.
RunsAreLossless == \A v \in inputs \ {0} : drafts[v] \cap {"open", "lossy"} = {}

\* "Cannot approve with open gaps": claims that were rejected, the open gaps
\* of the gap file, are not approved away.
RejectedBlocks == Legible("approved") => "rejected" \notin drafts[artifacts["approved"].version]

\* "Relations and conflicts that cannot be projected must block projection and
\* cannot be dropped silently".
RelationsBlock ==
    Legible("projected") /\ artifacts["projected"].version # 0
        => "related" \notin drafts[artifacts["projected"].version]
=============================================================================
