---------------------------- MODULE InputsProofs -----------------------------
(***************************************************************************)
(* Theorems about what a run is started with: the gates between a draft    *)
(* and its run (SpecGates), for any number of commands and drafts, the     *)
(* price of a call (Pricing), for all rates, limits and bounds, the        *)
(* compiler of claims (ClaimCompiler), for any number of claims and facts, *)
(* and the merge (SpecMerge), for any specifications.                      *)
(***************************************************************************)
EXTENDS SpecGates, Pricing, ClaimCompiler, SpecMerge, SequenceTheorems, FiniteSetTheorems,
        WellFoundedInduction, TLAPS

-----------------------------------------------------------------------------
(* The gates.                                                              *)

IsVersion(v) == v \in 1..Len(drafts)

\* A process that is at a step knows what it writes.
Busy(r) == r.step # "none" => r.command \in Artifacts

\* What a process has in hand while it is the only one.
Reviewing(r) ==
    r.command = "review" =>
        /\ r.content.version = Len(drafts) /\ drafts # <<>>
        /\ r.step # "hash" => r.content.hash = Len(drafts)

Approving(r) ==
    r.command = "approved" =>
        /\ r.content.version = Len(drafts) /\ drafts # <<>>
        /\ Legible("review") /\ r.content.hash = artifacts["review"].hash
        /\ r.step # "hash" => r.content.hash = Len(drafts) /\ "open" \notin drafts[Len(drafts)]

Projecting(r) ==
    r.command = "projected" =>
        r.step # "hash" /\ Legible("approved") /\ r.content = artifacts["approved"]

\* The artifact is not changed between the two looks at it and the write.
Writing(r) ==
    /\ r.step \in {"test", "write"} => artifacts[r.command] \in {Absent, r.content}
    /\ r.step = "write" => (r.exists <=> artifacts[r.command] # Absent)

OneAtWork == \A p, q \in Commands : running[p] # Idle /\ running[q] # Idle => p = q

ReviewIsWhole ==
    Legible("review") => LET v == artifacts["review"].version IN IsVersion(v) /\ artifacts["review"].hash = v

ProjectedWasApproved ==
    Legible("projected") => Legible("approved") /\ artifacts["projected"] = artifacts["approved"]

AloneInv ==
    /\ OneAtWork
    /\ \A p \in Commands : /\ Reviewing(running[p]) /\ Approving(running[p])
                           /\ Projecting(running[p]) /\ Writing(running[p])
    /\ ReviewIsWhole /\ ProjectedWasApproved
    /\ ApprovedWasReviewed /\ (Legible("approved") => IsVersion(artifacts["approved"].version))
    /\ RunsWereApproved /\ ReportedStays

GatesInv == GateTypeOK /\ (\A p \in Commands : Busy(running[p])) /\ (alone => AloneInv)

\* Whatever is edited meanwhile: what is projected, or will be, is lossless.
Lossless(v) == IsVersion(v) /\ Projectable(v)

\* What is approved, or will be, is closed.
Closed(v) == IsVersion(v) /\ "open" \notin drafts[v]

Counted(r) == r.command = "approved" /\ r.step # "hash"

LosslessInv ==
    /\ \A p \in Commands :
        /\ running[p].command \in {"review", "approved"} => IsVersion(running[p].content.version)
        /\ Counted(running[p]) => Closed(running[p].content.version)
        /\ running[p].command = "projected" => Lossless(running[p].content.version)
    /\ Legible("approved") => Closed(artifacts["approved"].version)
    /\ Legible("projected") =>
            artifacts["projected"].version = 0 \/ Lossless(artifacts["projected"].version)
    /\ \A v \in inputs \ {0} : Lossless(v)

-----------------------------------------------------------------------------
LEMMA GateTypes ==
    ASSUME GateTypeOK, NEW p \in Commands
    PROVE  /\ running[p] \in Processes /\ Len(drafts) \in Nat /\ Len(drafts) \in Versions \cup {0}
           /\ drafts # <<>> => Len(drafts) \in 1..Len(drafts)
           /\ \A f \in Artifacts : Legible(f) => artifacts[f] \in Contents
           /\ Idle \in Processes /\ NoContent \in Contents
<1>1. Len(drafts) \in Nat /\ (drafts # <<>> => Len(drafts) # 0)
    BY LenProperties, EmptySeq DEF GateTypeOK
<1>2. Idle \in Processes /\ NoContent \in Contents
    BY GatesAssumption DEF Idle, Processes, NoContent, Contents, Versions
<1> QED
    BY <1>1, <1>2, GatesAssumption DEF GateTypeOK, Legible, Versions

\* A new draft changes no version that there was.
LEMMA DraftIsAdded ==
    ASSUME GateTypeOK, NEW d \in Drafts, NewDraft(d)
    PROVE  /\ drafts' \in Seq(SUBSET Flaws) /\ Len(drafts') = Len(drafts) + 1
           /\ Len(drafts') <= MaxVersions
           /\ \A v : IsVersion(v) => IsVersion(v)' /\ drafts'[v] = drafts[v]
<1>1. d \in SUBSET Flaws /\ drafts \in Seq(SUBSET Flaws) /\ Len(drafts) \in Nat
    BY LenProperties DEF GateTypeOK, Drafts
<1>2. /\ drafts' \in Seq(SUBSET Flaws) /\ Len(drafts') = Len(drafts) + 1
      /\ \A i \in 1..Len(drafts) : drafts'[i] = drafts[i]
    BY <1>1, AppendProperties DEF NewDraft
<1>3. Len(drafts) + 1 <= MaxVersions
    BY <1>1, GatesAssumption DEF NewDraft, GateTypeOK
<1> QED
    BY <1>1, <1>2, <1>3 DEF IsVersion

LEMMA GateTypeInit == GateInit => GateTypeOK
<1> SUFFICES ASSUME GateInit PROVE GateTypeOK
    OBVIOUS
<1>1. drafts \in Seq(SUBSET Flaws) /\ Len(drafts) = 0
    BY EmptySeq DEF GateInit
<1>2. Idle \in Processes
    BY GatesAssumption DEF Idle, Processes, NoContent, Contents, Versions
<1> QED
    BY <1>1, <1>2, GatesAssumption DEF GateInit, GateTypeOK

\* A step of a process writes what it has in hand, or tears it.
LEMMA GateTypeStep == GatesInv /\ [GateNext]_gateVars => GateTypeOK' /\ \A p \in Commands : Busy(running'[p])
<1> SUFFICES ASSUME GatesInv, [GateNext]_gateVars
             PROVE  GateTypeOK' /\ \A p \in Commands : Busy(running'[p])
    OBVIOUS
<1> USE DEF GatesInv
<1>u. CASE UNCHANGED gateVars
    BY <1>u DEF gateVars, GateTypeOK
<1>1. CASE Extract \/ EditDraft
  <2> PICK d \in Drafts : NewDraft(d)
      BY <1>1 DEF Extract, EditDraft
  <2> QED
      BY DraftIsAdded DEF NewDraft, GateTypeOK
<1>2. CASE WriteByHand
  <2>1. NoContent \in Contents
      BY GatesAssumption DEF NoContent, Contents, Versions
  <2> QED
      BY <1>2, <2>1 DEF WriteByHand, GateTypeOK, Artifacts
<1>3. ASSUME NEW p \in Commands, StartReview(p) \/ StartApprove(p) \/ StartProject(p)
      PROVE  GateTypeOK' /\ \A q \in Commands : Busy(running'[q])
  <2>1. PICK command \in Artifacts, step \in {"hash", "check"}, content \in Contents :
            Start(p, command, step, content)
    <3>1. CASE StartReview(p)
        BY <3>1, GateTypes DEF StartReview, Contents, Artifacts
    <3>2. CASE StartApprove(p)
        BY <3>2, GateTypes DEF StartApprove, Contents, Artifacts
    <3>3. CASE StartProject(p)
        BY <3>3, GateTypes DEF StartProject, Artifacts
    <3> QED
        BY <1>3, <3>1, <3>2, <3>3
  <2>2. [command |-> command, step |-> step, content |-> content, exists |-> FALSE] \in Processes
      BY DEF Processes
  <2> QED
      BY <2>1, <2>2 DEF Start, GateTypeOK, Busy
<1>4. ASSUME NEW p \in Commands, NEW r \in Processes, Busy(r), Step(p, r)
      PROVE  GateTypeOK' /\ \A q \in Commands : Busy(running'[q])
    BY <1>4 DEF Step, GateTypeOK
<1>5. ASSUME NEW p \in Commands, Hash(p) \/ Check(p) \/ Test(p)
      PROVE  \E r \in Processes : Busy(r) /\ Step(p, r)
  <2>1. running[p] \in Processes /\ Busy(running[p]) /\ Idle \in Processes /\ Busy(Idle)
      BY GateTypes DEF Idle, Busy
  <2>2. Len(drafts) \in Versions \cup {0}
      BY GateTypes
  <2>3. CASE Hash(p)
      BY <2>1, <2>2, <2>3 DEF Hash, Processes, Contents, Busy
  <2>4. CASE Check(p)
      BY <2>1, <2>4 DEF Check, Processes, Busy
  <2>5. CASE Test(p)
      BY <2>1, <2>5 DEF Test, Processes, Busy
  <2> QED
      BY <1>5, <2>3, <2>4, <2>5
<1>6. ASSUME NEW p \in Commands, Write(p)
      PROVE  GateTypeOK' /\ \A q \in Commands : Busy(running'[q])
  <2>1. running[p] \in Processes /\ running[p].command \in Artifacts /\ running[p].content \in Contents
      BY <1>6, GateTypes DEF Write, Busy, Processes
  <2>2. Idle \in Processes /\ Busy(Idle)
      BY GateTypes DEF Idle, Busy
  <2> QED
      BY <1>6, <2>1, <2>2 DEF Write, GateTypeOK
<1>7. ASSUME NEW p \in Commands, Die(p)
      PROVE  GateTypeOK' /\ \A q \in Commands : Busy(running'[q])
  <2>1. Idle \in Processes /\ Busy(Idle)
      BY GateTypes DEF Idle, Busy
  <2> QED
      BY <1>7, <2>1 DEF Die, GateTypeOK
<1>8. ASSUME NEW p \in Commands, StartRun(p)
      PROVE  GateTypeOK' /\ \A q \in Commands : Busy(running'[q])
  <2>1. artifacts["projected"].version \in Versions \cup {0}
      BY <1>8, GateTypes DEF StartRun, Artifacts, Contents
  <2> QED
      BY <1>8, <2>1 DEF StartRun, GateTypeOK
<1> QED
    BY <1>u, <1>1, <1>2, <1>3, <1>4, <1>5, <1>6, <1>7, <1>8 DEF GateNext

LEMMA IdleIsFine ==
    /\ Busy(Idle) /\ Reviewing(Idle) /\ Approving(Idle) /\ Projecting(Idle) /\ Writing(Idle)
    /\ Reviewing(Idle)' /\ Approving(Idle)' /\ Projecting(Idle)' /\ Writing(Idle)'
  BY DEF Idle, Busy, Reviewing, Approving, Projecting, Writing

LEMMA GatesInit == GateInit => GatesInv /\ LosslessInv
<1> SUFFICES ASSUME GateInit PROVE GatesInv /\ LosslessInv
    OBVIOUS
<1>1. \A p \in Commands : running[p] = Idle
    BY DEF GateInit
<1>2. \A f \in Artifacts : artifacts[f] = Absent /\ ~Legible(f)
    BY DEF GateInit, Legible
<1>3. OneAtWork /\ \A p \in Commands : Busy(running[p])
    BY <1>1, IdleIsFine DEF OneAtWork
<1>4. \A p \in Commands : /\ Reviewing(running[p]) /\ Approving(running[p])
                          /\ Projecting(running[p]) /\ Writing(running[p])
    BY <1>1, IdleIsFine
<1>5. reported = {} /\ inputs = {}
    BY DEF GateInit
<1>6. AloneInv
    BY <1>2, <1>3, <1>4, <1>5
       DEF AloneInv, ReviewIsWhole, ProjectedWasApproved, ApprovedWasReviewed, RunsWereApproved,
           ReportedStays, Artifacts
<1>7. LosslessInv
    BY <1>1, <1>2, <1>5 DEF LosslessInv, Counted, Idle, Artifacts
<1> QED
    BY <1>3, <1>6, <1>7, GateTypeInit DEF GatesInv

\* Who is at work is alone, and what it leaves to the others is idle.
LEMMA OthersAreIdle ==
    ASSUME OneAtWork, NEW p \in Commands, running[p] # Idle
    PROVE  \A q \in Commands : q # p => running[q] = Idle
  BY DEF OneAtWork

\* What AloneInv says of the processes and of the files.
AtWork ==
    /\ OneAtWork
    /\ \A p \in Commands : /\ Reviewing(running[p]) /\ Approving(running[p])
                           /\ Projecting(running[p]) /\ Writing(running[p])

OnDisk ==
    /\ ReviewIsWhole /\ ProjectedWasApproved
    /\ ApprovedWasReviewed /\ (Legible("approved") => IsVersion(artifacts["approved"].version))
    /\ RunsWereApproved /\ ReportedStays

\* A step that changes one process only.
LEMMA AloneProcess ==
    ASSUME GatesInv, AloneInv, NEW p \in Commands, NEW r, Step(p, r),
           \A q \in Commands : q # p => running[q] = Idle,
           Reviewing(r), Approving(r), Projecting(r), Writing(r)
    PROVE  AloneInv'
<1>1. running' = [running EXCEPT ![p] = r] /\ running \in [Commands -> Processes]
    BY DEF Step, GatesInv, GateTypeOK
<1>2. \A q \in Commands : running'[q] = IF q = p THEN r ELSE Idle
    BY <1>1
<1>3. OneAtWork'
    BY <1>2 DEF OneAtWork
<1>5. \A q \in Commands : /\ Reviewing(running[q])' /\ Approving(running[q])'
                          /\ Projecting(running[q])' /\ Writing(running[q])'
    BY <1>2, IdleIsFine DEF Step, Reviewing, Approving, Projecting, Writing, Legible
<1>6. OnDisk'
    BY DEF AloneInv, OnDisk, Step, ReviewIsWhole, ProjectedWasApproved, ApprovedWasReviewed, IsVersion,
           RunsWereApproved, ReportedStays, Legible
<1> QED
    BY <1>3, <1>5, <1>6 DEF AloneInv, OnDisk

LEMMA AloneStep == GatesInv /\ alone /\ [GateNext]_gateVars => AloneInv'
<1> SUFFICES ASSUME GatesInv, alone, [GateNext]_gateVars PROVE AloneInv'
    OBVIOUS
<1> AloneInv /\ GateTypeOK
    BY DEF GatesInv
<1>t. running \in [Commands -> Processes] /\ artifacts \in [Artifacts -> Contents \cup {Absent, Torn}]
    BY DEF GateTypeOK
<1>u. CASE UNCHANGED gateVars
    BY <1>u DEF gateVars, AloneInv, OneAtWork, Reviewing, Approving, Projecting, Writing, ReviewIsWhole,
                ProjectedWasApproved, ApprovedWasReviewed, IsVersion, RunsWereApproved, ReportedStays, Legible
<1>1. CASE Extract \/ EditDraft
  <2> PICK d \in Drafts : NewDraft(d)
      BY <1>1 DEF Extract, EditDraft
  <2>1. \A v : IsVersion(v) => IsVersion(v)' /\ drafts'[v] = drafts[v]
      BY DraftIsAdded
  <2>2. /\ \A p \in Commands : running'[p] = Idle
        /\ UNCHANGED <<artifacts, reported, inputs>>
      BY DEF NewDraft, AllIdle
  <2>3. AtWork'
      BY <2>2, IdleIsFine DEF AtWork, OneAtWork
  <2>4. OnDisk'
      BY <2>1, <2>2 DEF AloneInv, OnDisk, ReviewIsWhole, ProjectedWasApproved, ApprovedWasReviewed,
                        RunsWereApproved, ReportedStays, Legible
  <2> QED
      BY <2>3, <2>4 DEF AloneInv, AtWork, OnDisk
<1>2. CASE WriteByHand
    BY <1>2 DEF WriteByHand
<1>3. ASSUME NEW p \in Commands, StartReview(p) \/ StartApprove(p) \/ StartProject(p)
      PROVE  AloneInv'
  <2>0. /\ Len(drafts) \in Versions \cup {0} /\ 0 \in Versions \cup {0}
        /\ \A f \in Artifacts : Legible(f) => artifacts[f] \in Contents
      BY GateTypes
  <2>1. PICK command \in Artifacts, step \in {"hash", "check"}, content \in Contents :
            Start(p, command, step, content) /\
            LET r == [command |-> command, step |-> step, content |-> content, exists |-> FALSE] IN
            Reviewing(r) /\ Approving(r) /\ Projecting(r) /\ Writing(r)
    <3>1. CASE StartReview(p)
        BY <3>1, <2>0 DEF StartReview, Artifacts, Contents, Reviewing, Approving, Projecting, Writing
    <3>2. CASE StartApprove(p)
        BY <3>2, <2>0 DEF StartApprove, Artifacts, Contents, Reviewing, Approving, Projecting, Writing
    <3>3. CASE StartProject(p)
        BY <3>3, <2>0 DEF StartProject, Artifacts, Reviewing, Approving, Projecting, Writing
    <3> QED
        BY <1>3, <3>1, <3>2, <3>3
  <2> DEFINE r == [command |-> command, step |-> step, content |-> content, exists |-> FALSE]
  <2>2. Step(p, r) /\ Reviewing(r) /\ Approving(r) /\ Projecting(r) /\ Writing(r)
      BY <2>1 DEF Start, Step
  <2>3. \A q \in Commands : q # p => running[q] = Idle
      BY <2>1 DEF Start, AllIdle
  <2> HIDE DEF r
  <2> QED
      BY <2>2, <2>3, AloneProcess
<1>4. ASSUME NEW p \in Commands, Hash(p) \/ Check(p) \/ Test(p)
      PROVE  AloneInv'
  <2>1. PICK r : Step(p, r) /\ Reviewing(r) /\ Approving(r) /\ Projecting(r) /\ Writing(r)
    <3> DEFINE o == running[p]
    <3>0. /\ Reviewing(o) /\ Approving(o) /\ Projecting(o) /\ Writing(o) /\ Busy(o) /\ o \in Processes
          /\ o.content \in Contents
        BY <1>t DEF AloneInv, GatesInv, Processes
    <3> HIDE DEF o
    <3>1. CASE Hash(p)
      <4>1. CASE o.command = "review"
        <5> DEFINE n == [o EXCEPT !.step = "check", !.content.hash = Len(drafts)]
        <5>1. /\ n.command = "review" /\ n.step = "check" /\ n.content.hash = Len(drafts)
              /\ n.content.version = o.content.version
            BY <3>0, <4>1 DEF Processes, Contents
        <5>2. Step(p, n)
            BY <3>1, <4>1 DEF Hash, o
        <5> HIDE DEF n
        <5> QED
            BY <3>0, <4>1, <5>1, <5>2 DEF Reviewing, Approving, Projecting, Writing
      <4>2. CASE o.command # "review" /\ o.content.hash = Len(drafts) /\ "open" \notin drafts[o.content.version]
        <5> DEFINE n == [o EXCEPT !.step = "check"]
        <5>1. n.command = o.command /\ n.step = "check" /\ n.content = o.content
            BY <3>0 DEF Processes
        <5>2. Step(p, n)
            BY <3>1, <4>2 DEF Hash, o
        <5>3. o.command \in Artifacts /\ o.step = "hash"
            BY <3>0, <3>1 DEF Hash, Busy, o
        <5> HIDE DEF n
        <5> QED
            BY <3>0, <4>2, <5>1, <5>2, <5>3 DEF Reviewing, Approving, Projecting, Writing
      <4>3. CASE o.command # "review" /\ ~(o.content.hash = Len(drafts) /\ "open" \notin drafts[o.content.version])
          BY <3>1, <4>3, IdleIsFine DEF Hash, o
      <4> QED
          BY <4>1, <4>2, <4>3
    <3>2. CASE Check(p)
      <4>1. CASE artifacts[o.command] \in {Absent, o.content}
        <5> DEFINE n == [o EXCEPT !.step = "test"]
        <5>1. n.command = o.command /\ n.step = "test" /\ n.content = o.content
            BY <3>0 DEF Processes
        <5>2. Step(p, n) /\ o.step = "check"
            BY <3>2, <4>1 DEF Check, o
        <5> HIDE DEF n
        <5> QED
            BY <3>0, <4>1, <5>1, <5>2 DEF Reviewing, Approving, Projecting, Writing
      <4>2. CASE ~(artifacts[o.command] \in {Absent, o.content})
          BY <3>2, <4>2, IdleIsFine DEF Check, o
      <4> QED
          BY <4>1, <4>2
    <3>3. CASE Test(p)
      <4> DEFINE n == [o EXCEPT !.step = "write", !.exists = artifacts[o.command] # Absent]
      <4>1. /\ n.command = o.command /\ n.step = "write" /\ n.content = o.content
            /\ n.exists = (artifacts[o.command] # Absent)
          BY <3>0 DEF Processes
      <4>2. Step(p, n) /\ o.step = "test"
          BY <3>3 DEF Test, o
      <4> HIDE DEF n
      <4> QED
          BY <3>0, <4>1, <4>2 DEF Reviewing, Approving, Projecting, Writing
    <3> QED
        BY <1>4, <3>1, <3>2, <3>3
  <2>2. running[p] # Idle
      BY <1>4 DEF Hash, Check, Test, Idle
  <2>3. \A q \in Commands : q # p => running[q] = Idle
      BY <2>2, OthersAreIdle DEF AloneInv
  <2> QED
      BY <2>1, <2>3, AloneProcess
<1>5. ASSUME NEW p \in Commands, Write(p) \/ Die(p)
      PROVE  AtWork'
  <2>1. running[p] # Idle
    <3>1. running[p].step = "write" => running[p] # Idle
        BY DEF Idle
    <3> QED
        BY <1>5, <3>1 DEF Write, Die
  <2>2. \A q \in Commands : q # p => running[q] = Idle
      BY <2>1, OthersAreIdle DEF AloneInv
  <2>3. running' = [running EXCEPT ![p] = Idle]
      BY <1>5 DEF Write, Die
  <2>4. \A q \in Commands : running'[q] = Idle
      BY <1>t, <2>2, <2>3
  <2> QED
      BY <2>4, IdleIsFine DEF AtWork, OneAtWork
<1>6. ASSUME NEW p \in Commands, Write(p)
      PROVE  OnDisk'
  <2> DEFINE c == running[p].command
             new == running[p].content
  <2>0. /\ Reviewing(running[p]) /\ Approving(running[p]) /\ Projecting(running[p]) /\ Writing(running[p])
        /\ Busy(running[p]) /\ running[p] \in Processes /\ running[p].step = "write"
      BY <1>6, <1>t DEF AloneInv, GatesInv, Write
  <2>1. c \in Artifacts /\ new \in Contents
      BY <2>0 DEF Busy, Processes
  <2>2. /\ artifacts'[c] = new /\ artifacts[c] \in {Absent, new}
        /\ \A f \in Artifacts \ {c} : artifacts'[f] = artifacts[f]
      BY <1>6, <1>t, <2>0, <2>1 DEF Write, Writing
  <2>3. \A f \in Artifacts : artifacts[f] # Absent => artifacts'[f] = artifacts[f]
      BY <2>2
  <2>4. /\ c = "review" => IsVersion(new.version) /\ new.hash = new.version
        /\ c = "approved" => /\ IsVersion(new.version) /\ new.hash = new.version
                             /\ "open" \notin drafts[new.version]
                             /\ Legible("review") /\ artifacts["review"].hash = new.version
        /\ c = "projected" => Legible("approved") /\ new = artifacts["approved"]
      BY <2>0, GateTypes DEF Reviewing, Approving, Projecting, IsVersion
  <2>5. UNCHANGED <<drafts, inputs>> /\ reported' = reported \cup {<<c, new>>}
      BY <1>6 DEF Write
  <2>6. new \notin {Absent, Torn} /\ \A f \in Artifacts : Legible(f) => Legible(f)'
      BY <2>1, <2>2, GatesAssumption DEF Legible
  <2> HIDE DEF c, new
  <2>7. ReviewIsWhole'
    <3>1. CASE c = "review"
        BY <2>2, <2>4, <2>5, <3>1 DEF ReviewIsWhole, IsVersion
    <3>2. CASE c # "review"
        BY <2>2, <2>5, <3>2 DEF AloneInv, ReviewIsWhole, Legible, IsVersion, Artifacts
    <3> QED
        BY <3>1, <3>2
  <2>8. ApprovedWasReviewed' /\ (Legible("approved") => IsVersion(artifacts["approved"].version))'
    <3>1. CASE c = "approved"
      <4>1. artifacts["review"] \in Contents /\ artifacts["review"].version = artifacts["review"].hash
          BY <2>4, <3>1, GateTypes DEF AloneInv, ReviewIsWhole, Artifacts
      <4>2. artifacts["review"] = [version |-> new.version, hash |-> new.version]
          BY <2>4, <3>1, <4>1 DEF Contents
      <4> QED
          BY <2>2, <2>4, <2>5, <3>1, <4>2 DEF ApprovedWasReviewed, IsVersion, Artifacts
    <3>2. CASE c # "approved"
      <4>1. artifacts'["approved"] = artifacts["approved"]
          BY <2>2, <3>2 DEF Artifacts
      <4>2. Legible("approved") => artifacts'["review"] = artifacts["review"]
        <5> SUFFICES ASSUME Legible("approved") PROVE artifacts["review"] # Absent
            BY <2>3 DEF Artifacts
        <5>1. artifacts["approved"] \in Contents
            BY GateTypes DEF Artifacts
        <5>2. artifacts["review"] \in Contents
            BY <5>1 DEF AloneInv, ApprovedWasReviewed, Contents
        <5> QED
            BY <5>2, GatesAssumption
      <4> QED
          BY <2>5, <4>1, <4>2 DEF AloneInv, ApprovedWasReviewed, Legible, IsVersion
    <3> QED
        BY <3>1, <3>2
  <2>9. ProjectedWasApproved'
    <3>1. CASE c = "projected"
        BY <2>2, <2>4, <2>6, <3>1 DEF ProjectedWasApproved, Artifacts
    <3>2. CASE c # "projected"
        BY <2>2, <2>3, <2>6, <3>2 DEF AloneInv, ProjectedWasApproved, Legible, Artifacts
    <3> QED
        BY <3>1, <3>2
  <2>10. RunsWereApproved'
      BY <2>3, <2>5, <2>6 DEF AloneInv, RunsWereApproved, Legible, Artifacts
  <2>11. ReportedStays'
    <3>1. \A a \in reported : a[1] \in Artifacts /\ artifacts[a[1]] = a[2] /\ a[2] # Absent
        BY GatesAssumption DEF AloneInv, ReportedStays, GateTypeOK
    <3> QED
        BY <2>2, <2>3, <2>5, <3>1 DEF ReportedStays
  <2> QED
      BY <2>7, <2>8, <2>9, <2>10, <2>11 DEF OnDisk
<1>7. ASSUME NEW p \in Commands, Die(p)
      PROVE  OnDisk'
  <2>1. Busy(running[p]) /\ Writing(running[p])
      BY DEF AloneInv, GatesInv
  <2>2. \A f \in Artifacts : artifacts'[f] # artifacts[f] => artifacts[f] = Absent /\ artifacts'[f] = Torn
      BY <1>7, <1>t, <2>1 DEF Die, Writing, Busy
  <2>3. UNCHANGED <<drafts, reported, inputs>>
      BY <1>7 DEF Die
  <2>4. {"review", "approved", "projected"} \subseteq Artifacts
      BY DEF Artifacts
  <2>a. /\ Legible("review")' <=> Legible("review")
        /\ Legible("approved")' <=> Legible("approved")
        /\ Legible("projected")' <=> Legible("projected")
      BY <2>2, <2>4 DEF Legible
  <2>b. /\ Legible("review") => artifacts'["review"] = artifacts["review"]
        /\ Legible("approved") => artifacts'["approved"] = artifacts["approved"]
        /\ Legible("projected") => artifacts'["projected"] = artifacts["projected"]
      BY <2>2, <2>4 DEF Legible
  <2>5. Legible("approved") => Legible("review")
    <3> SUFFICES ASSUME Legible("approved") PROVE Legible("review")
        OBVIOUS
    <3>1. artifacts["approved"] \in Contents
        BY GateTypes DEF Artifacts
    <3>2. artifacts["review"] \in Contents
        BY <3>1 DEF AloneInv, ApprovedWasReviewed, Contents
    <3> QED
        BY <3>2, GatesAssumption DEF Legible
  <2>6. ReviewIsWhole' /\ ProjectedWasApproved' /\ RunsWereApproved'
      BY <2>3, <2>a, <2>b DEF AloneInv, ReviewIsWhole, IsVersion, ProjectedWasApproved, RunsWereApproved
  <2>7. ApprovedWasReviewed' /\ (Legible("approved") => IsVersion(artifacts["approved"].version))'
      BY <2>3, <2>a, <2>b, <2>5 DEF AloneInv, ApprovedWasReviewed, IsVersion
  <2>8. ReportedStays'
    <3>1. \A a \in reported : a[1] \in Artifacts /\ artifacts[a[1]] = a[2] /\ a[2] # Absent
        BY GatesAssumption DEF AloneInv, ReportedStays, GateTypeOK
    <3> QED
        BY <2>2, <2>3, <3>1 DEF ReportedStays
  <2> QED
      BY <2>6, <2>7, <2>8 DEF OnDisk
<1>8. ASSUME NEW p \in Commands, StartRun(p)
      PROVE  AloneInv'
  <2>1. /\ UNCHANGED <<drafts, artifacts, running, reported>>
        /\ Legible("projected") /\ inputs' = inputs \cup {artifacts["projected"].version}
      BY <1>8 DEF StartRun
  <2>2. RunsWereApproved'
      BY <2>1 DEF AloneInv, RunsWereApproved, ProjectedWasApproved, Legible
  <2> QED
      BY <2>1, <2>2 DEF AloneInv, OneAtWork, Reviewing, Approving, Projecting, Writing, ReviewIsWhole,
                        ProjectedWasApproved, ApprovedWasReviewed, IsVersion, ReportedStays, Legible
<1> QED
    BY <1>u, <1>1, <1>2, <1>3, <1>4, <1>5, <1>6, <1>7, <1>8 DEF GateNext, AloneInv, AtWork, OnDisk

-----------------------------------------------------------------------------
LEMMA LosslessStep == GatesInv /\ LosslessInv /\ [GateNext]_gateVars => LosslessInv'
<1> SUFFICES ASSUME GatesInv, LosslessInv, [GateNext]_gateVars PROVE LosslessInv'
    OBVIOUS
<1>t. /\ GateTypeOK /\ running \in [Commands -> Processes]
      /\ artifacts \in [Artifacts -> Contents \cup {Absent, Torn}]
      /\ \A p \in Commands : Busy(running[p])
    BY DEF GatesInv, GateTypeOK
<1>u. CASE UNCHANGED gateVars
    BY <1>u DEF gateVars, LosslessInv, Lossless, Closed, IsVersion, Projectable, Legible
<1>1. CASE Extract \/ EditDraft
  <2> PICK d \in Drafts : NewDraft(d)
      BY <1>1 DEF Extract, EditDraft
  <2>1. \A v : /\ IsVersion(v) => IsVersion(v)'
               /\ Lossless(v) => Lossless(v)'
               /\ Closed(v) => Closed(v)'
      BY <1>t, DraftIsAdded DEF Lossless, Closed, Projectable
  <2> QED
      BY <2>1 DEF NewDraft, LosslessInv, Legible
<1>2. CASE WriteByHand
  <2>1. /\ artifacts'["projected"].version = 0 /\ artifacts'["approved"] = artifacts["approved"]
        /\ UNCHANGED <<drafts, running, inputs>>
      BY <1>2, <1>t DEF WriteByHand, Artifacts, NoContent
  <2> QED
      BY <2>1 DEF LosslessInv, Legible, Lossless, Closed, IsVersion, Projectable
<1>3. ASSUME NEW p \in Commands, NEW r, Step(p, r),
             r.command \in {"review", "approved"} => IsVersion(r.content.version),
             Counted(r) => Closed(r.content.version),
             r.command = "projected" => Lossless(r.content.version)
      PROVE  LosslessInv'
  <2>1. \A q \in Commands : running'[q] = IF q = p THEN r ELSE running[q]
      BY <1>3, <1>t DEF Step
  <2>2. UNCHANGED <<drafts, artifacts, inputs>>
      BY <1>3 DEF Step
  <2> QED
      BY <1>3, <2>1, <2>2 DEF LosslessInv, Legible, Lossless, Closed, IsVersion, Projectable
<1>4. ASSUME NEW p \in Commands, StartReview(p) \/ StartApprove(p)
      PROVE  LosslessInv'
  <2>1. PICK command \in {"review", "approved"}, hash \in Versions \cup {0} :
            /\ Start(p, command, "hash", [version |-> Len(drafts), hash |-> hash])
            /\ IsVersion(Len(drafts))
    <3>1. CASE StartReview(p)
        BY <3>1, <1>t, GateTypes DEF StartReview, IsVersion
    <3>2. CASE StartApprove(p)
        BY <3>2, <1>t, GateTypes DEF StartApprove, IsVersion, Contents, Artifacts
    <3> QED
        BY <1>4, <3>1, <3>2
  <2> QED
      BY <1>3, <2>1 DEF Start, Step, Counted
<1>5. ASSUME NEW p \in Commands, StartProject(p)
      PROVE  LosslessInv'
  <2>1. Lossless(artifacts["approved"].version)
      BY <1>5 DEF StartProject, Lossless, Closed, LosslessInv
  <2> QED
      BY <1>3, <1>5, <2>1 DEF StartProject, Start, Step, Counted
<1>6. ASSUME NEW p \in Commands, Hash(p) \/ Check(p) \/ Test(p)
      PROVE  LosslessInv'
  <2> DEFINE r == running'[p]
  <2>1. /\ Step(p, r)
        /\ r = Idle \/ (/\ r.command = running[p].command
                        /\ r.content.version = running[p].content.version
                        /\ Counted(r) => \/ Counted(running[p])
                                          \/ "open" \notin drafts[running[p].content.version])
    <3>0. running[p] \in Processes /\ running[p].content \in Contents
        BY <1>t DEF Processes
    <3>1. CASE Hash(p)
        BY <1>t, <3>0, <3>1 DEF Hash, Step, Processes, Contents, Counted
    <3>2. CASE Check(p)
        BY <1>t, <3>0, <3>2 DEF Check, Step, Processes, Counted
    <3>3. CASE Test(p)
        BY <1>t, <3>0, <3>3 DEF Test, Step, Processes, Counted
    <3> QED
        BY <1>6, <3>1, <3>2, <3>3
  <2> HIDE DEF r
  <2>2. CASE r = Idle
    <3>1. Idle.command = "none" /\ ~Counted(Idle)
        BY DEF Idle, Counted
    <3> QED
        BY <1>3, <2>1, <2>2, <3>1
  <2>3. CASE r # Idle
    <3>1. Counted(r) => Closed(r.content.version)
        BY <2>1, <2>3 DEF LosslessInv, Closed, Counted
    <3> QED
        BY <1>3, <2>1, <2>3, <3>1 DEF LosslessInv
  <2> QED
      BY <2>2, <2>3
<1>7. ASSUME NEW p \in Commands, Write(p) \/ Die(p)
      PROVE  LosslessInv'
  <2> DEFINE o == running[p]
  <2>1. o.step = "write" => o.command \in Artifacts
      BY <1>t DEF Busy
  <2>2. \A f \in Artifacts : \/ artifacts'[f] = artifacts[f]
                            \/ artifacts'[f] = Torn
                            \/ (f = o.command /\ artifacts'[f] = o.content /\ o.step = "write")
    <3>1. CASE Write(p)
        BY <1>t, <2>1, <3>1 DEF Write
    <3>2. CASE Die(p)
        BY <1>t, <2>1, <3>2 DEF Die
    <3> QED
        BY <1>7, <3>1, <3>2
  <2>3. \A q \in Commands : running'[q] = IF q = p THEN Idle ELSE running[q]
      BY <1>7, <1>t DEF Write, Die
  <2>4. UNCHANGED <<drafts, inputs>>
      BY <1>7 DEF Write, Die
  <2>5. /\ o.command = "approved" /\ o.step = "write" => Closed(o.content.version)
        /\ o.command = "projected" => Lossless(o.content.version)
      BY DEF LosslessInv, Counted
  <2>6. /\ (Legible("approved") => Closed(artifacts["approved"].version))'
        /\ (Legible("projected") =>
                artifacts["projected"].version = 0 \/ Lossless(artifacts["projected"].version))'
    <3> HIDE DEF o
    <3> QED
        BY <2>2, <2>4, <2>5 DEF LosslessInv, Legible, Artifacts, Lossless, Closed, IsVersion, Projectable
  <2>7. \A q \in Commands :
            /\ running'[q].command \in {"review", "approved"} => IsVersion(running'[q].content.version)
            /\ Counted(running'[q]) => Closed(running'[q].content.version)
            /\ running'[q].command = "projected" => Lossless(running'[q].content.version)
      BY <2>3 DEF LosslessInv, Counted, Idle
  <2> QED
      BY <2>4, <2>6, <2>7 DEF LosslessInv, Lossless, Closed, IsVersion, Projectable
<1>8. ASSUME NEW p \in Commands, StartRun(p)
      PROVE  LosslessInv'
    BY <1>8 DEF StartRun, LosslessInv, Legible, Lossless, Closed, IsVersion, Projectable
<1> QED
    BY <1>u, <1>1, <1>2, <1>4, <1>5, <1>6, <1>7, <1>8 DEF GateNext

LEMMA GatesStep == GatesInv /\ [GateNext]_gateVars => GatesInv'
<1> SUFFICES ASSUME GatesInv, [GateNext]_gateVars PROVE GatesInv'
    OBVIOUS
<1>1. UNCHANGED alone
    BY DEF GateNext, gateVars, Extract, EditDraft, NewDraft, WriteByHand, StartReview, StartApprove,
             StartProject, StartRun, Start, Hash, Check, Test, Step, Write, Die
<1> QED
    BY <1>1, GateTypeStep, AloneStep DEF GatesInv

-----------------------------------------------------------------------------
(* With any commands at once and edits while they run, what is approved is *)
(* closed.  Only while one command at a time works on the draft and nobody *)
(* edits it meanwhile (SpecGates, alone) an approved artifact is of the    *)
(* draft that was reviewed, a run is of the approved draft, and what was   *)
(* reported as written stays, whatever is edited between the commands and  *)
(* wherever they die (cli.py).                                             *)
THEOREM GatesAreSafe == GateSpec => []GatesHold
<1>1. GateInit => GatesInv /\ LosslessInv
    BY GatesInit
<1>2. GatesInv /\ LosslessInv => GatesHold
    BY DEF GatesInv, AloneInv, LosslessInv, Closed, ApprovedIsClosed, GatesHold
<1> QED
    BY <1>1, <1>2, GatesStep, LosslessStep, PTL DEF GateSpec

\* No draft that was open or lossy is ever run, with any number of commands at
\* once, edits while they work and specifications written by hand
\* (project_to_v3 and _write_immutable).
THEOREM NothingIsLostInProjection == GateSpec => []RunsAreLossless
<1>1. GateInit => GatesInv /\ LosslessInv
    BY GatesInit
<1>2. LosslessInv => RunsAreLossless
    BY DEF LosslessInv, Lossless, Projectable, RunsAreLossless
<1> QED
    BY <1>1, <1>2, GatesStep, LosslessStep, PTL DEF GateSpec

-----------------------------------------------------------------------------
(* Prices.                                                                 *)

\* A set of natural numbers has a smallest one; with a bound, a largest one.
LEMMA Smallest ==
    ASSUME NEW T \in SUBSET Nat, T # {}
    PROVE  Min(T) \in T /\ \A y \in T : Min(T) <= y
<1>1. \E x \in T : \A y \in T : ~ (<<y, x>> \in OpToRel(<, Nat))
    BY NatLessThanWellFounded, WFMin
<1>2. \E x \in T : \A y \in T : x <= y
  <2>1. PICK x \in T : \A y \in T : ~ (<<y, x>> \in OpToRel(<, Nat))
      BY <1>1
  <2>2. \A y \in T : ~ (y < x)
      BY <2>1 DEF OpToRel
  <2> QED
      BY <2>2
<1> QED
    BY <1>2 DEF Min

LEMMA Largest ==
    ASSUME NEW T \in SUBSET Nat, T # {}, NEW b \in Nat, \A y \in T : y <= b
    PROVE  Max(T) \in T /\ \A y \in T : y <= Max(T)
<1> DEFINE D == {b - y : y \in T}
<1>1. D \in SUBSET Nat /\ D # {}
  <2>1. \A y \in T : y \in Nat /\ y <= b
      OBVIOUS
  <2>2. \A y \in T : b - y \in Nat
      BY <2>1
  <2>3. D \subseteq Nat
      BY <2>2
  <2>4. D # {}
      OBVIOUS
  <2> QED
      BY <2>3, <2>4
<1>2. Min(D) \in D /\ \A d \in D : Min(D) <= d
  <2> HIDE DEF D
  <2> QED
      BY <1>1, Smallest
<1>3. PICK x \in T : Min(D) = b - x
    BY <1>2
<1>4. ASSUME NEW y \in T PROVE y <= x
  <2>1. b - y \in D /\ y \in Nat /\ x \in Nat
      OBVIOUS
  <2>2. b - x <= b - y
      BY <1>2, <1>3, <2>1
  <2> QED
      BY <2>1, <2>2
<1>5. \E z \in T : \A y \in T : z >= y
    BY <1>4
<1>6. Max(T) \in T /\ \A y \in T : Max(T) >= y
    BY <1>5 DEF Max
<1> QED
    BY <1>6

\* What is multiplied.
LEMMA Products ==
    ASSUME NEW x \in Nat, NEW y \in Nat, NEW z \in Nat, x <= y
    PROVE  x * z \in Nat /\ y * z \in Nat /\ x * z <= y * z /\ z * x <= z * y
<1>1. PICK d \in Nat : y = x + d
  <2>1. y - x \in Nat /\ y = x + (y - x)
      OBVIOUS
  <2> QED
      BY <2>1
<1>2. d * z \in Nat /\ x * z \in Nat
    OBVIOUS
<1>3. y * z = x * z + d * z
    BY <1>1
<1>4. z * y = y * z /\ z * x = x * z
    OBVIOUS
<1> QED
    BY <1>2, <1>3, <1>4

\* The rows and limits of a table.
LEMMA TableFacts ==
    ASSUME NEW t \in Tables
    PROVE  /\ t.halves \in {1, 2} /\ t.schedule \in {"deepseek", "flat"}
           /\ \/ t.tiers = <<>> /\ t.base \in Row
              \/ \E n \in Nat \ {0} : t.tiers \in [1..n -> Tiers]
           /\ DOMAIN t.tiers \subseteq Nat
           /\ \A i \in DOMAIN t.tiers : t.tiers[i].row \in Row /\ t.tiers[i].limit \in Nat
<1>1. \/ t.tiers = <<>> /\ t.base \in Row
      \/ \E n \in Nat \ {0} : t.tiers \in [1..n -> Tiers]
    BY PricingAssumption DEF Tables
<1>2. t.halves \in {1, 2} /\ t.schedule \in {"deepseek", "flat"}
    BY DEF Tables
<1>3. CASE t.tiers = <<>> /\ t.base \in Row
    BY <1>2, <1>3
<1>4. CASE \E n \in Nat \ {0} : t.tiers \in [1..n -> Tiers]
  <2>1. PICK n \in Nat \ {0} : t.tiers \in [1..n -> Tiers]
      BY <1>4
  <2>2. DOMAIN t.tiers = 1..n /\ \A i \in 1..n : t.tiers[i] \in Tiers
      BY <2>1
  <2>3. \A i \in 1..n : t.tiers[i].row \in Row /\ t.tiers[i].limit \in Nat
      BY <2>2, PricingAssumption DEF Tiers
  <2> QED
      BY <1>1, <1>2, <2>2, <2>3
<1> QED
    BY <1>1, <1>3, <1>4

LEMMA RowFacts ==
    ASSUME NEW row \in Row
    PROVE  /\ row.input \in Nat /\ row.output \in Nat /\ row.hit \in Nat
           /\ ~Dear => row.hit <= row.input
  BY PricingAssumption DEF Row

\* The row of an input: the first tier that it does not pass.
Reached(t, in) == {i \in DOMAIN t.tiers : in <= t.tiers[i].limit}

LEMMA RowOfInput ==
    ASSUME NEW t \in Tables, NEW in \in Nat, Priceable(t, in)
    PROVE  /\ RowFor(t, in) \in Row
           /\ t.tiers # <<>> =>
                /\ RowFor(t, in) = t.tiers[Min(Reached(t, in))].row
                /\ Min(Reached(t, in)) \in Reached(t, in)
                /\ \A i \in Reached(t, in) : Min(Reached(t, in)) <= i
<1>1. CASE t.tiers = <<>>
    BY <1>1, TableFacts DEF RowFor, Tables, Tiers
<1>2. CASE t.tiers # <<>>
  <2>1. Reached(t, in) \in SUBSET Nat /\ Reached(t, in) # {}
      BY <1>2, TableFacts DEF Priceable, Reached
  <2>2. /\ Min(Reached(t, in)) \in Reached(t, in)
        /\ \A i \in Reached(t, in) : Min(Reached(t, in)) <= i
      BY <2>1, Smallest
  <2>3. RowFor(t, in) = t.tiers[Min(Reached(t, in))].row
      BY <1>2, <2>1 DEF RowFor, Reached
  <2>4. Min(Reached(t, in)) \in DOMAIN t.tiers
      BY <2>2 DEF Reached
  <2> QED
      BY <2>2, <2>3, <2>4, TableFacts
<1> QED
    BY <1>1, <1>2

-----------------------------------------------------------------------------
(* The cost of a usage.                                                    *)

AtPeak(row, in, given) == 2 * (in * row.input + given * row.output)

\* No usage costs more than its input in cache misses at peak rates.
LEMMA CostIsBounded ==
    ASSUME ~Dear, NEW t \in Tables, NEW in \in Nat, NEW given \in Nat, Priceable(t, in),
           NEW hits \in 0..in, NEW peak \in BOOLEAN,
           NEW n \in Nat, NEW m \in Nat, in <= n, given <= m
    PROVE  /\ PriceUsage(t, in, given, hits, peak) \in Nat
           /\ PriceUsage(t, in, given, hits, peak) <= AtPeak(RowFor(t, in), n, m)
<1> DEFINE row == RowFor(t, in)
           factor == IF t.schedule = "flat" \/ peak THEN 2 ELSE t.halves
           sum == hits * row.hit + (in - hits) * row.input + given * row.output
           top == n * row.input + m * row.output
<1>1. row.input \in Nat /\ row.output \in Nat /\ row.hit \in Nat /\ row.hit <= row.input
    BY RowFacts, RowOfInput
<1>2. factor \in {1, 2}
    BY TableFacts
<1>3. PriceUsage(t, in, given, hits, peak) = factor * sum
    BY DEF PriceUsage
<1> HIDE DEF row, factor
<1>4. sum \in Nat /\ sum <= top /\ top \in Nat
  <2>1. hits \in Nat /\ in - hits \in Nat
      OBVIOUS
  <2>2. hits * row.hit \in Nat /\ hits * row.hit <= hits * row.input /\ hits * row.input \in Nat
      BY <1>1, <2>1, Products
  <2>3. hits * row.input + (in - hits) * row.input = in * row.input
    <3>1. PICK d \in Nat : d = in - hits
        BY <2>1
    <3>2. in = hits + d
        BY <3>1, <2>1
    <3>3. in * row.input = hits * row.input + d * row.input
        BY <1>1, <2>1, <3>2
    <3> QED
        BY <3>1, <3>3
  <2>4. in * row.input <= n * row.input /\ in * row.input \in Nat /\ n * row.input \in Nat
      BY <1>1, Products
  <2>5. given * row.output <= m * row.output /\ given * row.output \in Nat /\ m * row.output \in Nat
      BY <1>1, Products
  <2>6. (in - hits) * row.input \in Nat
      BY <1>1, <2>1, Products
  <2> QED
      BY <2>2, <2>3, <2>4, <2>5, <2>6
<1> HIDE DEF sum, top
<1>5. factor * sum \in Nat /\ factor * sum <= 2 * top
    BY <1>2, <1>4
<1> QED
    BY <1>3, <1>5 DEF top, row, AtPeak

LEMMA CostAtPeak ==
    ASSUME NEW t \in Tables, NEW in \in Nat, NEW given \in Nat, Priceable(t, in)
    PROVE  PriceUsage(t, in, given, 0, TRUE) = AtPeak(RowFor(t, in), in, given)
<1> DEFINE row == RowFor(t, in)
<1>1. row.input \in Nat /\ row.output \in Nat /\ row.hit \in Nat
    BY RowFacts, RowOfInput
<1>2. PriceUsage(t, in, given, 0, TRUE) = 2 * (0 * row.hit + (in - 0) * row.input + given * row.output)
    BY DEF PriceUsage
<1> HIDE DEF row
<1>3. 0 * row.hit = 0 /\ in - 0 = in
    BY <1>1
<1>4. in * row.input \in Nat /\ given * row.output \in Nat
    BY <1>1
<1>5. 0 * row.hit + (in - 0) * row.input + given * row.output = in * row.input + given * row.output
    BY <1>3, <1>4
<1>6. PriceUsage(t, in, given, 0, TRUE) = AtPeak(row, in, given)
    BY <1>2, <1>5 DEF AtPeak
<1> QED
    BY <1>6 DEF row

\* Every tier below the bound has its own worst case.
Candidates(t, in) == {in} \cup {n \in {t.tiers[i].limit : i \in DOMAIN t.tiers} : n < in}

Costs(t, in, given) == {PriceUsage(t, n, given, 0, TRUE) : n \in Candidates(t, in)}

\* What costs at most b: there are finitely many tiers.
LEMMA CostsAreBounded ==
    ASSUME NEW t \in Tables, NEW f \in [Nat -> Nat]
    PROVE  \E b \in Nat : \A i \in DOMAIN t.tiers : f[i] <= b
<1> DEFINE Unbounded == {k \in Nat : ~ \E b \in Nat : \A i \in 1..k : f[i] <= b}
<1>1. Unbounded = {}
  <2> SUFFICES ASSUME Unbounded # {} PROVE FALSE
      OBVIOUS
  <2> DEFINE k == Min(Unbounded)
  <2>1. k \in Unbounded /\ \A j \in Unbounded : k <= j
    <3>1. Unbounded \in SUBSET Nat
        OBVIOUS
    <3> HIDE DEF Unbounded
    <3> QED
        BY <3>1, Smallest
  <2> HIDE DEF k
  <2>2. k \in Nat /\ k # 0
    <3>1. 0 \notin Unbounded
        OBVIOUS
    <3> QED
        BY <2>1, <3>1
  <2>3. k - 1 \in Nat /\ k - 1 \notin Unbounded
    <3> HIDE DEF Unbounded
    <3> QED
        BY <2>1, <2>2
  <2>4. PICK b \in Nat : \A i \in 1..(k - 1) : f[i] <= b
      BY <2>3
  <2>5. \A i \in 1..k : f[i] <= b + f[k]
    <3>1. f[k] \in Nat
        BY <2>2
    <3> TAKE i \in 1..k
    <3>2. i = k \/ i \in 1..(k - 1)
        BY <2>2
    <3>3. f[i] \in Nat
        BY <2>2
    <3> QED
        BY <2>4, <3>1, <3>2, <3>3
  <2>6. b + f[k] \in Nat
      BY <2>2
  <2> QED
      BY <2>1, <2>5, <2>6
<1>2. CASE t.tiers = <<>>
    BY <1>2
<1>3. CASE t.tiers # <<>>
  <2>1. PICK n \in Nat : DOMAIN t.tiers = 1..n
      BY <1>3, TableFacts
  <2> QED
      BY <1>1, <2>1
<1> QED
    BY <1>2, <1>3

\* What is reserved is at least the cost of every candidate.
LEMMA ReservationIsLargest ==
    ASSUME NEW t \in Tables, NEW in \in Nat, NEW given \in Nat, Priceable(t, in)
    PROVE  /\ CalculateCost(t, in, given) \in Nat
           /\ \A n \in Candidates(t, in) : /\ n \in Nat /\ Priceable(t, n)
                                           /\ AtPeak(RowFor(t, n), n, given) <= CalculateCost(t, in, given)
<1>1. ASSUME NEW n \in Candidates(t, in)
      PROVE  /\ n \in Nat /\ Priceable(t, n)
             /\ PriceUsage(t, n, given, 0, TRUE) = AtPeak(RowFor(t, n), n, given)
             /\ PriceUsage(t, n, given, 0, TRUE) \in Nat
  <2>1. n \in Nat /\ Priceable(t, n)
      BY TableFacts DEF Candidates, Priceable
  <2>2. RowFor(t, n) \in Row
      BY <2>1, RowOfInput
  <2>3. AtPeak(RowFor(t, n), n, given) \in Nat
    <3> DEFINE row == RowFor(t, n)
    <3>1. row.input \in Nat /\ row.output \in Nat
        BY <2>2, RowFacts
    <3> HIDE DEF row
    <3>2. n * row.input \in Nat /\ given * row.output \in Nat
        BY <2>1, <3>1
    <3>3. AtPeak(row, n, given) \in Nat
        BY <3>2 DEF AtPeak
    <3> QED
        BY <3>3 DEF row
  <2> QED
      BY <2>1, <2>3, CostAtPeak
<1>2. Costs(t, in, given) \in SUBSET Nat /\ Costs(t, in, given) # {}
    BY <1>1 DEF Costs, Candidates
<1>3. \E b \in Nat : \A c \in Costs(t, in, given) : c <= b
  <2> DEFINE At(i) == PriceUsage(t, t.tiers[i].limit, given, 0, TRUE)
             f == [i \in Nat |-> IF i \in DOMAIN t.tiers /\ t.tiers[i].limit < in THEN At(i) ELSE 0]
  <2>1. f \in [Nat -> Nat]
      BY <1>1 DEF Candidates
  <2>2. PICK b \in Nat : \A i \in DOMAIN t.tiers : f[i] <= b
    <3> HIDE DEF f
    <3> QED
        BY <2>1, CostsAreBounded
  <2> DEFINE own == PriceUsage(t, in, given, 0, TRUE)
  <2>3. own \in Nat
      BY <1>1 DEF Candidates
  <2>4. ASSUME NEW c \in Costs(t, in, given) PROVE c <= b + own
    <3>1. c = own \/ \E i \in DOMAIN t.tiers : c = At(i) /\ t.tiers[i].limit < in
        BY DEF Costs, Candidates
    <3>2. CASE c = own
      <4> HIDE DEF own
      <4> QED
          BY <2>3, <3>2
    <3>3. CASE \E i \in DOMAIN t.tiers : c = At(i) /\ t.tiers[i].limit < in
      <4>1. PICK i \in DOMAIN t.tiers : c = At(i) /\ t.tiers[i].limit < in
          BY <3>3
      <4>2. f[i] = c
          BY <4>1, TableFacts
      <4>3. c <= b /\ c \in Nat
          BY <1>2, <2>2, <4>2
      <4> HIDE DEF own
      <4> QED
          BY <2>3, <4>3
    <3> QED
        BY <3>1, <3>2, <3>3
  <2>5. b + own \in Nat
    <3> HIDE DEF own
    <3> QED
        BY <2>3
  <2> QED
      BY <2>4, <2>5
<1>4. /\ Max(Costs(t, in, given)) \in Costs(t, in, given)
      /\ \A c \in Costs(t, in, given) : c <= Max(Costs(t, in, given))
    BY <1>2, <1>3, Largest
<1>5. CalculateCost(t, in, given) = Max(Costs(t, in, given))
    BY DEF CalculateCost, Costs, Candidates
<1> QED
    BY <1>1, <1>2, <1>4, <1>5 DEF Costs

\* The tier of a smaller input is the same one, or one of the candidates.
LEMMA TierIsReserved ==
    ASSUME NEW t \in Tables, TableAccepted(t), NEW in \in Nat, NEW n \in Nat, in <= n, Priceable(t, n)
    PROVE  /\ Priceable(t, in)
           /\ \E c \in Candidates(t, n) : in <= c /\ RowFor(t, c) = RowFor(t, in)
<1>1. Priceable(t, in)
    BY TableFacts DEF Priceable
<1>2. CASE t.tiers = <<>>
  <2>1. n \in Candidates(t, n)
      BY DEF Candidates
  <2>2. RowFor(t, n) = RowFor(t, in)
      BY <1>2 DEF RowFor
  <2> QED
      BY <1>1, <2>1, <2>2
<1>3. CASE t.tiers # <<>>
  <2> DEFINE i == Min(Reached(t, in))
             j == Min(Reached(t, n))
  <2>1. /\ RowFor(t, in) = t.tiers[i].row /\ i \in Reached(t, in)
        /\ \A k \in Reached(t, in) : i <= k
      BY <1>1, <1>3, RowOfInput
  <2>2. /\ RowFor(t, n) = t.tiers[j].row /\ j \in Reached(t, n)
        /\ \A k \in Reached(t, n) : j <= k
      BY <1>3, RowOfInput
  <2>3. n \in Candidates(t, n)
      BY DEF Candidates
  <2>h. \A k : k \in Reached(t, in) => /\ k \in DOMAIN t.tiers /\ k \in Nat
                                        /\ t.tiers[k].limit \in Nat /\ in <= t.tiers[k].limit
      BY TableFacts DEF Reached
  <2>k. \A k : k \in Reached(t, n) => /\ k \in DOMAIN t.tiers /\ k \in Nat
                                       /\ t.tiers[k].limit \in Nat /\ n <= t.tiers[k].limit
      BY TableFacts DEF Reached
  <2> HIDE DEF i, j
  <2>4. i <= j
    <3>1. j \in Reached(t, in)
        BY <2>2, <2>k DEF Reached
    <3> QED
        BY <2>1, <3>1
  <2>5. CASE i = j
      BY <1>1, <2>1, <2>2, <2>3, <2>5
  <2>6. CASE i # j
    <3> DEFINE l == t.tiers[i].limit
               m == Min(Reached(t, l))
    <3>1. i \in DOMAIN t.tiers /\ i \in Nat /\ l \in Nat /\ in <= l
        BY <2>1, <2>h
    <3>2. j \in Nat /\ i < j
        BY <2>2, <2>4, <2>6, <2>k, <3>1
    <3>3. i \notin Reached(t, n)
        BY <2>2, <3>1, <3>2
    <3>4. l < n
        BY <3>1, <3>3 DEF Reached
    <3>5. l \in Candidates(t, n) /\ i \in Reached(t, l) /\ Priceable(t, l)
        BY <3>1, <3>4 DEF Candidates, Priceable, Reached
    <3>6. /\ RowFor(t, l) = t.tiers[m].row /\ m \in Reached(t, l)
          /\ \A k \in Reached(t, l) : m <= k
        BY <1>3, <3>1, <3>5, RowOfInput
    <3>l. \A k : k \in Reached(t, l) => /\ k \in DOMAIN t.tiers /\ k \in Nat
                                         /\ t.tiers[k].limit \in Nat /\ l <= t.tiers[k].limit
        BY TableFacts DEF Reached
    <3> HIDE DEF l, m
    <3>7. m <= i
        BY <3>5, <3>6
    <3>8. m \in Reached(t, in)
        BY <3>1, <3>6, <3>l DEF Reached
    <3>9. m = i
        BY <2>1, <3>1, <3>6, <3>7, <3>8, <3>l
    <3> QED
        BY <1>1, <2>1, <3>1, <3>5, <3>6, <3>9
  <2> QED
      BY <2>5, <2>6
<1> QED
    BY <1>1, <1>2, <1>3

\* An answer within the bounds of its request costs no more than they do.
LEMMA UsageIsCovered ==
    ASSUME ~Dear, NEW t \in Tables, TableAccepted(t), NEW in \in Nat, NEW given \in Nat,
           NEW n \in Nat, NEW m \in Nat, in <= n, given <= m, Priceable(t, n),
           NEW hits \in 0..in, NEW peak \in BOOLEAN
    PROVE  PriceUsage(t, in, given, hits, peak) <= CalculateCost(t, n, m)
<1>1. Priceable(t, in)
    BY TierIsReserved
<1>2. PICK c \in Candidates(t, n) : in <= c /\ RowFor(t, c) = RowFor(t, in)
    BY TierIsReserved
<1>3. /\ c \in Nat /\ CalculateCost(t, n, m) \in Nat
      /\ AtPeak(RowFor(t, in), c, m) <= CalculateCost(t, n, m)
    BY <1>2, ReservationIsLargest
<1>4. /\ PriceUsage(t, in, given, hits, peak) \in Nat
      /\ PriceUsage(t, in, given, hits, peak) <= AtPeak(RowFor(t, in), c, m)
    BY <1>1, <1>2, <1>3, CostIsBounded
<1>5. AtPeak(RowFor(t, in), c, m) \in Nat
  <2> DEFINE row == RowFor(t, in)
  <2>1. row.input \in Nat /\ row.output \in Nat
      BY <1>1, RowOfInput, RowFacts
  <2> HIDE DEF row
  <2>2. c * row.input \in Nat /\ m * row.output \in Nat
      BY <1>3, <2>1
  <2>3. AtPeak(row, c, m) \in Nat
      BY <2>2 DEF AtPeak
  <2> QED
      BY <2>3 DEF row
<1> DEFINE paid == PriceUsage(t, in, given, hits, peak)
           most == AtPeak(RowFor(t, in), c, m)
           reserved == CalculateCost(t, n, m)
<1>6. paid \in Nat /\ most \in Nat /\ reserved \in Nat /\ paid <= most /\ most <= reserved
    BY <1>3, <1>4, <1>5
<1> HIDE DEF paid, most, reserved
<1>7. paid <= reserved
    BY <1>6
<1> QED
    BY <1>7 DEF paid, reserved

-----------------------------------------------------------------------------
(* The calls: a configuration that was accepted stays so, what is sent was *)
(* priced, and its reservation is that of its bounds.                      *)

Accepted == priceAt \notin {"configure", "ConfigError"} => RoutesAccepted /\ TableAccepted(table)

WasReserved ==
    priceAt \in {"send", "settled", "ResponseUsageError"} =>
        /\ Priceable(table, prepared.in)
        /\ reservation = CalculateCost(table, prepared.in, prepared.out)

PriceInv == CallsArePriced /\ Accepted /\ WasReserved

LEMMA PriceInvInit == PriceInit => PriceInv
  BY DEF PriceInit, PriceInv, CallsArePriced, PriceTypeOK, Nothing, ReservationCovers, ReservedCanSettle,
         RoutesAreConfigured, Accepted, WasReserved, NoRoute

LEMMA ForTaskIsARoute ==
    ASSUME config \in Configs, NEW kind, NEW retry, NEW repair
    PROVE  ForTask(kind, retry, repair) \in Routes \cap Models
  BY DEF ForTask, Routes, Configs, Models, NoRoute

LEMMA PriceInvStep == ASSUME ~Dear PROVE PriceInv /\ [PriceNext]_priceVars => PriceInv'
<1> SUFFICES ASSUME PriceInv, [PriceNext]_priceVars PROVE PriceInv'
    OBVIOUS
<1>u. CASE UNCHANGED priceVars
    BY <1>u DEF priceVars, PriceInv, CallsArePriced, PriceTypeOK, ReservationCovers, WithinBounds,
                ReservedCanSettle, RoutesAreConfigured, Accepted, RoutesAccepted, Routes, TableAccepted,
                WasReserved
<1>1. CASE Configure
  <2>1. /\ UNCHANGED <<config, model, prepared, reservation, usage, cost>>
        /\ \/ priceAt' = "prepare" /\ table' \in Tables /\ RoutesAccepted /\ TableAccepted(table')
           \/ priceAt' = "ConfigError"
        /\ priceAt = "configure"
      BY <1>1 DEF Configure
  <2>2. PriceTypeOK'
      BY <2>1 DEF PriceInv, CallsArePriced, PriceTypeOK
  <2>3. Accepted'
      BY <2>1 DEF Accepted, RoutesAccepted, Routes, TableAccepted
  <2> QED
      BY <2>1, <2>2, <2>3 DEF PriceInv, CallsArePriced, ReservationCovers, ReservedCanSettle,
                              RoutesAreConfigured, WasReserved
<1>2. CASE Prepare
  <2>1. PICK kind \in Kinds, retry \in BOOLEAN, repair \in BOOLEAN, bytes \in 1..MaxTokens,
             requested \in 1..MaxTokens, reserve \in 0..1, supported \in BOOLEAN :
            LET route == ForTask(kind, retry, repair)
                in == bytes + 1
                given == requested + reserve IN
            /\ model' = route
            /\ IF route \notin config.capable \cap config.priced THEN End("KeyError")
               ELSE IF ~supported \/ requested > MaxOutput \/ in > MaxInput \/ in + given > Context
               THEN End("LLMError")
               ELSE /\ prepared' = [in |-> in, out |-> given] /\ priceAt' = "reserve"
                    /\ UNCHANGED <<reservation, usage, cost>>
      BY <1>2 DEF Prepare
  <2>2. UNCHANGED <<config, table>> /\ priceAt = "prepare"
      BY <1>2 DEF Prepare
  <2>3. ForTask(kind, retry, repair) \in Routes \cap Models
      BY ForTaskIsARoute DEF PriceInv, CallsArePriced, PriceTypeOK
  <2>4. ForTask(kind, retry, repair) \in config.capable \cap config.priced
      BY <2>2, <2>3 DEF PriceInv, Accepted, RoutesAccepted
  <2>5. bytes + 1 \in Nat /\ requested + reserve \in Nat
      BY PricingAssumption
  <2>6. /\ model' \in Models /\ UNCHANGED <<reservation, usage, cost>>
        /\ \/ priceAt' = "LLMError" /\ UNCHANGED prepared
           \/ priceAt' = "reserve" /\ prepared' \in [in : Nat, out : Nat]
      BY <2>1, <2>3, <2>4, <2>5 DEF End
  <2>7. PriceTypeOK'
      BY <2>2, <2>6 DEF PriceInv, CallsArePriced, PriceTypeOK
  <2>8. Accepted'
      BY <2>2, <2>6 DEF PriceInv, Accepted, RoutesAccepted, Routes, TableAccepted
  <2> QED
      BY <2>6, <2>7, <2>8 DEF PriceInv, CallsArePriced, ReservationCovers, ReservedCanSettle,
                              RoutesAreConfigured, WasReserved
<1>3. CASE Reserve
  <2> DEFINE in == prepared.in
             given == prepared.out
  <2>1. /\ UNCHANGED <<config, table, model, prepared, usage, cost>> /\ priceAt = "reserve"
        /\ \/ /\ Priceable(table, in) /\ priceAt' = "send"
              /\ reservation' = CalculateCost(table, in, given)
           \/ priceAt' = "ValueError" /\ UNCHANGED reservation
      BY <1>3 DEF Reserve
  <2>2. table \in Tables /\ in \in Nat /\ given \in Nat
      BY <2>1 DEF PriceInv, CallsArePriced, PriceTypeOK
  <2>3. reservation' \in Nat
    <3>1. CASE Priceable(table, in) /\ reservation' = CalculateCost(table, in, given)
        BY <2>2, <3>1, ReservationIsLargest
    <3> QED
        BY <2>1, <3>1 DEF PriceInv, CallsArePriced, PriceTypeOK
  <2>4. PriceTypeOK'
      BY <2>1, <2>3 DEF PriceInv, CallsArePriced, PriceTypeOK
  <2>5. Accepted'
      BY <2>1 DEF PriceInv, Accepted, RoutesAccepted, Routes, TableAccepted
  <2>6. WasReserved'
      BY <2>1 DEF WasReserved
  <2> QED
      BY <2>1, <2>4, <2>5, <2>6 DEF PriceInv, CallsArePriced, ReservationCovers, ReservedCanSettle,
                                    RoutesAreConfigured
<1>4. CASE Answer
  <2>1. PICK in \in 0..MaxTokens + 1, given \in 0..MaxTokens + 1,
             peak \in {Peak(day, minute) : day \in Days, minute \in Minutes} :
            /\ usage' = [in |-> in, out |-> given]
            /\ IF Priceable(table, in)
               THEN /\ \E hits \in 0..in : cost' = PriceUsage(table, in, given, hits, peak)
                    /\ priceAt' = "settled"
               ELSE priceAt' = "ResponseUsageError" /\ UNCHANGED cost
      BY <1>4 DEF Answer
  <2>2. UNCHANGED <<config, table, model, prepared, reservation>> /\ priceAt = "send"
      BY <1>4 DEF Answer
  <2>3. /\ table \in Tables /\ TableAccepted(table) /\ prepared.in \in Nat /\ prepared.out \in Nat
        /\ Priceable(table, prepared.in) /\ cost \in Nat
        /\ reservation = CalculateCost(table, prepared.in, prepared.out)
      BY <2>2 DEF PriceInv, CallsArePriced, PriceTypeOK, Accepted, WasReserved
  <2>4. in \in Nat /\ given \in Nat /\ peak \in BOOLEAN
    <3>1. \A day \in Days, minute \in Minutes : Peak(day, minute) \in BOOLEAN
        BY DEF Peak
    <3> QED
        BY <3>1, PricingAssumption
  <2>5. WithinBounds' => in <= prepared.in /\ given <= prepared.out
      BY <2>1, <2>2 DEF WithinBounds
  <2>6. /\ ReservationCovers' /\ ReservedCanSettle' /\ cost' \in Nat
        /\ priceAt' \in {"settled", "ResponseUsageError"}
    <3>1. CASE Priceable(table, in)
      <4>1. PICK hits \in 0..in : cost' = PriceUsage(table, in, given, hits, peak)
          BY <2>1, <3>1
      <4>2. priceAt' = "settled"
          BY <2>1, <3>1
      <4>3. cost' \in Nat
          BY <2>3, <2>4, <3>1, <4>1, CostIsBounded
      <4>4. ASSUME in <= prepared.in, given <= prepared.out PROVE cost' <= reservation
          BY <2>3, <2>4, <4>1, <4>4, UsageIsCovered
      <4> QED
          BY <2>2, <2>5, <4>2, <4>3, <4>4 DEF ReservationCovers, ReservedCanSettle
    <3>2. CASE ~Priceable(table, in)
      <4>1. priceAt' = "ResponseUsageError" /\ cost' = cost
          BY <2>1, <3>2
      <4>2. ~(in <= prepared.in)
          BY <2>3, <2>4, <3>2, TierIsReserved
      <4> QED
          BY <2>3, <2>5, <4>1, <4>2 DEF ReservationCovers, ReservedCanSettle
    <3> QED
        BY <3>1, <3>2
  <2>7. PriceTypeOK'
      BY <2>1, <2>2, <2>4, <2>6 DEF PriceInv, CallsArePriced, PriceTypeOK
  <2>8. Accepted'
      BY <2>2, <2>6 DEF PriceInv, Accepted, RoutesAccepted, Routes, TableAccepted
  <2>9. WasReserved'
      BY <2>2, <2>3 DEF WasReserved
  <2> QED
      BY <2>6, <2>7, <2>8, <2>9 DEF PriceInv, CallsArePriced, RoutesAreConfigured
<1> QED
    BY <1>u, <1>1, <1>2, <1>3, <1>4 DEF PriceNext

(* Where no table asks more for a cache hit than for a miss (Dear), an     *)
(* answer within the bounds of its request has a price and costs no more   *)
(* than was reserved, whatever the rates, tiers, hours and limits, and     *)
(* every route of a configuration that was accepted has a model            *)
(* (calculate_cost and price_usage of telemetry.py, config.py).            *)
THEOREM AnswersAreCovered == ASSUME ~Dear PROVE PriceSpec => []CallsArePriced
<1>1. PriceInv => CallsArePriced
    BY DEF PriceInv
<1> QED
    BY <1>1, PriceInvInit, PriceInvStep, PTL DEF PriceSpec

-----------------------------------------------------------------------------
(* The compiler of claims.                                                 *)

Entries == [claim : Claims, id : 1..MaxClaims]

\* The claim that defines a node is of its kind.
Defines(k) ==
    nodes[k] # 0 => nodes[k] \in Indexes /\ Of(nodes[k]).kind = k /\ ~Lacking(Of(nodes[k]))

\* A conflict of two claims whose gaps no id closes.
Opposed(g, h) == Conflict(g, h) /\ ~Unsupported(Of(g)) /\ ~Unsupported(Of(h))

\* What a structural claim says is said by the claim that defines its node, or
\* the claim, or a conflict in which one side says it, is open.
Explained(i) ==
    \/ nodes[Of(i).kind] # 0 /\ Says(nodes[Of(i).kind], i)
    \/ i \in gaps
    \/ \E g, h \in gaps : Says(g, i) /\ Same(g, h) /\ Opposed(g, h)

Taken(i) ==
    /\ Of(i).kind = "requirement" => <<"MUST", Of(i).text>> \in reqs
    /\ Of(i).kind = "unsupported_candidate" => i \in gaps \/ (claimAt = "end" /\ (i \in Preserved \/ ClosedById(i)))
    /\ Of(i).kind \in Structural => Explained(i) \/ (claimAt = "end" /\ ClosedById(i))

Placed(kinds) == \A k \in kinds : nodes[k] # 0 => nodes[k] \in parts \cup gaps

Evidenced(i) ==
    /\ [claim |-> i, outcome |-> "target"] \in mapped
    /\ Of(i).kind = "protocol" \/ <<"DEFINITION", "q1">> \in reqs
    /\ Of(i).kind = "field" => nodes["message"] \in parts

ClaimInv ==
    /\ ClaimTypeOK
    /\ claims \in Seq(Entries)
    /\ \A k \in Structural : Defines(k)
    /\ \A i \in Indexes : Taken(i)
    /\ claimAt = "claims" => parts = {}
    /\ claimAt # "claims" => Placed({"protocol"})
    /\ claimAt \notin {"claims", "nodes"} => Placed({"message", "type", "transport"})
    /\ claimAt \in {"v4", "end"} => Placed({"field"})
    /\ \A i \in parts : Evidenced(i)

LEMMA ClaimKinds ==
    ASSUME NEW c \in Claims
    PROVE /\ c.kind \in Structural \cup {"requirement", "unsupported_candidate"}
          /\ c.kind = "requirement" => c.text \in {"q1", "q2"}
          /\ c.kind = "unsupported_candidate" => c.level \in {"SHOULD NOT", "MAY", "none"}
<1>1. CASE c \in [kind : {"requirement"}, text : {"q1", "q2"}]
    BY <1>1 DEF Structural
<1>2. CASE c \in [kind : {"unsupported_candidate"}, level : {"SHOULD NOT", "MAY", "none"}]
    BY <1>2 DEF Structural
<1>3. CASE c \in UNION {[kind : {k}, facts : (SUBSET Facts) \ {{}}, shape : Shapes[k], confidence : 0..1] :
                        k \in Structural}
  <2>1. PICK k \in Structural :
            c \in [kind : {k}, facts : (SUBSET Facts) \ {{}}, shape : Shapes[k], confidence : 0..1]
      BY <1>3
  <2>2. c.kind = k
      BY <2>1
  <2> QED
      BY <2>2 DEF Structural
<1>4. CASE c \in [kind : {"message", "type"}, facts : (SUBSET Facts) \ {{}}, shape : {"lacking"}, confidence : {0}]
    BY <1>4 DEF Structural
<1> QED
    BY <1>1, <1>2, <1>3, <1>4 DEF Claims

LEMMA ClaimsInit == ClaimInit => ClaimInv
<1> SUFFICES ASSUME ClaimInit PROVE ClaimInv
    OBVIOUS
<1>1. /\ Indexes = {} /\ claims = <<>> /\ nodes = [k \in Structural |-> 0] /\ mapped = {} /\ gaps = {}
      /\ reqs = {} /\ parts = {} /\ claimAt = "claims"
    BY DEF ClaimInit, Indexes
<1>2. ClaimTypeOK
    BY <1>1 DEF ClaimTypeOK
<1> QED
    BY <1>1, <1>2 DEF ClaimInv, Defines

\* One claim more: the others stay what they are.
LEMMA ClaimAppended ==
    ASSUME claims \in Seq(Entries), NEW c \in Claims, NEW id \in 1..MaxClaims, NEW n, n = Len(claims) + 1,
           claims' = Append(claims, [claim |-> c, id |-> id])
    PROVE /\ claims' \in Seq(Entries) /\ Indexes' = Indexes \cup {n} /\ n \in Nat /\ n # 0 /\ n \notin Indexes
          /\ Of(n)' = c /\ claims'[n].id = id
          /\ \A i \in Indexes : Of(i)' = Of(i) /\ claims'[i] = claims[i] /\ i \in Nat /\ Of(i) \in Claims
<1> DEFINE e == [claim |-> c, id |-> id]
<1>1. e \in Entries /\ e.claim = c /\ e.id = id
    BY DEF Entries
<1> HIDE DEF e
<1>2. /\ claims' \in Seq(Entries) /\ Len(claims') = n /\ claims'[n] = e
      /\ \A i \in 1..Len(claims) : claims'[i] = claims[i] /\ claims[i] \in Entries
      /\ Len(claims) \in Nat
    BY <1>1 DEF e
<1>3. \A x \in Entries : x.claim \in Claims
    BY DEF Entries
<1> QED
    BY <1>1, <1>2, <1>3 DEF Indexes, Of

LEMMA TakeClaimStep ==
    ASSUME ClaimInv, TakeClaim
    PROVE ClaimInv'
<1>1. PICK n \in {Len(claims) + 1}, c \in Claims, id \in 1..Len(claims) + 1 :
        /\ claims' = Append(claims, [claim |-> c, id |-> id])
        /\ CASE c.kind = "requirement" -> Required(n, "MUST", c.text) /\ UNCHANGED <<nodes, gaps>>
             [] c.kind = "unsupported_candidate" -> gaps' = gaps \cup {n} /\ UNCHANGED <<nodes, mapped, reqs>>
             [] OTHER ->
                  /\ IF Lacking(c) THEN gaps' = gaps \cup {n} /\ UNCHANGED <<nodes, mapped>>
                     ELSE IF nodes[c.kind] = 0
                     THEN nodes' = [nodes EXCEPT ![c.kind] = n] /\ UNCHANGED <<mapped, gaps>>
                     ELSE Meet(n, c)
                  /\ UNCHANGED reqs
    BY Zenon DEF TakeClaim
<1>i. id \in 1..MaxClaims /\ n = Len(claims) + 1
  <2>1. Len(claims) \in Nat /\ Len(claims) < MaxClaims
      BY DEF TakeClaim, ClaimInv
  <2> QED
      BY <2>1, ClaimsAssumption
<1>2. claimAt = "claims" /\ claimAt' = "claims" /\ parts = {} /\ parts' = {}
    BY DEF TakeClaim, ClaimInv
<1>3. /\ claims' \in Seq(Entries) /\ Indexes' = Indexes \cup {n} /\ n \in Nat /\ n # 0 /\ n \notin Indexes
      /\ Of(n)' = c /\ claims'[n].id = id
      /\ \A i \in Indexes : Of(i)' = Of(i) /\ claims'[i] = claims[i] /\ i \in Nat /\ Of(i) \in Claims
    BY <1>1, <1>i, ClaimAppended DEF ClaimInv
<1>4. /\ nodes \in [Structural -> Indexes \cup {0}] /\ mapped \subseteq [claim : Indexes, outcome : Outcomes]
      /\ gaps \subseteq Indexes
      /\ reqs \subseteq {"MUST", "MAY", "DEFINITION", "SHOULD NOT"} \X {"q1", "q2"}
      /\ \A k \in Structural : Defines(k)
      /\ \A i \in Indexes : Taken(i) /\ claims[i].id \in 1..MaxClaims
      /\ \A i \in Indexes : Of(i).kind \in Structural => Explained(i)
    BY <1>2 DEF ClaimInv, ClaimTypeOK, Taken
<1>5. /\ c.kind \in Structural \cup {"requirement", "unsupported_candidate"}
      /\ c.kind = "requirement" => c.text \in {"q1", "q2"}
    BY ClaimKinds
<1>a. \A i, j \in Indexes : /\ Says(i, j)' <=> Says(i, j)
                            /\ Same(i, j)' <=> Same(i, j)
                            /\ Opposed(i, j)' <=> Opposed(i, j)
    BY <1>3 DEF Says, Same, Opposed, Conflict
<1>b. ASSUME gaps \subseteq gaps', NEW i \in Indexes, Of(i).kind \in Structural,
             nodes'[Of(i).kind] = nodes[Of(i).kind]
      PROVE Explained(i)'
  <2>1. Explained(i) /\ nodes[Of(i).kind] \in Indexes \cup {0} /\ Of(i)' = Of(i)
      BY <1>b, <1>3, <1>4 DEF Taken
  <2>2. CASE nodes[Of(i).kind] # 0 /\ Says(nodes[Of(i).kind], i)
      BY <1>a, <1>b, <2>1, <2>2 DEF Explained
  <2>3. CASE i \in gaps
      BY <1>b, <2>3 DEF Explained
  <2>4. CASE \E g, h \in gaps : Says(g, i) /\ Same(g, h) /\ Opposed(g, h)
    <3>1. PICK g \in gaps, h \in gaps : Says(g, i) /\ Same(g, h) /\ Opposed(g, h)
        BY <2>4
    <3>2. Says(g, i)' /\ Same(g, h)' /\ Opposed(g, h)' /\ g \in gaps' /\ h \in gaps'
        BY <1>4, <1>a, <1>b, <3>1
    <3> QED
        BY <3>2 DEF Explained
  <2> QED
      BY <2>1, <2>2, <2>3, <2>4 DEF Explained
<1>c. \A k \in Structural :
        \/ nodes'[k] = nodes[k]
        \/ nodes'[k] = n /\ c.kind = k /\ ~Lacking(c)
        => Defines(k)'
  <2> SUFFICES ASSUME NEW k \in Structural, nodes'[k] = nodes[k] \/ (nodes'[k] = n /\ c.kind = k /\ ~Lacking(c)),
                      nodes'[k] # 0
               PROVE nodes'[k] \in Indexes' /\ claims'[nodes'[k]].claim.kind = k /\ ~Lacking(claims'[nodes'[k]].claim)
      BY DEF Defines, Of, Lacking
  <2>1. CASE nodes'[k] = nodes[k]
    <3>1. nodes[k] \in Indexes /\ Of(nodes[k]).kind = k /\ ~Lacking(Of(nodes[k]))
        BY <1>4, <2>1 DEF Defines
    <3> QED
        BY <1>3, <2>1, <3>1 DEF Of
  <2>2. CASE nodes'[k] = n /\ c.kind = k /\ ~Lacking(c)
      BY <1>3, <2>2 DEF Of
  <2> QED
      BY <2>1, <2>2
<1>d. "requirement" \notin Structural /\ "unsupported_candidate" \notin Structural
    BY DEF Structural
<1>e. ASSUME NEW outcome \in Outcomes
      PROVE (mapped \cup Record({n}, outcome)) \subseteq [claim : Indexes', outcome : Outcomes]
  <2>1. [claim |-> n, outcome |-> outcome] \in [claim : Indexes', outcome : Outcomes]
      BY <1>3
  <2>2. mapped \subseteq [claim : Indexes', outcome : Outcomes]
    <3>1. Indexes \subseteq Indexes'
        BY <1>3
    <3> QED
        BY <1>4, <3>1
  <2> QED
      BY <2>1, <2>2 DEF Record
\* What is common to all cases.
<1>6. /\ nodes' \in [Structural -> Indexes' \cup {0}] /\ mapped' \subseteq [claim : Indexes', outcome : Outcomes]
      /\ gaps' \subseteq Indexes' /\ gaps \subseteq gaps'
      /\ reqs' \subseteq {"MUST", "MAY", "DEFINITION", "SHOULD NOT"} \X {"q1", "q2"} /\ reqs \subseteq reqs'
      /\ \A k \in Structural : Defines(k)'
      /\ Taken(n)'
      /\ \A i \in Indexes : Of(i).kind \in Structural => Explained(i)'
  <2>1. CASE c.kind = "requirement"
    <3>1. Required(n, "MUST", c.text) /\ UNCHANGED <<nodes, gaps>>
        BY <1>1, <2>1
    <3>2. \A i \in Indexes : Of(i).kind \in Structural => Explained(i)'
        BY <1>b, <3>1
    <3>3. Taken(n)'
        BY <1>3, <1>d, <2>1, <3>1 DEF Required, Taken
    <3>4. \A k \in Structural : Defines(k)'
        BY <1>c, <3>1
    <3>5. mapped' \subseteq [claim : Indexes', outcome : Outcomes]
        BY <1>e, <3>1 DEF Required, Outcomes
    <3>6. reqs' \subseteq {"MUST", "MAY", "DEFINITION", "SHOULD NOT"} \X {"q1", "q2"} /\ reqs \subseteq reqs'
      <4>1. <<"MUST", c.text>> \in {"MUST", "MAY", "DEFINITION", "SHOULD NOT"} \X {"q1", "q2"}
          BY <1>5, <2>1
      <4> QED
          BY <1>4, <3>1, <4>1 DEF Required
    <3> QED
        BY <1>3, <1>4, <3>1, <3>2, <3>3, <3>4, <3>5, <3>6
  <2>2. CASE c.kind = "unsupported_candidate"
    <3>1. gaps' = gaps \cup {n} /\ UNCHANGED <<nodes, mapped, reqs>>
        BY <1>1, <2>2
    <3>2. \A i \in Indexes : Of(i).kind \in Structural => Explained(i)'
        BY <1>b, <3>1
    <3>3. Taken(n)'
        BY <1>3, <1>d, <2>2, <3>1 DEF Taken
    <3>4. \A k \in Structural : Defines(k)'
        BY <1>c, <3>1
    <3> QED
        BY <1>3, <1>4, <3>1, <3>2, <3>3, <3>4
  <2>3. CASE c.kind \in Structural
    <3>1. /\ IF Lacking(c) THEN gaps' = gaps \cup {n} /\ UNCHANGED <<nodes, mapped>>
             ELSE IF nodes[c.kind] = 0
             THEN nodes' = [nodes EXCEPT ![c.kind] = n] /\ UNCHANGED <<mapped, gaps>>
             ELSE Meet(n, c)
          /\ UNCHANGED reqs
        BY <1>1, <1>d, <2>3
    <3>a. Explained(n)' => Taken(n)'
        BY <1>3, <1>d, <2>3 DEF Taken
    <3>b. Says(n, n)'
        BY <1>3, <2>3 DEF Says, Same
    <3>2. CASE Lacking(c)
      <4>1. gaps' = gaps \cup {n} /\ UNCHANGED <<nodes, mapped, reqs>>
          BY <3>1, <3>2
      <4>2. Explained(n)' /\ \A i \in Indexes : Of(i).kind \in Structural => Explained(i)'
          BY <1>b, <4>1 DEF Explained
      <4>3. \A k \in Structural : Defines(k)'
          BY <1>c, <4>1
      <4> QED
          BY <1>3, <1>4, <3>a, <4>1, <4>2, <4>3
    <3>3. CASE ~Lacking(c) /\ nodes[c.kind] = 0
      <4>1. nodes' = [nodes EXCEPT ![c.kind] = n] /\ UNCHANGED <<mapped, gaps, reqs>>
          BY <3>1, <3>3
      <4>2. nodes'[c.kind] = n /\ \A k \in Structural : k # c.kind => nodes'[k] = nodes[k]
          BY <1>4, <2>3, <4>1
      <4>3. Explained(n)'
          BY <1>3, <3>b, <4>2 DEF Explained
      <4>4. ASSUME NEW i \in Indexes, Of(i).kind = c.kind PROVE Explained(i)'
        <5>1. Explained(i) /\ ~(nodes[Of(i).kind] # 0)
            BY <1>4, <2>3, <3>3, <4>4 DEF Taken
        <5>2. CASE i \in gaps
            BY <4>1, <5>2 DEF Explained
        <5>3. CASE \E g, h \in gaps : Says(g, i) /\ Same(g, h) /\ Opposed(g, h)
          <6>1. PICK g \in gaps, h \in gaps : Says(g, i) /\ Same(g, h) /\ Opposed(g, h)
              BY <5>3
          <6>2. Says(g, i)' /\ Same(g, h)' /\ Opposed(g, h)' /\ g \in gaps' /\ h \in gaps'
              BY <1>4, <1>a, <4>1, <6>1
          <6> QED
              BY <6>2 DEF Explained
        <5> QED
            BY <5>1, <5>2, <5>3 DEF Explained
      <4>5. \A i \in Indexes : Of(i).kind \in Structural => Explained(i)'
          BY <1>b, <4>1, <4>2, <4>4
      <4>6. \A k \in Structural : Defines(k)'
          BY <1>c, <3>3, <4>2
      <4> QED
          BY <1>3, <1>4, <2>3, <3>a, <4>1, <4>3, <4>5, <4>6
    <3>4. CASE ~Lacking(c) /\ nodes[c.kind] # 0
      <4>0. PICK previous \in Indexes, p \in Claims : previous = nodes[c.kind] /\ p = Of(previous)
          BY <1>3, <1>4, <2>3, <3>4 DEF Defines
      <4>1. Meet(n, c) /\ UNCHANGED reqs
          BY <3>1, <3>4
      <4>2. /\ p.kind = c.kind /\ ~Lacking(p) /\ Of(previous)' = p
            /\ previous # 0
          BY <1>3, <1>4, <2>3, <3>4, <4>0 DEF Defines
      \* The richer claim defines the node, and says what the other one said.
      <4>3. ASSUME gaps' = gaps, nodes' = [nodes EXCEPT ![c.kind] = n], p.facts \subseteq c.facts
            PROVE /\ nodes' \in [Structural -> Indexes' \cup {0}]
                  /\ \A k \in Structural : Defines(k)'
                  /\ Explained(n)' /\ \A i \in Indexes : Of(i).kind \in Structural => Explained(i)'
        <5>1. nodes'[c.kind] = n /\ \A k \in Structural : k # c.kind => nodes'[k] = nodes[k]
            BY <1>4, <2>3, <4>3
        <5>2. ASSUME NEW i \in Indexes, Of(i).kind = c.kind PROVE Explained(i)'
          <6>1. Explained(i) /\ Of(i)' = Of(i)
              BY <1>3, <1>4, <2>3, <5>2 DEF Taken
          <6>2. CASE Says(previous, i)
            <7>1. Of(i).facts \subseteq p.facts
                BY <4>0, <6>2 DEF Says
            <7>2. Says(n, i)'
                BY <1>3, <2>3, <4>3, <5>2, <6>1, <7>1 DEF Says, Same
            <7> QED
                BY <1>3, <5>1, <5>2, <6>1, <7>2 DEF Explained
          <6>3. CASE i \in gaps
              BY <4>3, <6>3 DEF Explained
          <6>4. CASE \E g, h \in gaps : Says(g, i) /\ Same(g, h) /\ Opposed(g, h)
            <7>1. PICK g \in gaps, h \in gaps : Says(g, i) /\ Same(g, h) /\ Opposed(g, h)
                BY <6>4
            <7>2. Says(g, i)' /\ Same(g, h)' /\ Opposed(g, h)' /\ g \in gaps' /\ h \in gaps'
                BY <1>4, <1>a, <4>3, <7>1
            <7> QED
                BY <7>2 DEF Explained
          <6> QED
              BY <4>0, <5>2, <6>1, <6>2, <6>3, <6>4 DEF Explained
        <5>3. Explained(n)'
            BY <1>3, <3>b, <5>1 DEF Explained
        <5>4. nodes' \in [Structural -> Indexes' \cup {0}]
            BY <1>3, <1>4, <4>3
        <5> QED
            BY <1>b, <1>c, <3>4, <4>3, <5>1, <5>2, <5>3, <5>4
      \* The other one stays, and says what the claim says.
      <4>4. ASSUME gaps' = gaps, nodes' = nodes, c.facts \subseteq p.facts
            PROVE /\ \A k \in Structural : Defines(k)'
                  /\ Explained(n)' /\ \A i \in Indexes : Of(i).kind \in Structural => Explained(i)'
        <5>1. Says(previous, n)'
            BY <1>3, <2>3, <4>2, <4>4 DEF Says, Same
        <5>2. Explained(n)'
            BY <1>3, <4>0, <4>2, <4>4, <5>1 DEF Explained
        <5> QED
            BY <1>b, <1>c, <4>4, <5>2
      <4>5. CASE c.facts = p.facts /\ c.shape = p.shape
        <5>1. mapped' = mapped \cup Record({n}, "duplicate") /\ UNCHANGED <<nodes, gaps>>
            BY <4>0, <4>1, <4>5 DEF Meet
        <5>2. mapped' \subseteq [claim : Indexes', outcome : Outcomes]
            BY <1>e, <5>1 DEF Outcomes
        <5> QED
            BY <1>3, <1>4, <3>a, <4>1, <4>4, <4>5, <5>1, <5>2
      <4>6. CASE ~(c.facts = p.facts /\ c.shape = p.shape) /\ (ContainsAll(c, p) \/ ContainsAll(p, c))
        <5>1. /\ mapped' = mapped \cup Record({n}, "merge")
              /\ nodes' = IF ContainsAll(c, p) THEN [nodes EXCEPT ![c.kind] = n] ELSE nodes
              /\ UNCHANGED gaps
            BY <4>0, <4>1, <4>6 DEF Meet
        <5>2. mapped' \subseteq [claim : Indexes', outcome : Outcomes]
            BY <1>e, <5>1 DEF Outcomes
        <5>3. CASE ContainsAll(c, p)
          <6>1. p.facts \subseteq c.facts
              BY <5>3 DEF ContainsAll
          <6> QED
              BY <1>3, <1>4, <3>a, <4>1, <4>3, <5>1, <5>2, <5>3, <6>1
        <5>4. CASE ~ContainsAll(c, p)
          <6>1. c.facts \subseteq p.facts
              BY <4>6, <5>4 DEF ContainsAll
          <6> QED
              BY <1>3, <1>4, <3>a, <4>1, <4>4, <5>1, <5>2, <5>4, <6>1
        <5> QED
            BY <5>3, <5>4
      <4>7. CASE ~(c.facts = p.facts /\ c.shape = p.shape) /\ ~(ContainsAll(c, p) \/ ContainsAll(p, c))
        <5>1. /\ gaps' = gaps \cup {previous, n}
              /\ nodes' = IF Beats(c, p) THEN [nodes EXCEPT ![c.kind] = n] ELSE nodes
              /\ UNCHANGED mapped
            BY <4>0, <4>1, <4>7 DEF Meet
        <5>2. Opposed(previous, n)' /\ Same(previous, n)'
          <6>1. ~Unsupported(c) /\ ~Unsupported(p)
              BY <1>d, <2>3, <3>4, <4>2 DEF Unsupported
          <6>2. Of(previous)' = p /\ Of(n)' = c
              BY <1>3, <4>2
          <6>3. Conflict(previous, n)' /\ Same(previous, n)'
              BY <2>3, <4>2, <4>7, <6>2 DEF Conflict, Same
          <6> QED
              BY <6>1, <6>2, <6>3 DEF Opposed
        <5>3. /\ \A k \in Structural : k # c.kind => nodes'[k] = nodes[k]
              /\ nodes'[c.kind] = n \/ nodes'[c.kind] = nodes[c.kind]
              /\ nodes' \in [Structural -> Indexes' \cup {0}]
          <6>1. CASE Beats(c, p)
              BY <1>3, <1>4, <2>3, <5>1, <6>1
          <6>2. CASE ~Beats(c, p)
              BY <1>3, <1>4, <2>3, <5>1, <6>2
          <6> QED
              BY <6>1, <6>2
        <5>4. ASSUME NEW i \in Indexes, Of(i).kind = c.kind PROVE Explained(i)'
          <6>1. Explained(i) /\ Of(i)' = Of(i)
              BY <1>3, <1>4, <2>3, <5>4 DEF Taken
          <6>2. CASE Says(previous, i)
            <7>1. Says(previous, i)' /\ previous \in gaps' /\ n \in gaps'
                BY <1>a, <5>1, <6>2
            <7> QED
                BY <5>2, <7>1 DEF Explained
          <6>3. CASE i \in gaps
              BY <5>1, <6>3 DEF Explained
          <6>4. CASE \E g, h \in gaps : Says(g, i) /\ Same(g, h) /\ Opposed(g, h)
            <7>1. PICK g \in gaps, h \in gaps : Says(g, i) /\ Same(g, h) /\ Opposed(g, h)
                BY <6>4
            <7>2. Says(g, i)' /\ Same(g, h)' /\ Opposed(g, h)' /\ g \in gaps' /\ h \in gaps'
                BY <1>4, <1>a, <5>1, <7>1
            <7> QED
                BY <7>2 DEF Explained
          <6> QED
              BY <4>0, <5>4, <6>1, <6>2, <6>3, <6>4 DEF Explained
        <5>5. Explained(n)'
            BY <5>1 DEF Explained
        <5>6. \A i \in Indexes : Of(i).kind \in Structural => Explained(i)'
            BY <1>b, <5>1, <5>3, <5>4
        <5>7. \A k \in Structural : Defines(k)'
            BY <1>c, <3>4, <5>3
        <5> QED
            BY <1>3, <1>4, <3>a, <4>1, <5>1, <5>3, <5>5, <5>6, <5>7
      <4> QED
          BY <4>5, <4>6, <4>7
    <3> QED
        BY <3>2, <3>3, <3>4
  <2> QED
      BY <1>5, <2>1, <2>2, <2>3
<1>7. \A i \in Indexes : Taken(i)'
    BY <1>2, <1>3, <1>4, <1>6 DEF Taken
<1>8. ClaimTypeOK'
  <2>1. \A i \in Indexes' : claims'[i].claim \in Claims /\ claims'[i].id \in 1..MaxClaims
    <3> SUFFICES ASSUME NEW i \in Indexes'
                 PROVE  claims'[i].claim \in Claims /\ claims'[i].id \in 1..MaxClaims
        OBVIOUS
    <3>1. CASE i \in Indexes
        BY <1>3, <1>4, <3>1 DEF Of
    <3>2. CASE i = n
        BY <1>2, <1>3, <1>i, <3>2 DEF Of
    <3> QED
        BY <1>3, <3>1, <3>2
  <2>2. nodes' \in [Structural -> Indexes' \cup {0}] /\ mapped' \subseteq [claim : Indexes', outcome : Outcomes]
      BY <1>6
  <2>3. gaps' \subseteq Indexes' /\ parts' \subseteq Indexes'
      BY <1>1, <1>2, <1>3, <1>4, <1>6
  <2>4. claimAt' \in {"claims", "nodes", "fields", "v4", "end"}
      BY <1>1, <1>2, <1>3, <1>4, <1>6
  <2> QED
      BY <1>6, <2>1, <2>2, <2>3, <2>4 DEF ClaimTypeOK
<1> QED
    BY <1>2, <1>3, <1>4, <1>6, <1>7, <1>8 DEF ClaimInv

LEMMA IndexesAreNat ==
    ASSUME ClaimInv
    PROVE Indexes \subseteq Nat /\ gaps \subseteq Nat /\ \A k \in Structural : nodes[k] \in Nat
<1>1. gaps \subseteq Indexes /\ nodes \in [Structural -> Indexes \cup {0}]
    BY DEF ClaimInv, ClaimTypeOK
<1>2. Indexes \subseteq Nat
    BY DEF Indexes
<1>3. \A k \in Structural : nodes[k] \in Indexes \cup {0}
    BY <1>1
<1>4. \A x \in Indexes \cup {0} : x \in Nat
    BY <1>2
<1>5. gaps \subseteq Nat
    BY <1>1, <1>2
<1> QED
    BY <1>2, <1>3, <1>4, <1>5

\* What stays while the nodes become parts: more gaps explain no less.
LEMMA StillTaken ==
    ASSUME ClaimInv, UNCHANGED <<claims, nodes>>, gaps \subseteq gaps', reqs \subseteq reqs',
           claimAt # "end"
    PROVE \A i \in Indexes' : Taken(i)'
<1> SUFFICES ASSUME NEW i \in Indexes PROVE Taken(i)'
    BY DEF Indexes
<1>1. Taken(i)
    BY DEF ClaimInv
<1>2. \A x, y \in Nat : /\ Of(x)' = Of(x) /\ (Says(x, y)' <=> Says(x, y))
                        /\ (Same(x, y)' <=> Same(x, y)) /\ (Opposed(x, y)' <=> Opposed(x, y))
    BY DEF Of, Says, Same, Opposed, Conflict
<1>3. i \in Nat /\ gaps \subseteq Nat /\ \A k \in Structural : nodes[k] \in Nat
    BY IndexesAreNat
<1>4. Of(i).kind \in Structural => Explained(i)'
    BY <1>1, <1>2, <1>3 DEF Taken, Explained
<1> QED
    BY <1>1, <1>2, <1>3, <1>4 DEF Taken

LEMMA StillTyped ==
    ASSUME ClaimInv, UNCHANGED <<claims, nodes>>, NEW taken \in SUBSET Indexes,
           mapped' = mapped \cup Record(taken, "target") \/ mapped' = mapped,
           gaps' \subseteq Indexes, parts' \subseteq Indexes,
           reqs' \subseteq {"MUST", "MAY", "DEFINITION", "SHOULD NOT"} \X {"q1", "q2"},
           claimAt' \in {"claims", "nodes", "fields", "v4", "end"}
    PROVE /\ ClaimTypeOK' /\ claims' \in Seq(Entries)
          /\ \A k \in Structural : Defines(k)'
<1>1. mapped' \subseteq [claim : Indexes, outcome : Outcomes]
  <2>1. mapped \subseteq [claim : Indexes, outcome : Outcomes]
      BY DEF ClaimInv, ClaimTypeOK
  <2>2. \A i \in taken : [claim |-> i, outcome |-> "target"] \in [claim : Indexes, outcome : Outcomes]
      BY DEF Outcomes
  <2>3. Record(taken, "target") \subseteq [claim : Indexes, outcome : Outcomes]
      BY <2>2 DEF Record
  <2> QED
      BY <2>1, <2>3
<1> QED
    BY <1>1 DEF ClaimInv, ClaimTypeOK, Indexes, Defines, Of

LEMMA TakenParts ==
    ASSUME ClaimInv, NEW kinds \in SUBSET Structural
    PROVE \A i \in Defined(kinds) : i \in Indexes /\ Of(i).kind \in kinds /\ i = nodes[Of(i).kind]
BY DEF ClaimInv, Defines, Defined

LEMMA TakeProtocolStep == ASSUME ClaimInv, TakeProtocol PROVE ClaimInv'
<1> DEFINE taken == Defined({"protocol"})
<1>1. /\ claimAt = "claims" /\ claimAt' = "nodes" /\ mapped' = mapped \cup Record(taken, "target")
      /\ parts' = taken /\ UNCHANGED <<claims, nodes, gaps, reqs>>
    BY DEF TakeProtocol
<1>2. \A i \in taken : i \in Indexes /\ Of(i).kind = "protocol"
    BY TakenParts DEF Structural
<1>3. \A i \in Indexes' : Taken(i)'
    BY <1>1, StillTaken
<1>4. /\ ClaimTypeOK' /\ claims' \in Seq(Entries)
      /\ \A k \in Structural : Defines(k)'
  <2>1. gaps \subseteq Indexes /\ reqs \subseteq {"MUST", "MAY", "DEFINITION", "SHOULD NOT"} \X {"q1", "q2"}
      BY DEF ClaimInv, ClaimTypeOK
  <2> HIDE DEF taken
  <2> QED
      BY <1>1, <1>2, <2>1, StillTyped
<1>5. Placed({"protocol"})'
    BY <1>1 DEF Placed, Defined
<1>6. \A i \in parts' : Evidenced(i)'
  <2> SUFFICES ASSUME NEW i \in taken PROVE Evidenced(i)'
      BY <1>1
  <2>1. [claim |-> i, outcome |-> "target"] \in mapped'
      BY <1>1 DEF Record
  <2> QED
      BY <1>1, <1>2, <2>1 DEF Evidenced, Of
<1> QED
    BY <1>1, <1>3, <1>4, <1>5, <1>6 DEF ClaimInv

LEMMA TakeNodesStep == ASSUME ClaimInv, TakeNodes PROVE ClaimInv'
<1> DEFINE taken == Defined({"message", "type", "transport"})
           nested == {i \in taken : Of(i).shape = "nested"}
<1>1. /\ claimAt = "nodes" /\ claimAt' = "fields" /\ parts' = parts \cup (taken \ nested)
      /\ gaps' = gaps \cup nested
      /\ reqs' = IF taken = {} THEN reqs ELSE reqs \cup {<<"DEFINITION", "q1">>}
      /\ mapped' = mapped \cup Record(taken \ nested, "target")
      /\ UNCHANGED <<claims, nodes>>
    BY DEF TakeNodes
<1>2. \A i \in taken : i \in Indexes /\ Of(i).kind \in {"message", "type", "transport"}
    BY TakenParts DEF Structural
<1>3. /\ gaps \subseteq Indexes /\ parts \subseteq Indexes
      /\ reqs \subseteq {"MUST", "MAY", "DEFINITION", "SHOULD NOT"} \X {"q1", "q2"}
    BY DEF ClaimInv, ClaimTypeOK
<1>4. \A i \in Indexes' : Taken(i)'
    BY <1>1, StillTaken
<1>5. /\ ClaimTypeOK' /\ claims' \in Seq(Entries)
      /\ \A k \in Structural : Defines(k)'
  <2>1. taken \ nested \in SUBSET Indexes /\ nested \subseteq Indexes
      BY <1>2
  <2>2. reqs' \subseteq {"MUST", "MAY", "DEFINITION", "SHOULD NOT"} \X {"q1", "q2"}
    <3>1. <<"DEFINITION", "q1">> \in {"MUST", "MAY", "DEFINITION", "SHOULD NOT"} \X {"q1", "q2"}
        OBVIOUS
    <3> QED
        BY <1>1, <1>3, <3>1
  <2>3. parts' \subseteq Indexes /\ gaps' \subseteq Indexes
      BY <1>1, <1>3, <2>1
  <2> HIDE DEF taken, nested
  <2> QED
      BY <1>1, <2>1, <2>2, <2>3, StillTyped
<1>6. Placed({"protocol"})'
  <2>1. Placed({"protocol"})
      BY <1>1 DEF ClaimInv
  <2> QED
      BY <1>1, <2>1 DEF Placed
<1>7. Placed({"message", "type", "transport"})'
    BY <1>1 DEF Placed, Defined
<1>8. \A i \in parts' : Evidenced(i)'
  <2>1. ASSUME NEW i \in parts PROVE Evidenced(i)'
    <3>1. Evidenced(i)
        BY DEF ClaimInv
    <3> QED
        BY <1>1, <3>1 DEF Evidenced, Of
  <2>2. ASSUME NEW i \in taken \ nested PROVE Evidenced(i)'
    <3>1. [claim |-> i, outcome |-> "target"] \in mapped'
        BY <1>1 DEF Record
    <3>2. <<"DEFINITION", "q1">> \in reqs'
        BY <1>1
    <3> QED
        BY <1>1, <1>2, <3>1, <3>2 DEF Evidenced, Of
  <2> QED
      BY <1>1, <2>1, <2>2
<1> QED
    BY <1>1, <1>4, <1>5, <1>6, <1>7, <1>8 DEF ClaimInv

LEMMA TakeFieldsStep == ASSUME ClaimInv, TakeFields PROVE ClaimInv'
<1> DEFINE fields == {i \in Defined({"field"}) : Compiled(i)}
<1>1. /\ claimAt = "fields" /\ claimAt' = "v4" /\ parts' = parts \cup fields
      /\ gaps' = gaps \cup (Defined({"field"}) \ fields)
      /\ reqs' = IF fields = {} THEN reqs ELSE reqs \cup {<<"DEFINITION", "q1">>}
      /\ mapped' = mapped \cup Record(fields, "target")
      /\ UNCHANGED <<claims, nodes>>
    BY DEF TakeFields
<1>2. \A i \in Defined({"field"}) : i \in Indexes /\ Of(i).kind = "field"
    BY TakenParts DEF Structural
<1>3. /\ gaps \subseteq Indexes /\ parts \subseteq Indexes
      /\ reqs \subseteq {"MUST", "MAY", "DEFINITION", "SHOULD NOT"} \X {"q1", "q2"}
    BY DEF ClaimInv, ClaimTypeOK
<1>4. \A i \in Indexes' : Taken(i)'
    BY <1>1, StillTaken
<1>5. /\ ClaimTypeOK' /\ claims' \in Seq(Entries)
      /\ \A k \in Structural : Defines(k)'
  <2>1. fields \in SUBSET Indexes
      BY <1>2
  <2>2. reqs' \subseteq {"MUST", "MAY", "DEFINITION", "SHOULD NOT"} \X {"q1", "q2"}
    <3>1. <<"DEFINITION", "q1">> \in {"MUST", "MAY", "DEFINITION", "SHOULD NOT"} \X {"q1", "q2"}
        OBVIOUS
    <3> QED
        BY <1>1, <1>3, <3>1
  <2>3. parts' \subseteq Indexes /\ gaps' \subseteq Indexes
      BY <1>1, <1>2, <1>3, <2>1
  <2> HIDE DEF fields
  <2> QED
      BY <1>1, <2>1, <2>2, <2>3, StillTyped
<1>6. Placed({"protocol"})' /\ Placed({"message", "type", "transport"})'
  <2>1. Placed({"protocol"}) /\ Placed({"message", "type", "transport"})
      BY <1>1 DEF ClaimInv
  <2> QED
      BY <1>1, <2>1 DEF Placed
<1>7. Placed({"field"})'
    BY <1>1 DEF Placed, Defined
<1>8. \A i \in parts' : Evidenced(i)'
  <2>1. ASSUME NEW i \in parts PROVE Evidenced(i)'
    <3>1. Evidenced(i)
        BY DEF ClaimInv
    <3> QED
        BY <1>1, <3>1 DEF Evidenced, Of
  <2>2. ASSUME NEW i \in fields PROVE Evidenced(i)'
    <3>1. [claim |-> i, outcome |-> "target"] \in mapped'
        BY <1>1 DEF Record
    <3>2. <<"DEFINITION", "q1">> \in reqs'
        BY <1>1
    <3>3. nodes'["message"] \in parts'
        BY <1>1 DEF Compiled
    <3> QED
        BY <3>1, <3>2, <3>3 DEF Evidenced
  <2> QED
      BY <1>1, <2>1, <2>2
<1> QED
    BY <1>1, <1>4, <1>5, <1>6, <1>7, <1>8 DEF ClaimInv

\* No gap is removed but that of a claim whose level is preserved, or whose id
\* is that of such a claim; the sides of a conflict stay.
LEMMA BuildV4Step == ASSUME ClaimInv, BuildV4 PROVE ClaimInv'
<1>1. /\ claimAt = "v4" /\ claimAt' = "end"
      /\ reqs' = reqs \cup {<<Of(i).level, "q1">> : i \in Preserved}
      /\ gaps' = {i \in gaps : ~Excused(i)}
      /\ UNCHANGED <<claims, nodes, mapped, parts>>
    BY DEF BuildV4
<1>2. /\ gaps \subseteq Indexes /\ parts \subseteq Indexes
      /\ reqs \subseteq {"MUST", "MAY", "DEFINITION", "SHOULD NOT"} \X {"q1", "q2"}
      /\ \A i \in Indexes : Of(i) \in Claims
    BY DEF ClaimInv, ClaimTypeOK, Of
<1>3. \A i \in Indexes : Excused(i) => Unsupported(Of(i)) /\ (i \in Preserved \/ ClosedById(i))
    BY DEF Excused, ClosedById
<1>4. \A i \in Preserved : i \in Indexes /\ Of(i).level \in {"MAY", "SHOULD NOT"} /\ Of(i).kind \notin Structural
    BY <1>2, ClaimKinds DEF Preserved, Structural
<1>5. /\ ClaimTypeOK' /\ claims' \in Seq(Entries)
      /\ \A k \in Structural : Defines(k)'
  <2>1. reqs' \subseteq {"MUST", "MAY", "DEFINITION", "SHOULD NOT"} \X {"q1", "q2"}
    <3>1. \A i \in Preserved : <<Of(i).level, "q1">> \in {"MUST", "MAY", "DEFINITION", "SHOULD NOT"} \X {"q1", "q2"}
        BY <1>4
    <3> QED
      <4>1. {<<Of(i).level, "q1">> : i \in Preserved} \subseteq {"MUST", "MAY", "DEFINITION", "SHOULD NOT"} \X {"q1", "q2"}
          BY <3>1
      <4> QED
          BY <1>1, <1>2, <4>1
  <2>2. gaps' \subseteq Indexes
      BY <1>1, <1>2
  <2> QED
      BY <1>1, <1>2, <2>1, <2>2, StillTyped
<1>6. \A i \in gaps : /\ ~Unsupported(Of(i)) => i \in gaps'
                      /\ i \in gaps' \/ i \in Preserved \/ ClosedById(i)
    BY <1>1, <1>2, <1>3
<1>p. Preserved' = Preserved /\ \A i \in Nat : ClosedById(i)' <=> ClosedById(i)
  <2>1. Preserved' = Preserved
      BY <1>1 DEF Preserved, Indexes, Of
  <2> QED
      BY <1>1, <2>1 DEF ClosedById, Of
<1>7. \A x, y \in Nat : /\ Of(x)' = Of(x) /\ (Says(x, y)' <=> Says(x, y))
                        /\ (Same(x, y)' <=> Same(x, y)) /\ (Opposed(x, y)' <=> Opposed(x, y))
    BY <1>1 DEF Of, Says, Same, Opposed, Conflict
<1>8. /\ gaps \subseteq Nat /\ Indexes \subseteq Nat /\ Indexes' = Indexes
      /\ \A k \in Structural : nodes[k] \in Nat
    BY <1>1, IndexesAreNat DEF Indexes
<1>9. \A i \in Indexes' : Taken(i)'
  <2> SUFFICES ASSUME NEW i \in Indexes PROVE Taken(i)'
      BY <1>8
  <2>1. Taken(i) /\ Of(i)' = Of(i) /\ i \in Nat
      BY <1>7, <1>8 DEF ClaimInv
  <2>2. ASSUME Of(i).kind \in Structural PROVE Explained(i)' \/ ClosedById(i)
    <3>1. Explained(i)
        BY <1>1, <2>1, <2>2 DEF Taken
    <3>2. CASE nodes[Of(i).kind] # 0 /\ Says(nodes[Of(i).kind], i)
        BY <1>1, <1>7, <1>8, <2>1, <2>2, <3>2 DEF Explained
    <3>3. CASE i \in gaps
        BY <1>4, <1>6, <2>2, <3>3 DEF Explained
    <3>4. CASE \E g, h \in gaps : Says(g, i) /\ Same(g, h) /\ Opposed(g, h)
      <4>1. PICK g \in gaps, h \in gaps : Says(g, i) /\ Same(g, h) /\ Opposed(g, h)
          BY <3>4
      <4>2. g \in gaps' /\ h \in gaps'
          BY <1>6, <4>1 DEF Opposed
      <4>3. Says(g, i)' /\ Same(g, h)' /\ Opposed(g, h)'
          BY <1>7, <1>8, <2>1, <4>1
      <4> QED
          BY <4>2, <4>3 DEF Explained
    <3> QED
        BY <3>1, <3>2, <3>3, <3>4 DEF Explained
  <2>3. ASSUME Of(i).kind = "unsupported_candidate" PROVE i \in gaps' \/ i \in Preserved \/ ClosedById(i)
    <3>1. i \in gaps
        BY <1>1, <2>1, <2>3 DEF Taken
    <3> QED
        BY <1>6, <3>1
  <2>4. Of(i).kind = "requirement" => <<"MUST", Of(i).text>> \in reqs'
      BY <1>1, <2>1 DEF Taken
  <2> QED
      BY <1>1, <1>p, <2>1, <2>2, <2>3, <2>4 DEF Taken
<1>10. Placed({"protocol"})' /\ Placed({"message", "type", "transport"})' /\ Placed({"field"})'
  <2>1. \A k \in Structural : nodes[k] # 0 => nodes[k] \in parts \cup gaps
      BY <1>1 DEF ClaimInv, Placed, Structural
  <2>2. \A k \in Structural : nodes[k] # 0 => ~Unsupported(Of(nodes[k]))
      BY DEF ClaimInv, Defines, Unsupported, Structural
  <2>3. \A k \in Structural : nodes'[k] # 0 => nodes'[k] \in parts' \cup gaps'
      BY <1>1, <1>6, <2>1, <2>2
  <2> QED
      BY <2>3 DEF Placed, Structural
<1>11. \A i \in parts' : Evidenced(i)'
    BY <1>1 DEF ClaimInv, Evidenced, Of
<1> QED
    BY <1>1, <1>5, <1>9, <1>10, <1>11 DEF ClaimInv

LEMMA ClaimStep == ClaimInv /\ [ClaimNext]_claimVars => ClaimInv'
<1>1. ASSUME ClaimInv, UNCHANGED claimVars PROVE ClaimInv'
  <2>1. /\ ClaimTypeOK' /\ claims' \in Seq(Entries)
        /\ \A k \in Structural : Defines(k)'
      BY <1>1 DEF claimVars, ClaimInv, ClaimTypeOK, Indexes, Defines, Of
  <2>2. \A i \in Indexes' : Taken(i)'
      BY <1>1 DEF claimVars, ClaimInv, Indexes, Taken, Explained, Says, Same, Opposed, Conflict, Of,
                  Preserved, ClosedById
  <2>3. \A i \in parts' : Evidenced(i)'
      BY <1>1 DEF claimVars, ClaimInv, Evidenced, Of
  <2> QED
      BY <1>1, <2>1, <2>2, <2>3 DEF claimVars, ClaimInv, Placed
<1> QED
    BY <1>1, TakeClaimStep, TakeProtocolStep, TakeNodesStep, TakeFieldsStep, BuildV4Step DEF ClaimNext

LEMMA ClaimsAreExplained == ClaimInv => ClaimsAreKept
<1> SUFFICES ASSUME ClaimInv PROVE ClaimsAreKept
    OBVIOUS
<1>1. ClaimTypeOK /\ PartsAreEvidenced
    BY DEF ClaimInv, PartsAreEvidenced, Evidenced
<1>0. \A i \in Indexes : Of(i) \in Claims /\ Taken(i)
    BY DEF ClaimInv, ClaimTypeOK, Of
<1>2. ASSUME claimAt = "end", NEW i \in Indexes, NEW j \in Indexes, Same(i, j), ~Says(i, j), ~Says(j, i)
      PROVE \/ {i, j} \cap gaps # {}
            \/ \E k \in {i, j}, g, h \in gaps : Says(g, k) /\ Same(g, h) /\ Conflict(g, h)
            \/ LET kept == nodes[Of(i).kind] IN kept # 0 /\ Says(kept, i) /\ Says(kept, j)
            \/ ClosedById(i) \/ ClosedById(j)
  <2>1. /\ Of(i).kind = Of(j).kind
        /\ Explained(i) \/ ClosedById(i)
        /\ Explained(j) \/ ClosedById(j)
      BY <1>0, <1>2 DEF Same, Taken
  <2> QED
      BY <2>1 DEF Explained, Opposed
<1>3. ASSUME claimAt = "end", NEW i \in Indexes \ gaps
      PROVE Kept(i) \/ ClosedById(i)
  <2>1. Taken(i) /\ Of(i) \in Claims
      BY <1>0
  <2>2. CASE Of(i).kind \in Structural
    <3>1. Explained(i) \/ ClosedById(i)
        BY <2>1, <2>2 DEF Taken
    <3>2. nodes[Of(i).kind] # 0 => nodes[Of(i).kind] \in parts \cup gaps
        BY <1>3, <2>2 DEF ClaimInv, Placed, Structural
    <3> QED
        BY <3>1, <3>2 DEF Explained, Kept
  <2>3. CASE Of(i).kind \in {"requirement", "unsupported_candidate"}
      BY <1>3, <2>1, <2>3 DEF Taken, Kept
  <2> QED
      BY <2>1, <2>2, <2>3, ClaimKinds
<1>4. ConflictsStayOpen
    BY <1>2 DEF ConflictsStayOpen
<1>5. NothingIsLost
    BY <1>3 DEF NothingIsLost
<1> QED
    BY <1>1, <1>4, <1>5 DEF ClaimsAreKept

(* Of any number of claims, in whatever order they came and whatever ids    *)
(* the answers gave them, none is lost, and of two that contradict each    *)
(* other one side of a conflict is open, unless a claim that says both was *)
(* compiled, or the gap of one was closed through the id of another claim, *)
(* that says SHOULD NOT (compile_with_evidence and compile_v4).            *)
THEOREM NoClaimIsLost == ClaimSpec => []ClaimsAreKept
    BY ClaimsInit, ClaimStep, ClaimsAreExplained, PTL DEF ClaimSpec

-----------------------------------------------------------------------------
(* The merge of specifications.                                            *)

Increasing(f) == \A i, j \in DOMAIN f : i < j => f[i] < f[j]

LEMMA OneMorePosition ==
    ASSUME NEW T \in SUBSET Nat, NEW last \in Nat, \A k \in T : k < last,
           NEW n \in Nat, NEW f \in [1..n -> T], Increasing(f)
    PROVE  \E g \in [1..n + 1 -> T \cup {last}] : Increasing(g)
<1> DEFINE g == [i \in 1..n + 1 |-> IF i = n + 1 THEN last ELSE f[i]]
<1>1. \A i \in 1..n + 1 : i # n + 1 => i \in 1..n
    OBVIOUS
<1>2. \A i \in 1..n : f[i] \in T /\ f[i] < last
    OBVIOUS
<1>3. \A i \in 1..n + 1 : g[i] \in T \cup {last}
    BY <1>1, <1>2
<1>4. g \in [1..n + 1 -> T \cup {last}]
    BY <1>3
<1>5. ASSUME NEW i \in 1..n + 1, NEW j \in 1..n + 1, i < j PROVE g[i] < g[j]
  <2>1. i \in 1..n /\ g[i] = f[i]
      BY <1>5
  <2>2. CASE j = n + 1
      BY <1>2, <2>1, <2>2
  <2>3. CASE j # n + 1
      BY <1>1, <1>5, <2>1, <2>3 DEF Increasing
  <2> QED
      BY <2>2, <2>3
<1>6. DOMAIN g = 1..n + 1
    OBVIOUS
<1>7. Increasing(g)
    BY <1>5, <1>6 DEF Increasing
<1> QED
    BY <1>4, <1>7

LEMMA PositionsAreFinite ==
    ASSUME NEW m \in Nat, NEW S \in SUBSET (1..m)
    PROVE  IsFiniteSet(S) /\ Cardinality(S) \in Nat
<1>1. IsFiniteSet(1..m)
    BY FS_Interval
<1>2. IsFiniteSet(S)
    BY <1>1, FS_Subset
<1> QED
    BY <1>2, FS_CardinalityType

\* Positions of a sequence have an order: of a set of positions that had none
\* with the fewest elements, take the last one away.
LEMMA PositionsInOrder ==
    ASSUME NEW m \in Nat, NEW kept \in SUBSET (1..m)
    PROVE  /\ IsFiniteSet(kept) /\ Cardinality(kept) \in Nat
           /\ InOrder(kept) \in [1..Cardinality(kept) -> kept] /\ Increasing(InOrder(kept))
<1> DEFINE Ordered(S) == \E f \in [1..Cardinality(S) -> S] : Increasing(f)
           Bad == {n \in Nat : \E S \in SUBSET (1..m) : Cardinality(S) = n /\ ~Ordered(S)}
<1>1. Bad = {}
  <2> SUFFICES ASSUME Bad # {} PROVE FALSE
      OBVIOUS
  <2>1. Bad \in SUBSET Nat
      OBVIOUS
  <2> HIDE DEF Bad, Ordered
  <2>2. PICK n \in Bad : \A k \in Bad : n <= k
      BY <2>1, Smallest
  <2>3. PICK S \in SUBSET (1..m) : Cardinality(S) = n /\ ~Ordered(S)
      BY <2>2 DEF Bad
  <2>4. S \in SUBSET Nat /\ IsFiniteSet(S) /\ \A k \in S : k <= m
    <3>1. IsFiniteSet(S)
        BY PositionsAreFinite
    <3>2. S \in SUBSET Nat /\ \A k \in S : k <= m
        BY <2>3
    <3> QED
        BY <3>1, <3>2
  <2>5. S # {}
    <3>1. ASSUME S = {} PROVE Ordered(S)
      <4>1. Cardinality(S) = 0 /\ 1..0 = {}
          BY <3>1, FS_EmptySet
      <4>2. [i \in {} |-> i] \in [1..Cardinality(S) -> S] /\ Increasing([i \in {} |-> i])
          BY <4>1 DEF Increasing
      <4> QED
          BY <4>2 DEF Ordered
    <3> QED
        BY <2>3, <3>1
  <2>6. PICK last \in S : \A k \in S : k <= last
      BY <2>4, <2>5, Largest
  <2> DEFINE T == S \ {last}
  <2>7. T \in SUBSET (1..m) /\ Cardinality(T) \in Nat /\ Cardinality(T) = n - 1 /\ n \in Nat
    <3>1. T \in SUBSET (1..m) /\ n \in Nat
        BY <2>1
    <3>2. Cardinality(T) = Cardinality(S) - 1
        BY <2>4, <2>6, FS_RemoveElement
    <3>3. Cardinality(T) \in Nat
        BY <3>1, PositionsAreFinite
    <3> QED
        BY <2>3, <3>1, <3>2, <3>3
  <2>8. Ordered(T)
    <3>1. Cardinality(T) \notin Bad
        BY <2>2, <2>7
    <3> QED
        BY <2>7, <3>1 DEF Bad
  <2>9. PICK f \in [1..Cardinality(T) -> T] : Increasing(f)
      BY <2>8 DEF Ordered
  <2>10. T \in SUBSET Nat /\ last \in Nat /\ \A k \in T : k < last
      BY <2>4, <2>6
  <2>11. \E g \in [1..Cardinality(T) + 1 -> T \cup {last}] : Increasing(g)
    <3> HIDE DEF T
    <3> QED
        BY <2>7, <2>9, <2>10, OneMorePosition
  <2>12. Cardinality(T) + 1 = Cardinality(S) /\ T \cup {last} = S
      BY <2>3, <2>6, <2>7
  <2> QED
      BY <2>3, <2>11, <2>12 DEF Ordered
<1>2. IsFiniteSet(kept) /\ Cardinality(kept) \in Nat
    BY PositionsAreFinite
<1>3. Ordered(kept)
    BY <1>1, <1>2
<1> QED
    BY <1>2, <1>3 DEF InOrder, Increasing

\* What is left of the entries of a document: each is one of them, none has
\* an id that was seen, and an entry that is missing had an id that was seen.
LeftOf(entries, others, rest) ==
    /\ UniqueEntries(rest)
    /\ \A n \in DOMAIN rest : \E k \in DOMAIN others : rest[n] = others[k]
    /\ \A n \in DOMAIN rest, i \in DOMAIN entries : entries[i].id # rest[n].id
    /\ \A k \in DOMAIN others : \/ \E i \in DOMAIN entries : entries[i].id = others[k].id
                                \/ \E n \in DOMAIN rest : rest[n] = others[k]

LEMMA UnseenFacts ==
    ASSUME NEW S, NEW entries \in Seq(S), NEW others \in Seq(S), UniqueEntries(others)
    PROVE  Unseen(entries, others) \in Seq(S) /\ LeftOf(entries, others, Unseen(entries, others))
<1> DEFINE kept == {k \in DOMAIN others : \A i \in DOMAIN entries : entries[i].id # others[k].id}
           f == InOrder(kept)
           size == Cardinality(kept)
           rest == [n \in 1..size |-> others[f[n]]]
<1>1. DOMAIN others = 1..Len(others) /\ Len(others) \in Nat /\ kept \in SUBSET (1..Len(others))
    OBVIOUS
<1>2. Unseen(entries, others) = rest
    BY DEF Unseen
<1>3. \A k \in kept : k \in DOMAIN others /\ k \in Nat /\ others[k] \in S
    OBVIOUS
<1>4. \A k \in DOMAIN others : k \in kept \/ \E i \in DOMAIN entries : entries[i].id = others[k].id
    OBVIOUS
<1>5. \A k \in kept, i \in DOMAIN entries : entries[i].id # others[k].id
    OBVIOUS
<1> HIDE DEF kept
<1>6. IsFiniteSet(kept) /\ size \in Nat /\ f \in [1..size -> kept] /\ Increasing(f)
    BY <1>1, PositionsInOrder
<1>7. Cardinality(1..size) = size
    BY <1>6, FS_Interval
<1> HIDE DEF f, size
<1>8. \A i, j \in 1..size : f[i] = f[j] => i = j
  <2> SUFFICES ASSUME NEW i \in 1..size, NEW j \in 1..size, f[i] = f[j], i # j PROVE FALSE
      OBVIOUS
  <2>1. f[i] \in Nat /\ DOMAIN f = 1..size
      BY <1>3, <1>6
  <2>2. i < j \/ j < i
      BY <1>6
  <2> QED
      BY <1>6, <2>1, <2>2 DEF Increasing
<1>9. f \in Surjection(1..size, kept)
  <2>1. f \in Injection(1..size, kept)
      BY <1>6, <1>8 DEF Injection, IsInjective
  <2> QED
      BY <1>6, <1>7, <2>1, FS_Injection DEF size
<1>10. \A n \in 1..size : f[n] \in kept /\ rest[n] = others[f[n]]
    BY <1>6
<1>11. DOMAIN rest = 1..size
    OBVIOUS
<1>12. rest \in Seq(S)
  <2>1. \A n \in 1..size : others[f[n]] \in S
      BY <1>3, <1>10
  <2>2. rest \in [1..size -> S]
      BY <2>1
  <2> QED
      BY <1>6, <2>2, SeqDef
<1> HIDE DEF rest
<1>13. UniqueEntries(rest)
  <2> SUFFICES ASSUME NEW i \in 1..size, NEW j \in 1..size, rest[i].id = rest[j].id PROVE i = j
      BY <1>11 DEF UniqueEntries
  <2>1. f[i] \in DOMAIN others /\ f[j] \in DOMAIN others /\ others[f[i]].id = others[f[j]].id
      BY <1>3, <1>10
  <2>2. f[i] = f[j]
      BY <2>1 DEF UniqueEntries
  <2> QED
      BY <1>8, <2>2
<1>14. \A n \in DOMAIN rest : \E k \in DOMAIN others : rest[n] = others[k]
    BY <1>3, <1>10, <1>11
<1>15. \A n \in DOMAIN rest, i \in DOMAIN entries : entries[i].id # rest[n].id
    BY <1>5, <1>10, <1>11
<1>16. ASSUME NEW k \in kept PROVE \E n \in DOMAIN rest : rest[n] = others[k]
  <2>1. \E n \in 1..size : f[n] = k
      BY <1>9 DEF Surjection
  <2> QED
      BY <1>10, <1>11, <2>1
<1> QED
    BY <1>2, <1>4, <1>12, <1>13, <1>14, <1>15, <1>16 DEF LeftOf

\* The entries of one key after one more document.
JoinOf(entries, others, joined) ==
    /\ UniqueEntries(joined)
    /\ \A n \in DOMAIN joined : \/ \E i \in DOMAIN entries : joined[n] = entries[i]
                                \/ \E k \in DOMAIN others : joined[n] = others[k]
    /\ \A i \in DOMAIN entries : \E n \in DOMAIN joined : joined[n].id = entries[i].id
    /\ \A k \in DOMAIN others : \E n \in DOMAIN joined : joined[n].id = others[k].id

LEMMA JoinedEntries ==
    ASSUME NEW S, NEW entries \in Seq(S), NEW others \in Seq(S), UniqueEntries(entries), UniqueEntries(others)
    PROVE  /\ entries \o Unseen(entries, others) \in Seq(S)
           /\ JoinOf(entries, others, entries \o Unseen(entries, others))
<1> DEFINE rest == Unseen(entries, others)
           joined == entries \o rest
<1>1. rest \in Seq(S) /\ LeftOf(entries, others, rest)
    BY UnseenFacts
<1> HIDE DEF rest
<1>2. /\ joined \in Seq(S) /\ Len(joined) = Len(entries) + Len(rest)
      /\ \A n \in 1..Len(entries) : joined[n] = entries[n]
      /\ \A n \in 1..Len(rest) : joined[Len(entries) + n] = rest[n]
    BY <1>1
<1>3. /\ DOMAIN joined = 1..Len(entries) + Len(rest) /\ DOMAIN entries = 1..Len(entries)
      /\ DOMAIN rest = 1..Len(rest) /\ Len(entries) \in Nat /\ Len(rest) \in Nat
    BY <1>1, <1>2
<1> HIDE DEF joined
<1>4. \A n \in DOMAIN joined :
          \/ n \in DOMAIN entries /\ joined[n] = entries[n]
          \/ n - Len(entries) \in DOMAIN rest /\ joined[n] = rest[n - Len(entries)]
  <2> SUFFICES ASSUME NEW n \in DOMAIN joined, n \notin DOMAIN entries
               PROVE  n - Len(entries) \in DOMAIN rest /\ joined[n] = rest[n - Len(entries)]
      BY <1>2, <1>3
  <2>1. n - Len(entries) \in 1..Len(rest) /\ Len(entries) + (n - Len(entries)) = n
      BY <1>3
  <2> QED
      BY <1>2, <1>3, <2>1
<1>5. UniqueEntries(joined)
  <2> SUFFICES ASSUME NEW i \in DOMAIN joined, NEW j \in DOMAIN joined, joined[i].id = joined[j].id PROVE i = j
      BY DEF UniqueEntries
  <2> DEFINE size == Len(entries)
             Old(n) == n \in DOMAIN entries /\ joined[n] = entries[n]
             New(n) == n - size \in DOMAIN rest /\ joined[n] = rest[n - size]
  <2>1. i \in Nat /\ j \in Nat /\ size \in Nat
      BY <1>3
  <2>2. (Old(i) \/ New(i)) /\ (Old(j) \/ New(j))
      BY <1>4
  <2>3. CASE Old(i) /\ Old(j)
      BY <2>3 DEF UniqueEntries
  <2>4. CASE New(i) /\ New(j)
    <3>1. i - size = j - size
        BY <1>1, <2>4 DEF UniqueEntries, LeftOf
    <3> QED
        BY <2>1, <3>1
  <2>5. ~(Old(i) /\ New(j)) /\ ~(New(i) /\ Old(j))
      BY <1>1 DEF LeftOf
  <2> QED
      BY <2>2, <2>3, <2>4, <2>5
<1>6. \A i \in DOMAIN entries : i \in DOMAIN joined /\ joined[i] = entries[i]
    BY <1>2, <1>3
<1>7. \A n \in DOMAIN rest : Len(entries) + n \in DOMAIN joined /\ joined[Len(entries) + n] = rest[n]
    BY <1>2, <1>3
<1>8. \A n \in DOMAIN joined : \/ \E i \in DOMAIN entries : joined[n] = entries[i]
                               \/ \E k \in DOMAIN others : joined[n] = others[k]
    BY <1>1, <1>4 DEF LeftOf
<1>9. \A i \in DOMAIN entries : \E n \in DOMAIN joined : joined[n].id = entries[i].id
    BY <1>6
<1>10. \A k \in DOMAIN others : \E n \in DOMAIN joined : joined[n].id = others[k].id
  <2> SUFFICES ASSUME NEW k \in DOMAIN others PROVE \E n \in DOMAIN joined : joined[n].id = others[k].id
      OBVIOUS
  <2>1. CASE \E i \in DOMAIN entries : entries[i].id = others[k].id
      BY <1>9, <2>1
  <2>2. CASE \E n \in DOMAIN rest : rest[n] = others[k]
      BY <1>7, <2>2
  <2> QED
      BY <1>1, <2>1, <2>2 DEF LeftOf
<1>11. JoinOf(entries, others, joined)
    BY <1>5, <1>8, <1>9, <1>10 DEF JoinOf
<1> QED
    BY <1>2, <1>11 DEF joined, rest

\* Before the first document there is no message whose role could be unknown.
MergeInv == MergedIsValid /\ (specs = <<>> => out.messages = <<>>)

LEMMA MergeStarts == MergeInit => MergeInv
<1> SUFFICES ASSUME MergeInit PROVE MergeInv
    OBVIOUS
<1>1. /\ specs = <<>> /\ specs \in Seq(Specs) /\ Len(specs) = 0
      /\ out.requirements = <<>> /\ out.messages = <<>> /\ out.transport = <<>>
    BY DEF MergeInit, NoSpec
<1>2. <<>> \in Transports
    BY DEF Transports, BoundedSeq, SeqOf
<1>3. NoSpec \in [protocol : Protocols \cup {"none"}, roles : SUBSET Roles, requirements : Seq(Requirements),
                  messages : Seq(Messages), transport : Transports]
    BY <1>2 DEF NoSpec
<1>4. UniqueEntries(out.requirements) /\ UniqueEntries(out.messages) /\ Referenced(out) /\ RolesKnown(out)
    BY <1>1 DEF UniqueEntries, Referenced, RolesKnown
<1>5. MergeTypeOK
  <2>1. Len(specs) <= MaxSpecs
      BY <1>1, MergeAssumption
  <2> QED
      BY <1>1, <1>3, <2>1 DEF MergeInit, MergeTypeOK
<1> QED
    BY <1>1, <1>4, <1>5 DEF MergeInv, MergedIsValid

\* What a specification is that the lint accepts.
LEMMA SpecFacts ==
    ASSUME NEW s \in Specs
    PROVE  /\ s.protocol \in Protocols /\ s.roles \in SUBSET Roles /\ s.transport \in Transports
           /\ s.requirements \in Seq(Requirements) /\ s.messages \in Seq(Messages)
           /\ UniqueEntries(s.requirements) /\ UniqueEntries(s.messages)
           /\ Referenced(s) /\ RolesKnown(s)
<1>1. /\ s.requirements \in BoundedSeq(Requirements, MaxEntries)
      /\ s.messages \in BoundedSeq(Messages, MaxEntries)
      /\ s.protocol \in Protocols /\ s.roles \in SUBSET Roles /\ s.transport \in Transports
      /\ UniqueEntries(s.requirements) /\ UniqueEntries(s.messages)
      /\ Referenced(s) /\ RolesKnown(s)
    BY DEF Specs
<1> QED
    BY <1>1, MergeAssumption DEF BoundedSeq, SeqOf

\* A message of either side refers to an id that its own side has, and no id is
\* lost in the union; its role is one of its own side's.
LEMMA TakeStep == ASSUME MergeInv, Take PROVE MergeInv'
<1>1. CASE UNCHANGED <<specs, out>>
    BY <1>1 DEF Take, MergeInv, MergedIsValid, MergeTypeOK
<1>2. ASSUME NEW spec \in Specs, ~failed, Len(specs) < MaxSpecs, specs' = Append(specs, spec),
             out' = Merged(spec), failed' = failed
      PROVE  MergeInv'
  <2>1. /\ out.roles \in SUBSET Roles /\ out.transport \in Transports
        /\ out.requirements \in Seq(Requirements) /\ out.messages \in Seq(Messages)
        /\ UniqueEntries(out.requirements) /\ UniqueEntries(out.messages) /\ Referenced(out)
      BY DEF MergeInv, MergedIsValid, MergeTypeOK
  <2>2. /\ spec.protocol \in Protocols /\ spec.roles \in SUBSET Roles /\ spec.transport \in Transports
        /\ spec.requirements \in Seq(Requirements) /\ spec.messages \in Seq(Messages)
        /\ UniqueEntries(spec.requirements) /\ UniqueEntries(spec.messages)
        /\ Referenced(spec) /\ RolesKnown(spec)
      BY SpecFacts
  <2> DEFINE rs == out.requirements \o Unseen(out.requirements, spec.requirements)
             ms == out.messages \o Unseen(out.messages, spec.messages)
             known == IF specs = <<>> THEN spec.roles ELSE out.roles
             last == IF spec.transport = <<>> THEN out.transport ELSE spec.transport
  <2>3. out' = [protocol |-> spec.protocol, roles |-> known, requirements |-> rs, messages |-> ms,
                transport |-> last]
      BY <1>2 DEF Merged
  <2>4. rs \in Seq(Requirements) /\ JoinOf(out.requirements, spec.requirements, rs)
      BY <2>1, <2>2, JoinedEntries
  <2>5. ms \in Seq(Messages) /\ JoinOf(out.messages, spec.messages, ms)
      BY <2>1, <2>2, JoinedEntries
  <2> HIDE DEF rs, ms
  <2>6. \A n \in DOMAIN ms : \E j \in DOMAIN rs : ms[n].req = rs[j].id
    <3> SUFFICES ASSUME NEW n \in DOMAIN ms PROVE \E j \in DOMAIN rs : ms[n].req = rs[j].id
        OBVIOUS
    <3>1. \/ \E j \in DOMAIN out.requirements : ms[n].req = out.requirements[j].id
          \/ \E j \in DOMAIN spec.requirements : ms[n].req = spec.requirements[j].id
      <4>1. CASE \E i \in DOMAIN out.messages : ms[n] = out.messages[i]
          BY <2>1, <4>1 DEF Referenced
      <4>2. CASE \E k \in DOMAIN spec.messages : ms[n] = spec.messages[k]
          BY <2>2, <4>2 DEF Referenced
      <4> QED
          BY <2>5, <4>1, <4>2 DEF JoinOf
    <3> QED
        BY <2>4, <3>1 DEF JoinOf
  <2>7. known \in SUBSET Roles /\ last \in Transports
      BY <2>1, <2>2
  <2>8. \A i \in DOMAIN last : \E j \in DOMAIN rs : last[i] = rs[j].id
    <3> SUFFICES ASSUME NEW i \in DOMAIN last PROVE \E j \in DOMAIN rs : last[i] = rs[j].id
        OBVIOUS
    <3>1. CASE spec.transport = <<>>
        BY <2>1, <2>4, <3>1 DEF Referenced, JoinOf
    <3>2. CASE spec.transport # <<>>
        BY <2>2, <2>4, <3>2 DEF Referenced, JoinOf
    <3> QED
        BY <3>1, <3>2
  <2> HIDE DEF last
  <2>9. specs \in Seq(Specs) /\ MaxSpecs \in Nat /\ specs' \in Seq(Specs) /\ Len(specs') = Len(specs) + 1
      BY <1>2, MergeAssumption DEF MergeInv, MergedIsValid, MergeTypeOK
  <2>10. Len(specs') <= MaxSpecs /\ failed' \in BOOLEAN /\ specs' # <<>>
      BY <1>2, <2>9 DEF MergeInv, MergedIsValid, MergeTypeOK
  <2>11. ASSUME \A i \in DOMAIN specs' : specs'[i].roles \subseteq known PROVE \A n \in DOMAIN ms : ms[n].role \in known
    <3>1. \A i \in DOMAIN specs : i \in DOMAIN specs' /\ specs'[i] = specs[i]
        BY <1>2, <2>9
    <3>2. Len(specs) + 1 \in DOMAIN specs' /\ specs'[Len(specs) + 1] = spec
        BY <1>2, <2>9
    <3>3. \A k \in DOMAIN spec.messages : spec.messages[k].role \in known
        BY <2>2, <2>11, <3>2 DEF RolesKnown
    <3>4. \A k \in DOMAIN out.messages : out.messages[k].role \in known
      <4>1. CASE specs = <<>>
          BY <4>1 DEF MergeInv
      <4>2. CASE specs # <<>>
        <5>1. known = out.roles /\ \A i \in DOMAIN specs : specs[i].roles \subseteq out.roles
            BY <2>11, <3>1, <4>2
        <5> QED
            BY <5>1 DEF MergeInv, MergedIsValid, RolesKnown
      <4> QED
          BY <4>1, <4>2
    <3> QED
        BY <2>5, <3>3, <3>4 DEF JoinOf
  <2> HIDE DEF known
  <2>12. out' \in [protocol : Protocols \cup {"none"}, roles : SUBSET Roles, requirements : Seq(Requirements),
                   messages : Seq(Messages), transport : Transports]
      BY <2>2, <2>3, <2>4, <2>5, <2>7
  <2>13. Referenced(out)'
      BY <2>3, <2>6, <2>8 DEF Referenced
  <2>14. ((\A i \in DOMAIN specs : specs[i].roles \subseteq out.roles) => RolesKnown(out))'
      BY <2>3, <2>11 DEF RolesKnown
  <2>15. UniqueEntries(out.requirements)' /\ UniqueEntries(out.messages)'
      BY <2>3, <2>4, <2>5 DEF UniqueEntries, JoinOf
  <2>16. MergeTypeOK'
      BY <2>9, <2>10, <2>12 DEF MergeTypeOK
  <2> QED
      BY <2>10, <2>13, <2>14, <2>15, <2>16 DEF MergeInv, MergedIsValid
<1> QED
    BY <1>1, <1>2 DEF Take

(* The merge of any number of valid specifications, of any entries and     *)
(* roles, has unique ids and no dangling reference to a requirement, and   *)
(* knows the roles of its messages if the first document has the roles of  *)
(* the others (merge_specs, lint_spec).                                    *)
THEOREM MergeStaysValid == MergeSpec => []MergedIsValid
<1>1. MergeInv /\ [Take]_mergeVars => MergeInv'
  <2>1. MergeInv /\ UNCHANGED mergeVars => MergeInv'
      BY DEF mergeVars, MergeInv, MergedIsValid, MergeTypeOK
  <2> QED
      BY <2>1, TakeStep
<1>2. MergeInv => MergedIsValid
    BY DEF MergeInv
<1> QED
    BY MergeStarts, <1>1, <1>2, PTL DEF MergeSpec
=============================================================================
