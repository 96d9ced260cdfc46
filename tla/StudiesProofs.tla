---------------------------- MODULE StudiesProofs ---------------------------
(***************************************************************************)
(* Theorems about the experiments: the batches of SampleQueue, the paired  *)
(* study of ActionStudy and the streamed answers of StreamedCall, for      *)
(* every value of their constants.                                         *)
(***************************************************************************)
EXTENDS SampleQueue, ActionStudy, StreamedCall, FunctionTheorems, FiniteSetTheorems, WellFoundedInduction, TLAPS

(***************************************************************************)
(* SampleQueue, for every set of candidates, numbers of                    *)
(* probes and public sessions, changes by a person and stages that are     *)
(* started by hand, under crashes and interrupts.                          *)
(*                                                                         *)
(* The invariant has a part for every batch, about values: where its       *)
(* process is (a), its stage (s), copy (m), record (d), row (r), whether   *)
(* all rows were good (g), and the runs (rs).  A step of another batch     *)
(* leaves these values as they are.                                        *)
(***************************************************************************)
Steps == {"idle", "boot", "archive", "freeze", "pay", "compare", "new", "list",
           "run", "audit", "copy", "recheck", "spawn", "wait", "save"}

RunKey(b, s, r) == [batch |-> b, stage |-> s, row |-> r]

\* What may have spent is listed.
Calls(b, d, rs) == \A k \in DOMAIN rs : k.batch = b /\ rs[k].called => k \in d.runs /\ d.paid

\* What a record may say by itself: no stage before those it needs.
Sound(d) ==
    /\ \A t \in Stages : Passes(d, t) => d.stages[t].state = "complete"
    /\ \A t \in Generation \cup {"parallel"} : Attempted(d, t) => Passes(d, "freeze")
    /\ Attempted(d, "freeze") => \A t \in Study : Passes(d, t)
    /\ d.status => /\ \A t \in Study \cup {"freeze"} : Passes(d, t)
                   /\ (\A t \in Generation : Passes(d, t)) \/ Passes(d, "parallel")

\* The runs behind a stage that has passed.
Backed(b, t, d, rs) ==
    Passes(d, t) =>
        /\ t \in Generation =>
              /\ RunKey(b, t, 1) \in DOMAIN rs /\ rs[RunKey(b, t, 1)].status = "success"
              /\ rs[RunKey(b, t, 1)].audited # "none"
              /\ rs[RunKey(b, t, 1)].made = d.stages["freeze"].candidate
              /\ d.stages[t].candidate = rs[RunKey(b, t, 1)].made
        /\ t = "capability" /\ b = Top =>
              \A i \in 1..CapabilityRows : RunKey(b, t, i) \in DOMAIN rs /\ rs[RunKey(b, t, i)].called

\* The copy of a process differs from the record in the stage at work, and
\* may have more runs.
Copied(s, m, d) ==
    /\ \A t \in Stages \ {s} : m.stages[t] = d.stages[t]
    /\ d.stages[s] = Started /\ Attempted(m, s) /\ (Passes(m, s) => m.stages[s].state = "complete")
    /\ m.admission = d.admission /\ m.child = d.child /\ m.paid = d.paid /\ m.status = d.status
    /\ d.runs \subseteq m.runs

\* What is known of a run at each place of the program.
Placed(b, a, s, m, d, r, g, rs) ==
    /\ a = "freeze" => s = "freeze"
    /\ a \in {"compare", "audit", "copy", "recheck"} => s \in Generation
    /\ a \in {"spawn", "wait"} => s = "parallel"
    /\ a \in {"new", "list", "run"} => s \in Study \cup Generation
    /\ a = "pay" => r = 1 /\ s # "freeze"
    /\ s \in Generation => r = 1
    /\ a \notin {"freeze", "pay", "save"} => m.paid
    /\ a \in {"list", "run", "audit", "copy", "recheck"} => RunKey(b, s, r) \in DOMAIN rs
    /\ a = "run" => RunKey(b, s, r) \in d.runs
    /\ a \in {"audit", "copy", "recheck"} => rs[RunKey(b, s, r)].status = "success"
    /\ a \in {"audit", "copy"} => rs[RunKey(b, s, r)].delivery # "none"
    /\ a \in {"copy", "recheck"} => rs[RunKey(b, s, r)].made = m.stages["freeze"].candidate
    /\ a = "recheck" => rs[RunKey(b, s, r)].audited # "none"
    /\ a \in {"pay", "new", "list", "run"} /\ s = "capability" =>
          /\ r \in 1..CapabilityRows
          /\ g => \A i \in 1..(r - 1) : RunKey(b, s, i) \in DOMAIN rs /\ rs[RunKey(b, s, i)].called

Working(b, a, s, m, d, r, g, rs) ==
    /\ Copied(s, m, d)
    /\ IF a = "save" THEN Backed(b, s, m, rs) ELSE m.stages[s] = Started
    /\ Placed(b, a, s, m, d, r, g, rs)

Local(b, a, s, m, d, r, g, rs) ==
    /\ a \in Steps /\ s \in Stages /\ m \in Records /\ d \in Records /\ r \in Nat /\ g \in BOOLEAN
    /\ Calls(b, d, rs) /\ Sound(d) /\ \A t \in Stages : Backed(b, t, d, rs)
    /\ a = "archive" => Passes(d, s) /\ r = 1
    /\ a \notin {"idle", "boot", "archive"} => Working(b, a, s, m, d, r, g, rs)

AllLocal == \A b \in Batches : Local(b, at[b], stage[b], mem[b], disk[b], row[b], good[b], runs)

-----------------------------------------------------------------------------
(* The batch and its children.                                             *)

\* A child that was not started yet.
Fresh(c) == disk[c] = NoRecord /\ at[c] = "idle"

\* Children that were waited for: they have ended, and their runs are listed.
WaitedFor(n, listed) ==
    \A i \in 1..n : at[Children[i]] \in {"idle", "archive"} /\ disk[Children[i]].runs \subseteq listed

HavePassed(n) == \A i \in 1..n : Passes(disk[Children[i]], ChildStage[i])

Family ==
    /\ disk[Top].admission = 0 => disk[Top] = NoRecord /\ at[Top] = "idle"
    /\ ~Attempted(disk[Top], "parallel") \/ (at[Top] = "pay" /\ stage[Top] = "parallel")
          => \A i \in 1..3 : Fresh(Children[i])
    /\ at[Top] = "spawn" => row[Top] \in 1..3 /\ \A i \in row[Top]..3 : Fresh(Children[i])
    /\ at[Top] = "wait" => /\ row[Top] \in 1..3 /\ WaitedFor(row[Top] - 1, mem[Top].runs)
                           /\ good[Top] => HavePassed(row[Top] - 1)
    /\ at[Top] = "save" /\ stage[Top] = "parallel" =>
          /\ mem[Top].stages["parallel"].state = "complete" => WaitedFor(3, mem[Top].runs)
          /\ Passes(mem[Top], "parallel") => HavePassed(3)
    /\ disk[Top].stages["parallel"].state = "complete" => WaitedFor(3, disk[Top].runs)
    /\ Passes(disk[Top], "parallel") => HavePassed(3)

Archives ==
    \A a \in archived : /\ a.run.batch \in Batches /\ a.run.stage \in Stages
                        /\ Passes(disk[a.run.batch], a.run.stage)

Typed ==
    /\ world \in Versions /\ changes \in 0..MaxChanges /\ edits \in 0..MaxEdits
    /\ loaded \in [Batches -> Versions \cup {0}]
    /\ \A b \in Batches : at[b] \in {"idle", "archive"} \/ loaded[b] # 0
    /\ disk \in [Batches -> Records] /\ mem \in [Batches -> Records]
    /\ at \in [Batches -> Steps] /\ stage \in [Batches -> Stages]
    /\ row \in [Batches -> Nat] /\ good \in [Batches -> BOOLEAN] /\ exit \in [Batches -> BOOLEAN]
    /\ runs \in [DOMAIN runs -> Runs] /\ DOMAIN runs \subseteq Keys

QueueInv == Typed /\ AllLocal /\ Family /\ Archives

-----------------------------------------------------------------------------
(* Records.                                                                *)

Outcomes == [state : {"none", "running", "complete", "failed"}, status : BOOLEAN,
             candidate : Versions \cup {0}]

LEMMA OutcomeFacts ==
    /\ NotAttempted \in Outcomes /\ NotAttempted.state = "none" /\ NotAttempted.status = FALSE
    /\ Started \in Outcomes /\ Started.state = "running" /\ Started.status = FALSE
    /\ Failed \in Outcomes /\ Failed.state = "failed" /\ Failed.status = FALSE
    /\ \A ok \in BOOLEAN, v \in Versions \cup {0} :
          /\ Completed(ok, v) \in Outcomes /\ Completed(ok, v).state = "complete"
          /\ Completed(ok, v).status = ok /\ Completed(ok, v).candidate = v
  BY DEF Outcomes, NotAttempted, Started, Failed, Completed

LEMMA RecordFacts ==
    ASSUME NEW d \in Records
    PROVE  /\ d.admission \in Versions \cup {0} /\ d.child \in BOOLEAN /\ d.paid \in BOOLEAN
           /\ d.runs \in SUBSET Keys /\ d.status \in BOOLEAN /\ d.stages \in [Stages -> Outcomes]
           /\ \A t \in Stages : d.stages[t] \in Outcomes /\ d.stages[t].status \in BOOLEAN
  BY DEF Records, Outcomes

LEMMA NoRecordFacts ==
    /\ NoRecord \in Records /\ NoRecord.admission = 0 /\ NoRecord.runs = {} /\ NoRecord.status = FALSE
    /\ \A t \in Stages : ~Attempted(NoRecord, t) /\ ~Passes(NoRecord, t)
    /\ NoRecord.child = FALSE /\ NoRecord.paid = FALSE
  BY OutcomeFacts DEF NoRecord, Records, Outcomes, Attempted, Passes

LEMMA StageNames ==
    /\ Study \subseteq Stages /\ Generation \subseteq Stages /\ "freeze" \in Stages /\ "parallel" \in Stages
    /\ "capability" \in Study /\ SerialStages = Study \cup {"freeze"} \cup Generation
    /\ "freeze" \notin Study /\ "freeze" \notin Generation /\ "parallel" \notin Study
    /\ "parallel" \notin Generation /\ Study \cap Generation = {}
  BY DEF Study, Generation, Stages, SerialStages

\* A record with another outcome of one stage.
LEMMA StageSet ==
    ASSUME NEW d \in Records, NEW s \in Stages, NEW o \in Outcomes
    PROVE  LET e == [d EXCEPT !.stages[s] = o] IN
           /\ e \in Records /\ e.stages[s] = o /\ \A t \in Stages \ {s} : e.stages[t] = d.stages[t]
           /\ e.admission = d.admission /\ e.child = d.child /\ e.paid = d.paid
           /\ e.runs = d.runs /\ e.status = d.status
<1> DEFINE f == [d.stages EXCEPT ![s] = o]
           e == [d EXCEPT !.stages = f]
<1>1. d.stages \in [Stages -> Outcomes]
    BY RecordFacts
<1>2. f \in [Stages -> Outcomes] /\ f[s] = o /\ \A t \in Stages \ {s} : f[t] = d.stages[t]
    BY <1>1
<1>3. e = [d EXCEPT !.stages[s] = o]
    OBVIOUS
<1> HIDE DEF f
<1>4. /\ e \in Records /\ e.stages = f
      /\ e.admission = d.admission /\ e.child = d.child /\ e.paid = d.paid
      /\ e.runs = d.runs /\ e.status = d.status
    BY <1>2 DEF Records, Outcomes
<1> HIDE DEF e
<1> QED
    BY <1>2, <1>3, <1>4

\* What keeps a process where it is: runs of its batch that keep their facts.
SameRuns(b, rs, q) ==
    \A k \in Keys : k.batch = b =>
        /\ k \in DOMAIN rs <=> k \in DOMAIN q
        /\ k \in DOMAIN rs => /\ q[k].made = rs[k].made /\ q[k].called = rs[k].called
                              /\ q[k].status = rs[k].status /\ q[k].audited = rs[k].audited
                              /\ rs[k].delivery # "none" => q[k].delivery # "none"

LEMMA RunKeys ==
    ASSUME NEW b \in Batches, NEW s \in Stages, NEW r \in Nat
    PROVE  /\ RunKey(b, s, r) \in Keys /\ RunKey(b, s, r).batch = b /\ RunKey(b, s, r).stage = s
           /\ RunKey(b, s, r).row = r
  BY DEF RunKey, Keys

LEMMA LocalOnRuns ==
    ASSUME NEW b \in Batches, NEW a, NEW s, NEW m, NEW d, NEW r, NEW g, NEW rs, NEW q,
           Local(b, a, s, m, d, r, g, rs), SameRuns(b, rs, q), DOMAIN q \subseteq Keys
    PROVE  Local(b, a, s, m, d, r, g, q)
<1>1. /\ a \in Steps /\ s \in Stages /\ m \in Records /\ d \in Records /\ r \in Nat /\ g \in BOOLEAN
      /\ Calls(b, d, rs) /\ Sound(d)
    BY DEF Local
<1>2. Calls(b, d, q)
    BY <1>1 DEF Calls, SameRuns
<1>3. ASSUME NEW t \in Stages, NEW e, Backed(b, t, e, rs)
      PROVE  Backed(b, t, e, q)
  <2>1. CapabilityRows \in Nat
      BY RowsAssumption
  <2>2. RunKey(b, t, 1) \in Keys /\ RunKey(b, t, 1).batch = b
      BY RunKeys
  <2>3. \A i \in 1..CapabilityRows : RunKey(b, t, i) \in Keys /\ RunKey(b, t, i).batch = b
      BY <2>1, RunKeys
  <2> QED
      BY <1>3, <2>2, <2>3 DEF Backed, SameRuns
<1>4. ASSUME a \notin {"idle", "boot", "archive"}, Working(b, a, s, m, d, r, g, rs)
      PROVE  Working(b, a, s, m, d, r, g, q)
  <2>1. RunKey(b, s, r) \in Keys /\ RunKey(b, s, r).batch = b
      BY <1>1, RunKeys
  <2>2. \A i \in 1..(r - 1) : RunKey(b, s, i) \in Keys /\ RunKey(b, s, i).batch = b
      BY <1>1, RunKeys
  <2>3. Placed(b, a, s, m, d, r, g, q)
      BY <1>4, <2>1, <2>2 DEF Placed, SameRuns, Working
  <2> QED
      BY <1>1, <1>3, <1>4, <2>3 DEF Working
<1> QED
    BY <1>1, <1>2, <1>3, <1>4 DEF Local

\* What the gates let through.
LEMMA GateFacts ==
    ASSUME NEW d \in Records, Sound(d), NEW s \in Stages, Gate(d, s)
    PROVE  /\ ~Attempted(d, s) /\ (s \in Generation \cup {"parallel"} => Passes(d, "freeze"))
           /\ s = "freeze" => \A t \in Study : Passes(d, t)
<1>1. ~Attempted(d, s)
    BY DEF Gate
<1>2. CASE d.child /\ s \in {"mqtt-first", "http"}
    BY <1>1, <1>2, Zenon DEF Gate
<1>3. CASE ~(d.child /\ s \in {"mqtt-first", "http"})
  <2>1. \A p \in Predecessors(s) : Passes(d, p)
      BY <1>3 DEF Gate
  <2>2. s \in {"parallel", "mqtt-first"} => Passes(d, "freeze")
      BY <2>1 DEF Predecessors
  <2>3. s = "freeze" => \A t \in Study : Passes(d, t)
      BY <2>1 DEF Predecessors
  <2>4. s \in {"mqtt-repeat-1", "mqtt-repeat-2", "http"} => Passes(d, "mqtt-first")
      BY <2>1 DEF Predecessors
  <2>5. Passes(d, "mqtt-first") => Passes(d, "freeze")
      BY StageNames DEF Sound, Attempted, Generation
  <2> QED
      BY <1>1, <2>2, <2>3, <2>4, <2>5 DEF Generation
<1> QED
    BY <1>2, <1>3

\* A record stays sound when a stage that the gates let through is attempted.
LEMMA BeginSound ==
    ASSUME NEW d \in Records, Sound(d), NEW s \in Stages, Gate(d, s)
    PROVE  Sound([d EXCEPT !.stages[s] = Started])
<1> DEFINE e == [d EXCEPT !.stages[s] = Started]
<1>1. /\ e \in Records /\ e.stages[s] = Started /\ \A t \in Stages \ {s} : e.stages[t] = d.stages[t]
      /\ e.status = d.status
    BY OutcomeFacts, StageSet
<1> HIDE DEF e
<1>2. /\ Attempted(e, s) /\ ~Passes(e, s) /\ ~Passes(d, s) /\ ~Attempted(d, s)
      /\ \A t \in Stages \ {s} : (Attempted(e, t) <=> Attempted(d, t)) /\ (Passes(e, t) <=> Passes(d, t))
  <2>1. ~Attempted(d, s)
      BY GateFacts
  <2>2. Passes(d, s) => d.stages[s].state = "complete"
      BY DEF Sound
  <2> QED
      BY <1>1, <2>1, <2>2, OutcomeFacts DEF Attempted, Passes
<1>3. \A t \in Stages : Passes(e, t) => Passes(d, t) /\ e.stages[t].state = "complete"
    BY <1>1, <1>2 DEF Sound
<1>4. \A t \in Stages : Passes(d, t) => Passes(e, t)
    BY <1>2
<1>5. ASSUME NEW t \in Generation \cup {"parallel"}, Attempted(e, t)
      PROVE  Passes(e, "freeze")
  <2>1. Passes(d, "freeze")
      BY <1>2, <1>5, GateFacts, StageNames DEF Sound
  <2> QED
      BY <1>4, <2>1, StageNames
<1>6. ASSUME Attempted(e, "freeze") PROVE \A t \in Study : Passes(e, t)
  <2>1. \A t \in Study : Passes(d, t)
      BY <1>2, <1>6, GateFacts, StageNames DEF Sound
  <2> QED
      BY <1>4, <2>1, StageNames
<1>7. ASSUME e.status
      PROVE  /\ \A t \in Study \cup {"freeze"} : Passes(e, t)
             /\ (\A t \in Generation : Passes(e, t)) \/ Passes(e, "parallel")
  <2>1. /\ \A t \in Study \cup {"freeze"} : Passes(d, t)
        /\ (\A t \in Generation : Passes(d, t)) \/ Passes(d, "parallel")
      BY <1>1, <1>7 DEF Sound
  <2> QED
      BY <1>4, <2>1, StageNames
<1>8. Sound(e)
    BY <1>3, <1>5, <1>6, <1>7 DEF Sound
<1> QED
    BY <1>8 DEF e

\* So is the copy of a process, whose stage at work has passed or not, and the
\* record it concludes with.
LEMMA CopySound ==
    ASSUME NEW d \in Records, Sound(d), NEW m \in Records, NEW s \in Stages, Copied(s, m, d)
    PROVE  /\ Sound(m)
           /\ \A t \in Stages : Passes(d, t) => Passes(m, t) /\ t # s
           /\ \A t \in Stages : Attempted(d, t) <=> Attempted(m, t)
<1>1. \A t \in Stages \ {s} : (Attempted(m, t) <=> Attempted(d, t)) /\ (Passes(m, t) <=> Passes(d, t))
    BY DEF Copied, Attempted, Passes
<1>2. Attempted(d, s) /\ Attempted(m, s) /\ ~Passes(d, s)
    BY OutcomeFacts DEF Copied, Attempted, Passes
<1>3. \A t \in Stages : Passes(d, t) => Passes(m, t) /\ t # s
    BY <1>1, <1>2
<1>4. \A t \in Stages : Attempted(d, t) <=> Attempted(m, t)
    BY <1>1, <1>2
<1>5. \A t \in Stages : Passes(m, t) => m.stages[t].state = "complete"
  <2> TAKE t \in Stages
  <2>1. CASE t = s
      BY <2>1 DEF Copied
  <2>2. CASE t # s
      BY <1>1, <2>2 DEF Copied, Sound
  <2> QED
      BY <2>1, <2>2
<1>6. \A t \in Generation \cup {"parallel"} : Attempted(m, t) => Passes(m, "freeze")
    BY <1>3, <1>4, StageNames DEF Sound
<1>7. Attempted(m, "freeze") => \A t \in Study : Passes(m, t)
    BY <1>3, <1>4, StageNames DEF Sound
<1>8. m.status => /\ \A t \in Study \cup {"freeze"} : Passes(m, t)
                  /\ (\A t \in Generation : Passes(m, t)) \/ Passes(m, "parallel")
    BY <1>3, StageNames DEF Sound, Copied
<1> QED
    BY <1>3, <1>4, <1>5, <1>6, <1>7, <1>8 DEF Sound

LEMMA ConcludedSound ==
    ASSUME NEW m \in Records, Sound(m)
    PROVE  /\ Sound(Concluded(m)) /\ Concluded(m) \in Records /\ Concluded(m).stages = m.stages
           /\ Concluded(m).runs = m.runs /\ Concluded(m).paid = m.paid
           /\ Concluded(m).admission = m.admission /\ Concluded(m).child = m.child
<1> DEFINE e == Concluded(m)
<1>1. Summary(m) \in BOOLEAN
  <2>1. \A t \in Stages : Passes(m, t) \in BOOLEAN
      BY RecordFacts DEF Passes
  <2>2. CASE Attempted(m, "parallel")
      BY <2>1, <2>2, StageNames DEF Summary
  <2>3. CASE ~Attempted(m, "parallel")
    <3>1. Summary(m) = \A s \in SerialStages : Passes(m, s)
        BY <2>3 DEF Summary
    <3>2. (\A s \in SerialStages : Passes(m, s)) \in BOOLEAN
        OBVIOUS
    <3> QED
        BY <3>1, <3>2, Zenon
  <2> QED
      BY <2>2, <2>3
<1>2. /\ e \in Records /\ e.stages = m.stages /\ e.runs = m.runs /\ e.paid = m.paid
      /\ e.admission = m.admission /\ e.child = m.child /\ e.status = Summary(m)
    BY <1>1 DEF Concluded, Records
<1> HIDE DEF e
<1>3. \A t : (Attempted(e, t) <=> Attempted(m, t)) /\ (Passes(e, t) <=> Passes(m, t))
    BY <1>2 DEF Attempted, Passes
<1>4. ASSUME Summary(m)
      PROVE  /\ \A t \in Study \cup {"freeze"} : Passes(m, t)
             /\ (\A t \in Generation : Passes(m, t)) \/ Passes(m, "parallel")
  <2>1. CASE Attempted(m, "parallel")
    <3>1. Passes(m, "parallel") /\ Passes(m, "freeze")
        BY <1>4, <2>1 DEF Summary, Sound
    <3>2. Attempted(m, "freeze")
        BY <3>1, StageNames DEF Sound, Attempted
    <3> QED
        BY <3>1, <3>2 DEF Sound
  <2>2. CASE ~Attempted(m, "parallel")
      BY <1>4, <2>2, StageNames DEF Summary
  <2> QED
      BY <2>1, <2>2
<1>5. Sound(e)
    BY <1>2, <1>3, <1>4 DEF Sound
<1> QED
    BY <1>2, <1>5 DEF e

-----------------------------------------------------------------------------
(* What the operations do to the values of a batch.                        *)

\* Runs that differ in the run at work only.
SameBut(b, s, r, rs, q) ==
    \A k \in Keys \ {RunKey(b, s, r)} :
        /\ k \in DOMAIN rs <=> k \in DOMAIN q
        /\ k \in DOMAIN rs => /\ q[k].made = rs[k].made /\ q[k].called = rs[k].called
                              /\ q[k].status = rs[k].status /\ q[k].audited = rs[k].audited

LEMMA AtWork ==
    ASSUME NEW b, NEW a, NEW s, NEW m, NEW d, NEW r, NEW g, NEW rs,
           Local(b, a, s, m, d, r, g, rs), a \notin {"idle", "boot", "archive"}
    PROVE  /\ s \in Stages /\ m \in Records /\ d \in Records /\ r \in Nat /\ g \in BOOLEAN
           /\ Calls(b, d, rs) /\ Sound(d) /\ (\A t \in Stages : Backed(b, t, d, rs))
           /\ Working(b, a, s, m, d, r, g, rs) /\ Copied(s, m, d) /\ Placed(b, a, s, m, d, r, g, rs)
           /\ a # "save" => m.stages[s] = Started
           /\ Attempted(d, s) /\ ~Passes(d, s) /\ d.stages[s].state # "complete"
           /\ a # "save" => /\ m.stages = d.stages
                            /\ \A t : (Passes(m, t) <=> Passes(d, t)) /\ (Attempted(m, t) <=> Attempted(d, t))
<1>1. /\ s \in Stages /\ m \in Records /\ d \in Records /\ r \in Nat /\ g \in BOOLEAN
      /\ Calls(b, d, rs) /\ Sound(d) /\ (\A t \in Stages : Backed(b, t, d, rs))
      /\ Working(b, a, s, m, d, r, g, rs)
    BY DEF Local
<1>2. /\ Copied(s, m, d) /\ Placed(b, a, s, m, d, r, g, rs)
      /\ a # "save" => m.stages[s] = Started
    BY <1>1 DEF Working
<1>3. Attempted(d, s) /\ ~Passes(d, s) /\ d.stages[s].state # "complete"
    BY <1>2, OutcomeFacts DEF Copied, Attempted, Passes
<1>4. ASSUME a # "save" PROVE m.stages = d.stages
  <2>1. \A t \in Stages : m.stages[t] = d.stages[t]
      BY <1>2, <1>4 DEF Copied
  <2>2. m.stages \in [Stages -> Outcomes] /\ d.stages \in [Stages -> Outcomes]
      BY <1>1, RecordFacts
  <2> QED
      BY <2>1, <2>2
<1>5. ASSUME a # "save"
      PROVE  \A t : (Passes(m, t) <=> Passes(d, t)) /\ (Attempted(m, t) <=> Attempted(d, t))
    BY <1>4, <1>5 DEF Passes, Attempted
<1> QED
    BY <1>1, <1>2, <1>3, <1>4, <1>5

\* The stage ends with an outcome.
LEMMA EndLocal ==
    ASSUME NEW b, NEW a, NEW s, NEW m, NEW d, NEW r, NEW g, NEW rs,
           Local(b, a, s, m, d, r, g, rs), a \notin {"idle", "boot", "archive"},
           NEW o \in Outcomes, o.state # "none", o.status => o.state = "complete",
           NEW h \in BOOLEAN,
           Backed(b, s, [m EXCEPT !.stages[s] = o], rs)
    PROVE  Local(b, "save", s, [m EXCEPT !.stages[s] = o], d, r, h, rs)
<1> DEFINE e == [m EXCEPT !.stages[s] = o]
<1>1. /\ s \in Stages /\ m \in Records /\ d \in Records /\ r \in Nat /\ g \in BOOLEAN
      /\ Calls(b, d, rs) /\ Sound(d) /\ (\A t \in Stages : Backed(b, t, d, rs))
      /\ Copied(s, m, d) /\ Placed(b, a, s, m, d, r, g, rs)
    BY AtWork
<1>2. /\ e \in Records /\ e.stages[s] = o /\ \A t \in Stages \ {s} : e.stages[t] = m.stages[t]
      /\ e.admission = m.admission /\ e.child = m.child /\ e.paid = m.paid
      /\ e.runs = m.runs /\ e.status = m.status
    BY <1>1, StageSet
<1>3. Backed(b, s, e, rs)
    OBVIOUS
<1> HIDE DEF e
<1>4. Copied(s, e, d)
    BY <1>1, <1>2 DEF Copied, Attempted, Passes
<1>5. Placed(b, "save", s, e, d, r, h, rs)
    BY <1>1 DEF Placed
<1>6. Local(b, "save", s, e, d, r, h, rs)
    BY <1>1, <1>2, <1>3, <1>4, <1>5 DEF Local, Working, Steps
<1> QED
    BY <1>6 DEF e

\* An outcome without success backs nothing.
LEMMA NotPassed ==
    ASSUME NEW b, NEW s \in Stages, NEW m \in Records, NEW o \in Outcomes, ~o.status, NEW rs
    PROVE  Backed(b, s, [m EXCEPT !.stages[s] = o], rs)
<1>1. [m EXCEPT !.stages[s] = o].stages[s] = o
    BY StageSet
<1>2. ~Passes([m EXCEPT !.stages[s] = o], s)
    BY <1>1 DEF Passes
<1> QED
    BY <1>2 DEF Backed

LEMMA FailLocal ==
    ASSUME NEW b, NEW a, NEW s, NEW m, NEW d, NEW r, NEW g, NEW rs,
           Local(b, a, s, m, d, r, g, rs), a \notin {"idle", "boot", "archive"}
    PROVE  Local(b, "save", s, [m EXCEPT !.stages[s] = Failed], d, r, g, rs)
<1>1. s \in Stages /\ m \in Records /\ g \in BOOLEAN
    BY AtWork
<1>2. Backed(b, s, [m EXCEPT !.stages[s] = Failed], rs)
    BY <1>1, NotPassed, OutcomeFacts
<1> QED
    BY <1>1, <1>2, EndLocal, OutcomeFacts

\* What the record says by itself.
LEMMA SameStages ==
    ASSUME NEW m, NEW e, m.stages = e.stages, m.status = e.status
    PROVE  /\ Sound(m) <=> Sound(e)
           /\ \A b, t, rs : Backed(b, t, m, rs) <=> Backed(b, t, e, rs)
           /\ \A t : (Passes(m, t) <=> Passes(e, t)) /\ (Attempted(m, t) <=> Attempted(e, t))
<1>1. \A t : (Passes(m, t) <=> Passes(e, t)) /\ (Attempted(m, t) <=> Attempted(e, t))
    BY DEF Passes, Attempted
<1>2. Sound(m) <=> Sound(e)
    BY <1>1 DEF Sound
<1>3. \A b, t, rs : Backed(b, t, m, rs) <=> Backed(b, t, e, rs)
    BY <1>1 DEF Backed
<1> QED
    BY <1>1, <1>2, <1>3

\* A process saves its copy.
LEMMA SaveLocal ==
    ASSUME NEW b, NEW a, NEW s, NEW m, NEW d, NEW r, NEW g, NEW rs,
           Local(b, a, s, m, d, r, g, rs), a \notin {"idle", "boot", "archive", "save"},
           NEW e \in Records, e.stages = m.stages, e.status = m.status,
           e.admission = m.admission, e.child = m.child, m.runs \subseteq e.runs, m.paid => e.paid,
           NEW p \in Steps \ {"idle", "boot", "archive", "save"}, Placed(b, p, s, e, e, r, g, rs)
    PROVE  Local(b, p, s, e, e, r, g, rs)
<1>1. /\ s \in Stages /\ m \in Records /\ d \in Records /\ r \in Nat /\ g \in BOOLEAN
      /\ Calls(b, d, rs) /\ Sound(d) /\ (\A t \in Stages : Backed(b, t, d, rs))
      /\ Copied(s, m, d) /\ m.stages[s] = Started /\ m.stages = d.stages
    BY AtWork
<1>2. Calls(b, e, rs)
    BY <1>1 DEF Calls, Copied
<1>3. e.stages = d.stages /\ e.status = d.status
    BY <1>1 DEF Copied
<1>4. Sound(e) /\ \A t \in Stages : Backed(b, t, e, rs)
    BY <1>1, <1>3, SameStages
<1>5. Copied(s, e, e)
    BY <1>1, <1>3 DEF Copied, Attempted, Passes, Started
<1>6. Working(b, p, s, e, e, r, g, rs)
    BY <1>1, <1>5 DEF Working
<1> QED
    BY <1>1, <1>2, <1>4, <1>6 DEF Local

\* A process goes on with the same copy.
LEMMA GoLocal ==
    ASSUME NEW b, NEW a, NEW s, NEW m, NEW d, NEW r, NEW g, NEW rs,
           Local(b, a, s, m, d, r, g, rs), a \notin {"idle", "boot", "archive", "save"},
           NEW p \in Steps \ {"idle", "boot", "archive", "save"}, NEW q \in Nat, NEW h \in BOOLEAN,
           Placed(b, p, s, m, d, q, h, rs)
    PROVE  Local(b, p, s, m, d, q, h, rs)
  BY AtWork DEF Local, Working

Begun(d, s) == [d EXCEPT !.stages[s] = Started]

LEMMA BegunFacts ==
    ASSUME NEW d \in Records, NEW s \in Stages
    PROVE  /\ Begun(d, s) \in Records /\ Begun(d, s).stages[s] = Started
           /\ \A t \in Stages \ {s} : Begun(d, s).stages[t] = d.stages[t]
           /\ Begun(d, s).admission = d.admission /\ Begun(d, s).child = d.child
           /\ Begun(d, s).paid = d.paid /\ Begun(d, s).runs = d.runs /\ Begun(d, s).status = d.status
  BY StageSet, OutcomeFacts DEF Begun

\* A stage begins: its attempt is on disk.
LEMMA BeginLocal ==
    ASSUME NEW b, NEW a, NEW s0, NEW m, NEW d, NEW r, NEW g, NEW rs,
           Local(b, a, s0, m, d, r, g, rs), NEW s \in Stages, Gate(d, s),
           NEW p, p = IF s = "freeze" THEN "freeze" ELSE "pay"
    PROVE  Local(b, p, s, Begun(d, s), Begun(d, s), 1, TRUE, rs)
<1> DEFINE e == Begun(d, s)
<1>1. d \in Records /\ Calls(b, d, rs) /\ Sound(d) /\ \A t \in Stages : Backed(b, t, d, rs)
    BY DEF Local
<1>2. /\ e \in Records /\ e.stages[s] = Started /\ \A t \in Stages \ {s} : e.stages[t] = d.stages[t]
      /\ e.admission = d.admission /\ e.child = d.child /\ e.paid = d.paid
      /\ e.runs = d.runs /\ e.status = d.status
    BY <1>1, BegunFacts
<1>3. Sound(e)
    BY <1>1, BeginSound DEF Begun
<1>4. ~Attempted(d, s)
    BY <1>1, GateFacts
<1> HIDE DEF e
<1>5. ASSUME NEW t \in Stages PROVE Backed(b, t, e, rs)
  <2>1. CASE t = s
      BY <1>2, <2>1, OutcomeFacts DEF Backed, Passes
  <2>2. CASE t # s /\ s # "freeze"
      BY <1>1, <1>2, <2>2, StageNames DEF Backed, Passes
  <2>3. CASE t # s /\ s = "freeze"
    <3>1. t \in Generation => ~Passes(d, t)
        BY <1>1, <1>4, <2>3, StageNames DEF Sound, Attempted
    <3> QED
        BY <1>1, <1>2, <2>3, <3>1 DEF Backed, Passes
  <2> QED
      BY <2>1, <2>2, <2>3
<1>6. Calls(b, e, rs)
    BY <1>1, <1>2 DEF Calls
<1>7. Copied(s, e, e)
    BY <1>2 DEF Copied, Attempted, Passes, Started
<1>8. Placed(b, p, s, e, e, 1, TRUE, rs)
    BY RowsAssumption, StageNames DEF Placed
<1>9. Local(b, p, s, e, e, 1, TRUE, rs)
    BY <1>2, <1>3, <1>5, <1>6, <1>7, <1>8 DEF Local, Working, Steps
<1> QED
    BY <1>9 DEF e

\* A process ends and leaves its copy, with the verdict.
LEMMA ConcludeLocal ==
    ASSUME NEW b, NEW a, NEW s, NEW m, NEW d, NEW r, NEW g, NEW rs,
           Local(b, a, s, m, d, r, g, rs), a \notin {"idle", "boot", "archive"}
    PROVE  /\ Local(b, "idle", s, NoRecord, Concluded(m), r, g, rs)
           /\ Concluded(m).admission = d.admission /\ d.runs \subseteq Concluded(m).runs
           /\ Concluded(m).runs = m.runs
           /\ \A t \in Stages \ {s} : Concluded(m).stages[t] = d.stages[t]
           /\ Concluded(m).stages[s] = m.stages[s]
           /\ \A t \in Stages : Attempted(Concluded(m), t) <=> Attempted(d, t)
<1> DEFINE e == Concluded(m)
<1>1. /\ s \in Stages /\ m \in Records /\ d \in Records /\ r \in Nat /\ g \in BOOLEAN
      /\ Calls(b, d, rs) /\ Sound(d) /\ (\A t \in Stages : Backed(b, t, d, rs))
      /\ Copied(s, m, d) /\ Working(b, a, s, m, d, r, g, rs)
    BY AtWork
<1>2. /\ Sound(m) /\ (\A t \in Stages : Attempted(d, t) <=> Attempted(m, t))
      /\ (\A t \in Stages : Passes(d, t) => Passes(m, t) /\ t # s)
    BY <1>1, CopySound
<1>3. /\ Sound(e) /\ e \in Records /\ e.stages = m.stages /\ e.runs = m.runs /\ e.paid = m.paid
      /\ e.admission = m.admission /\ e.child = m.child
    BY <1>1, <1>2, ConcludedSound
<1> HIDE DEF e
<1>4. \A t : (Passes(e, t) <=> Passes(m, t)) /\ (Attempted(e, t) <=> Attempted(m, t))
    BY <1>3 DEF Passes, Attempted
<1>5. Calls(b, e, rs)
    BY <1>1, <1>3 DEF Calls, Copied
<1>6. ASSUME NEW t \in Stages PROVE Backed(b, t, e, rs)
  <2>1. CASE t = s
    <3>1. CASE a = "save"
      <4>1. Backed(b, s, m, rs)
          BY <1>1, <3>1 DEF Working
      <4> QED
          BY <1>3, <1>4, <2>1, <4>1 DEF Backed
    <3>2. CASE a # "save"
      <4>1. m.stages[s] = Started
          BY <3>2, AtWork
      <4> QED
          BY <1>4, <2>1, <4>1, OutcomeFacts DEF Backed, Passes
    <3> QED
        BY <3>1, <3>2
  <2>2. CASE t # s /\ s # "freeze"
    <3>1. m.stages[t] = d.stages[t] /\ m.stages["freeze"] = d.stages["freeze"]
        BY <1>1, <2>2, StageNames DEF Copied
    <3> QED
        BY <1>1, <1>3, <3>1 DEF Backed, Passes
  <2>3. CASE t # s /\ s = "freeze"
    <3>1. m.stages[t] = d.stages[t]
        BY <1>1, <2>3 DEF Copied
    <3>2. ~Passes(d, "freeze")
        BY <1>1, <2>3, AtWork
    <3>3. t \in Generation => ~Passes(d, t)
        BY <1>1, <3>2, StageNames DEF Sound, Attempted
    <3> QED
        BY <1>1, <1>3, <3>1, <3>3 DEF Backed, Passes
  <2> QED
      BY <2>1, <2>2, <2>3
<1>7. Local(b, "idle", s, NoRecord, e, r, g, rs)
    BY <1>1, <1>3, <1>5, <1>6, NoRecordFacts DEF Local, Steps
<1>8. /\ e.admission = d.admission /\ d.runs \subseteq e.runs /\ e.runs = m.runs
      /\ \A t \in Stages \ {s} : e.stages[t] = d.stages[t]
      /\ e.stages[s] = m.stages[s]
      /\ \A t \in Stages : Attempted(e, t) <=> Attempted(d, t)
    BY <1>1, <1>2, <1>3, <1>4 DEF Copied
<1> QED
    BY <1>7, <1>8 DEF e

\* A process is gone, its record stays.
LEMMA GoneLocal ==
    ASSUME NEW b, NEW a, NEW s, NEW m, NEW d, NEW r, NEW g, NEW rs,
           Local(b, a, s, m, d, r, g, rs)
    PROVE  Local(b, "idle", s, NoRecord, d, r, g, rs)
  BY NoRecordFacts DEF Local, Steps

\* The run at work changes.
LEMMA RunLocal ==
    ASSUME NEW b \in Batches, NEW a, NEW s, NEW m, NEW d, NEW r, NEW g, NEW rs, NEW q,
           Local(b, a, s, m, d, r, g, rs), a \notin {"idle", "boot", "archive", "save"},
           SameBut(b, s, r, rs, q), DOMAIN q \subseteq Keys,
           LET k == RunKey(b, s, r) IN k \in DOMAIN q /\ q[k].called => k \in d.runs /\ d.paid,
           NEW p \in Steps \ {"idle", "boot", "archive", "save"}, Placed(b, p, s, m, d, r, g, q)
    PROVE  Local(b, p, s, m, d, r, g, q)
<1>1. /\ s \in Stages /\ m \in Records /\ d \in Records /\ r \in Nat /\ g \in BOOLEAN
      /\ Calls(b, d, rs) /\ Sound(d) /\ (\A t \in Stages : Backed(b, t, d, rs))
      /\ Copied(s, m, d) /\ m.stages[s] = Started /\ ~Passes(d, s)
    BY AtWork
<1>2. RunKey(b, s, r) \in Keys /\ RunKey(b, s, r).batch = b
    BY <1>1, RunKeys
<1>3. Calls(b, d, q)
  <2> SUFFICES ASSUME NEW k \in DOMAIN q, k.batch = b, q[k].called
               PROVE  k \in d.runs /\ d.paid
      BY DEF Calls
  <2>1. CASE k = RunKey(b, s, r)
      BY <2>1
  <2>2. CASE k # RunKey(b, s, r)
      BY <1>1, <2>2 DEF Calls, SameBut
  <2> QED
      BY <2>1, <2>2
<1>4. ASSUME NEW t \in Stages PROVE Backed(b, t, d, q)
  <2>1. CASE t = s
      BY <1>1, <2>1 DEF Backed
  <2>2. CASE t # s
    <3>1. \A i \in Nat : RunKey(b, t, i) \in Keys \ {RunKey(b, s, r)}
        BY <1>1, <2>2, RunKeys
    <3>2. CapabilityRows \in Nat
        BY RowsAssumption
    <3>3. /\ RunKey(b, t, 1) \in Keys \ {RunKey(b, s, r)}
          /\ \A i \in 1..CapabilityRows : RunKey(b, t, i) \in Keys \ {RunKey(b, s, r)}
        BY <3>1, <3>2
    <3>4. Backed(b, t, d, rs)
        BY <1>1
    <3> QED
        BY <3>3, <3>4 DEF Backed, SameBut
  <2> QED
      BY <2>1, <2>2
<1> QED
    BY <1>1, <1>3, <1>4 DEF Local, Working

-----------------------------------------------------------------------------
(* A step of one batch.                                                    *)

Own(b, a, s, m, d, r, g, e) ==
    /\ at' = [at EXCEPT ![b] = a] /\ stage' = [stage EXCEPT ![b] = s]
    /\ mem' = [mem EXCEPT ![b] = m] /\ disk' = [disk EXCEPT ![b] = d]
    /\ row' = [row EXCEPT ![b] = r] /\ good' = [good EXCEPT ![b] = g] /\ exit' = [exit EXCEPT ![b] = e]

TypedRuns(rs) == rs \in [DOMAIN rs -> Runs] /\ DOMAIN rs \subseteq Keys

\* What a step of the batch leaves of its record.
Keeps(b, d) ==
    \A t \in Stages : Attempted(disk[b], t) /\ (at[b] \in {"idle", "boot", "archive"} \/ stage[b] # t)
        => d.stages[t] = disk[b].stages[t]

LEMMA Children3 ==
    /\ ChildSet = {"mqtt-a", "mqtt-b", "http"} /\ Top \notin ChildSet /\ Batches = {Top} \cup ChildSet
    /\ \A i \in 1..3 : Children[i] \in ChildSet /\ ChildStage[i] \in Generation
    /\ \A i, j \in 1..3 : i # j => Children[i] # Children[j]
    /\ \A c \in ChildSet : \E i \in 1..3 : c = Children[i]
    /\ Top \in Batches
<1>1. /\ Children[1] = "mqtt-a" /\ Children[2] = "mqtt-b" /\ Children[3] = "http"
      /\ ChildStage[1] = "mqtt-first" /\ ChildStage[2] = "mqtt-first" /\ ChildStage[3] = "http"
    BY DEF Children, ChildStage
<1>2. 1..3 = {1, 2, 3}
    OBVIOUS
<1>3. ChildSet = {"mqtt-a", "mqtt-b", "http"}
    BY <1>1, <1>2 DEF ChildSet
<1>4. "mqtt-first" \in Generation /\ "http" \in Generation
    BY DEF Generation
<1>5. \A i \in 1..3 : Children[i] \in ChildSet /\ ChildStage[i] \in Generation
    BY <1>1, <1>2, <1>3, <1>4
<1>6. \A i, j \in 1..3 : i # j => Children[i] # Children[j]
    BY <1>1, <1>2
<1>7. \A c \in ChildSet : \E i \in 1..3 : c = Children[i]
    BY <1>1, <1>2, <1>3
<1>8. Top \notin ChildSet /\ Batches = {Top} \cup ChildSet /\ Top \in Batches
    BY <1>3 DEF Top, Batches
<1> QED
    BY <1>3, <1>5, <1>6, <1>7, <1>8

\* A stage that has passed stays so.
LEMMA StayPassed ==
    ASSUME QueueInv, AttemptStays,
           \A b \in Batches : at[b] \in {"boot", "archive"} => \A t \in Stages :
               Attempted(disk[b], t) => disk'[b].stages[t] = disk[b].stages[t]
    PROVE  \A b \in Batches, t \in Stages : Passes(disk[b], t) => Passes(disk'[b], t)
<1> TAKE b \in Batches, t \in Stages
<1> HAVE Passes(disk[b], t)
<1>1. Local(b, at[b], stage[b], mem[b], disk[b], row[b], good[b], runs)
    BY DEF QueueInv, AllLocal
<1>2. Attempted(disk[b], t)
    BY <1>1 DEF Local, Sound, Attempted
<1>3. at[b] \notin {"idle", "boot", "archive"} => stage[b] # t
    BY <1>1, AtWork
<1>4. disk'[b].stages[t] = disk[b].stages[t]
    BY <1>2, <1>3 DEF AttemptStays
<1> QED
    BY <1>4 DEF Passes

LEMMA OwnParts ==
    ASSUME QueueInv, NEW b \in Batches,
           NEW a, NEW s, NEW m, NEW d, NEW r, NEW g, NEW e \in BOOLEAN,
           Own(b, a, s, m, d, r, g, e), UNCHANGED around,
           NEW v \in Versions \cup {0}, loaded' \in {loaded, [loaded EXCEPT ![b] = v]},
           a \in {"idle", "archive"} \/ loaded'[b] # 0,
           Local(b, a, s, m, d, r, g, runs'), TypedRuns(runs'),
           \A c \in Batches \ {b} : SameRuns(c, runs, runs'), Keeps(b, d)
    PROVE  /\ Typed' /\ AllLocal' /\ AttemptStays
           /\ \A c \in Batches, t \in Stages : Passes(disk[c], t) => Passes(disk'[c], t)
<1>1. a \in Steps /\ s \in Stages /\ m \in Records /\ d \in Records /\ r \in Nat /\ g \in BOOLEAN
    BY DEF Local
<1>2. Typed
    BY DEF QueueInv
<1>3. /\ at'[b] = a /\ stage'[b] = s /\ mem'[b] = m /\ disk'[b] = d /\ row'[b] = r /\ good'[b] = g
      /\ \A c \in Batches \ {b} :
            /\ at'[c] = at[c] /\ stage'[c] = stage[c] /\ mem'[c] = mem[c] /\ disk'[c] = disk[c]
            /\ row'[c] = row[c] /\ good'[c] = good[c]
    BY <1>2 DEF Own, Typed
<1>4. /\ disk' \in [Batches -> Records] /\ mem' \in [Batches -> Records]
      /\ at' \in [Batches -> Steps] /\ stage' \in [Batches -> Stages]
    BY <1>1, <1>2 DEF Own, Typed
<1>5. row' \in [Batches -> Nat] /\ good' \in [Batches -> BOOLEAN] /\ exit' \in [Batches -> BOOLEAN]
    BY <1>1, <1>2 DEF Own, Typed
<1>a. /\ loaded' \in [Batches -> Versions \cup {0}]
      /\ \A c \in Batches : at'[c] \in {"idle", "archive"} \/ loaded'[c] # 0
    BY <1>2, <1>3 DEF Typed
<1>6. Typed'
    BY <1>2, <1>4, <1>5, <1>a DEF Typed, TypedRuns, around
<1>7. AllLocal'
  <2> SUFFICES ASSUME NEW c \in Batches
               PROVE  Local(c, at'[c], stage'[c], mem'[c], disk'[c], row'[c], good'[c], runs')
      BY DEF AllLocal
  <2>1. CASE c = b
      BY <1>3, <2>1
  <2>2. CASE c # b
    <3>1. Local(c, at[c], stage[c], mem[c], disk[c], row[c], good[c], runs)
        BY DEF QueueInv, AllLocal
    <3>2. Local(c, at[c], stage[c], mem[c], disk[c], row[c], good[c], runs')
        BY <2>2, <3>1, LocalOnRuns DEF TypedRuns
    <3> QED
        BY <1>3, <2>2, <3>2
  <2> QED
      BY <2>1, <2>2
<1>8. AttemptStays
    BY <1>3 DEF AttemptStays, Keeps
<1>9. \A c \in Batches : at[c] \in {"boot", "archive"} => \A t \in Stages :
          Attempted(disk[c], t) => disk'[c].stages[t] = disk[c].stages[t]
    BY <1>3 DEF Keeps
<1>10. \A c \in Batches, t \in Stages : Passes(disk[c], t) => Passes(disk'[c], t)
    BY <1>8, <1>9, StayPassed
<1> QED
    BY <1>6, <1>7, <1>8, <1>10

LEMMA OwnStep ==
    ASSUME QueueInv, NEW b \in Batches,
           NEW a, NEW s, NEW m, NEW d, NEW r, NEW g, NEW e \in BOOLEAN,
           Own(b, a, s, m, d, r, g, e), UNCHANGED <<around, archived>>,
           loaded' \in {loaded, [loaded EXCEPT ![b] = 0]},
           a \in {"idle", "archive"} \/ (loaded' = loaded /\ at[b] \notin {"idle", "archive"}),
           Local(b, a, s, m, d, r, g, runs'), TypedRuns(runs'),
           \A c \in Batches \ {b} : SameRuns(c, runs, runs'), Keeps(b, d)
    PROVE  Typed' /\ AllLocal' /\ Archives' /\ AttemptStays
<1>1. 0 \in Versions \cup {0} /\ UNCHANGED around /\ (a \in {"idle", "archive"} \/ loaded'[b] # 0)
    BY DEF QueueInv, Typed
<1>2. /\ Typed' /\ AllLocal' /\ AttemptStays
      /\ \A c \in Batches, t \in Stages : Passes(disk[c], t) => Passes(disk'[c], t)
    BY <1>1, OwnParts
<1>3. Archives'
    BY <1>2 DEF Archives, QueueInv
<1> QED
    BY <1>2, <1>3

\* Steps of a child that works do not matter to the family.
LEMMA ChildFamily ==
    ASSUME QueueInv, NEW b \in ChildSet,
           NEW a, NEW s, NEW m, NEW d, NEW r, NEW g, NEW e, Own(b, a, s, m, d, r, g, e),
           at[b] \in {"idle", "archive"} => a \in {"idle", "archive"} /\ d = disk[b] /\ ~Fresh(b)
    PROVE  Family'
<1>1. Typed /\ Family /\ AllLocal
    BY DEF QueueInv
<1>2. b \in Batches /\ Top \in Batches /\ b # Top
    BY Children3
<1>3. \A c \in Batches \ {b} :
          /\ at'[c] = at[c] /\ stage'[c] = stage[c] /\ mem'[c] = mem[c] /\ disk'[c] = disk[c]
          /\ row'[c] = row[c] /\ good'[c] = good[c]
    BY <1>1, <1>2 DEF Own, Typed
<1>4. /\ at'[Top] = at[Top] /\ stage'[Top] = stage[Top] /\ mem'[Top] = mem[Top]
      /\ disk'[Top] = disk[Top] /\ row'[Top] = row[Top] /\ good'[Top] = good[Top]
    BY <1>2, <1>3
<1>5. \A i \in 1..3 : at[Children[i]] \in {"idle", "archive"} =>
          at'[Children[i]] \in {"idle", "archive"} /\ disk'[Children[i]] = disk[Children[i]]
  <2> TAKE i \in 1..3
  <2>1. CASE Children[i] = b
      BY <1>1, <1>2, <2>1 DEF Own, Typed
  <2>2. CASE Children[i] # b
      BY <1>3, <2>2, Children3
  <2> QED
      BY <2>1, <2>2
<1>6. \A i \in 1..3 : Fresh(Children[i]) => Fresh(Children[i])'
    BY <1>3, Children3 DEF Fresh
<1>7. ASSUME NEW n \in 0..3, NEW listed, WaitedFor(n, listed)
      PROVE  /\ \A i \in 1..n : at'[Children[i]] \in {"idle", "archive"} /\ disk'[Children[i]].runs \subseteq listed
             /\ HavePassed(n) => HavePassed(n)'
  <2>1. \A i \in 1..n : i \in 1..3
      OBVIOUS
  <2> QED
      BY <1>5, <1>7, <2>1 DEF WaitedFor, HavePassed
<1>8. Local(Top, at[Top], stage[Top], mem[Top], disk[Top], row[Top], good[Top], runs)
    BY <1>1, <1>2 DEF AllLocal
<1>9. Passes(disk[Top], "parallel") => disk[Top].stages["parallel"].state = "complete"
    BY <1>8, StageNames DEF Local, Sound
<1>10. at[Top] = "save" /\ stage[Top] = "parallel" /\ Passes(mem[Top], "parallel")
          => mem[Top].stages["parallel"].state = "complete"
    BY <1>8, AtWork DEF Copied
<1>a. (disk[Top].admission = 0 => disk[Top] = NoRecord /\ at[Top] = "idle")'
    BY <1>1, <1>4 DEF Family
<1>b. (~Attempted(disk[Top], "parallel") \/ (at[Top] = "pay" /\ stage[Top] = "parallel")
          => \A i \in 1..3 : Fresh(Children[i]))'
    BY <1>1, <1>4, <1>6 DEF Family
<1>c. (at[Top] = "spawn" => row[Top] \in 1..3 /\ \A i \in row[Top]..3 : Fresh(Children[i]))'
  <2> SUFFICES ASSUME at[Top] = "spawn" PROVE (row[Top] \in 1..3 /\ \A i \in row[Top]..3 : Fresh(Children[i]))'
      BY <1>4
  <2>1. row[Top] \in 1..3 /\ \A i \in row[Top]..3 : Fresh(Children[i])
      BY <1>1 DEF Family
  <2>2. \A i \in row[Top]..3 : i \in 1..3
      BY <2>1
  <2> QED
      BY <1>4, <1>6, <2>1, <2>2
<1>d. (at[Top] = "wait" => /\ row[Top] \in 1..3 /\ WaitedFor(row[Top] - 1, mem[Top].runs)
                           /\ good[Top] => HavePassed(row[Top] - 1))'
  <2> SUFFICES ASSUME at[Top] = "wait"
               PROVE  (/\ row[Top] \in 1..3 /\ WaitedFor(row[Top] - 1, mem[Top].runs)
                       /\ good[Top] => HavePassed(row[Top] - 1))'
      BY <1>4
  <2>1. /\ row[Top] \in 1..3 /\ WaitedFor(row[Top] - 1, mem[Top].runs)
        /\ good[Top] => HavePassed(row[Top] - 1)
      BY <1>1 DEF Family
  <2>2. row[Top] - 1 \in 0..3
      BY <2>1
  <2> DEFINE n == row[Top] - 1
  <2>3. /\ \A i \in 1..n : at'[Children[i]] \in {"idle", "archive"} /\ disk'[Children[i]].runs \subseteq mem[Top].runs
        /\ HavePassed(n) => \A i \in 1..n : Passes(disk'[Children[i]], ChildStage[i])
      BY <1>7, <2>1, <2>2 DEF HavePassed
  <2> QED
      BY <1>4, <2>1, <2>3 DEF WaitedFor, HavePassed
<1>e. (at[Top] = "save" /\ stage[Top] = "parallel" =>
          /\ mem[Top].stages["parallel"].state = "complete" => WaitedFor(3, mem[Top].runs)
          /\ Passes(mem[Top], "parallel") => HavePassed(3))'
  <2>1. at[Top] = "save" /\ stage[Top] = "parallel" =>
          /\ mem[Top].stages["parallel"].state = "complete" => WaitedFor(3, mem[Top].runs)
          /\ Passes(mem[Top], "parallel") => HavePassed(3)
      BY <1>1 DEF Family
  <2>2. WaitedFor(3, mem[Top].runs) =>
            /\ \A i \in 1..3 : at'[Children[i]] \in {"idle", "archive"} /\ disk'[Children[i]].runs \subseteq mem[Top].runs
            /\ HavePassed(3) => \A i \in 1..3 : Passes(disk'[Children[i]], ChildStage[i])
      BY <1>7 DEF HavePassed
  <2> QED
      BY <1>4, <1>10, <2>1, <2>2 DEF WaitedFor, HavePassed
<1>f. (/\ disk[Top].stages["parallel"].state = "complete" => WaitedFor(3, disk[Top].runs)
       /\ Passes(disk[Top], "parallel") => HavePassed(3))'
  <2>1. /\ disk[Top].stages["parallel"].state = "complete" => WaitedFor(3, disk[Top].runs)
        /\ Passes(disk[Top], "parallel") => HavePassed(3)
      BY <1>1 DEF Family
  <2>2. WaitedFor(3, disk[Top].runs) =>
            /\ \A i \in 1..3 : at'[Children[i]] \in {"idle", "archive"} /\ disk'[Children[i]].runs \subseteq disk[Top].runs
            /\ HavePassed(3) => \A i \in 1..3 : Passes(disk'[Children[i]], ChildStage[i])
      BY <1>7 DEF HavePassed
  <2> QED
      BY <1>4, <1>9, <2>1, <2>2 DEF WaitedFor, HavePassed
<1> QED
    BY <1>a, <1>b, <1>c, <1>d, <1>e, <1>f DEF Family

\* The family after a step of the batch, which leaves its children as they are.
LEMMA TopFamily ==
    ASSUME QueueInv, NEW a, NEW s, NEW m, NEW d, NEW r, NEW g, NEW e,
           Own(Top, a, s, m, d, r, g, e),
           d.admission # 0,
           ~Attempted(d, "parallel") \/ (a = "pay" /\ s = "parallel")
               => \A i \in 1..3 : Fresh(Children[i]),
           a = "spawn" => r \in 1..3 /\ \A i \in r..3 : Fresh(Children[i]),
           a = "wait" => r \in 1..3 /\ WaitedFor(r - 1, m.runs) /\ (g => HavePassed(r - 1)),
           a = "save" /\ s = "parallel" =>
               /\ m.stages["parallel"].state = "complete" => WaitedFor(3, m.runs)
               /\ Passes(m, "parallel") => HavePassed(3),
           d.stages["parallel"].state = "complete" => WaitedFor(3, d.runs),
           Passes(d, "parallel") => HavePassed(3)
    PROVE  Family'
<1>1. Typed
    BY DEF QueueInv
<1>2. /\ at'[Top] = a /\ stage'[Top] = s /\ mem'[Top] = m /\ disk'[Top] = d /\ row'[Top] = r
      /\ good'[Top] = g
    BY <1>1, Children3 DEF Own, Typed
<1>3. \A i \in 1..3 : at'[Children[i]] = at[Children[i]] /\ disk'[Children[i]] = disk[Children[i]]
    BY <1>1, Children3 DEF Own, Typed
<1>4. \A i \in 1..3 : Fresh(Children[i]) <=> Fresh(Children[i])'
    BY <1>3 DEF Fresh
<1>5. ASSUME NEW n \in 0..3, NEW listed
      PROVE  /\ WaitedFor(n, listed) =>
                    \A i \in 1..n : at'[Children[i]] \in {"idle", "archive"} /\ disk'[Children[i]].runs \subseteq listed
             /\ HavePassed(n) => \A i \in 1..n : Passes(disk'[Children[i]], ChildStage[i])
  <2>1. \A i \in 1..n : i \in 1..3
      OBVIOUS
  <2> QED
      BY <1>3, <2>1 DEF WaitedFor, HavePassed
<1>a. (disk[Top].admission = 0 => disk[Top] = NoRecord /\ at[Top] = "idle")'
    BY <1>2
<1>b. (~Attempted(disk[Top], "parallel") \/ (at[Top] = "pay" /\ stage[Top] = "parallel")
          => \A i \in 1..3 : Fresh(Children[i]))'
    BY <1>2, <1>4
<1>c. (at[Top] = "spawn" => row[Top] \in 1..3 /\ \A i \in row[Top]..3 : Fresh(Children[i]))'
  <2> SUFFICES ASSUME a = "spawn" PROVE r \in 1..3 /\ \A i \in r..3 : Fresh(Children[i])'
      BY <1>2
  <2>1. \A i \in r..3 : i \in 1..3
      OBVIOUS
  <2> QED
      BY <1>4, <2>1
<1>d. (at[Top] = "wait" => /\ row[Top] \in 1..3 /\ WaitedFor(row[Top] - 1, mem[Top].runs)
                           /\ good[Top] => HavePassed(row[Top] - 1))'
  <2> SUFFICES ASSUME a = "wait"
               PROVE  (/\ row[Top] \in 1..3 /\ WaitedFor(row[Top] - 1, mem[Top].runs)
                       /\ good[Top] => HavePassed(row[Top] - 1))'
      BY <1>2
  <2> DEFINE n == r - 1
  <2>1. n \in 0..3
      OBVIOUS
  <2> HIDE DEF n
  <2>2. /\ WaitedFor(n, m.runs) =>
                    \A i \in 1..n : at'[Children[i]] \in {"idle", "archive"} /\ disk'[Children[i]].runs \subseteq m.runs
        /\ HavePassed(n) => \A i \in 1..n : Passes(disk'[Children[i]], ChildStage[i])
      BY <1>5, <2>1
  <2> QED
      BY <1>2, <2>2 DEF WaitedFor, HavePassed, n
<1>e. (at[Top] = "save" /\ stage[Top] = "parallel" =>
          /\ mem[Top].stages["parallel"].state = "complete" => WaitedFor(3, mem[Top].runs)
          /\ Passes(mem[Top], "parallel") => HavePassed(3))'
  <2>1. /\ WaitedFor(3, m.runs) =>
                    \A i \in 1..3 : at'[Children[i]] \in {"idle", "archive"} /\ disk'[Children[i]].runs \subseteq m.runs
        /\ HavePassed(3) => \A i \in 1..3 : Passes(disk'[Children[i]], ChildStage[i])
      BY <1>5
  <2> QED
      BY <1>2, <2>1 DEF WaitedFor, HavePassed
<1>f. (/\ disk[Top].stages["parallel"].state = "complete" => WaitedFor(3, disk[Top].runs)
       /\ Passes(disk[Top], "parallel") => HavePassed(3))'
  <2>1. /\ WaitedFor(3, d.runs) =>
                    \A i \in 1..3 : at'[Children[i]] \in {"idle", "archive"} /\ disk'[Children[i]].runs \subseteq d.runs
        /\ HavePassed(3) => \A i \in 1..3 : Passes(disk'[Children[i]], ChildStage[i])
      BY <1>5
  <2> QED
      BY <1>2, <2>1 DEF WaitedFor, HavePassed
<1> QED
    BY <1>a, <1>b, <1>c, <1>d, <1>e, <1>f DEF Family

\* The record keeps all but the stage at work.
OthersKept(b, d) ==
    /\ d.admission = disk[b].admission /\ disk[b].runs \subseteq d.runs
    /\ \A t \in Stages \ {stage[b]} : d.stages[t] = disk[b].stages[t]
    /\ d.stages["parallel"] = disk[b].stages["parallel"]

\* A step inside a stage, that does not end parallel.
LEMMA StageStep ==
    ASSUME QueueInv, NEW b \in Batches, at[b] \notin {"idle", "boot", "archive"},
           NEW a \in {"idle", "compare", "new", "list", "run", "audit", "copy", "recheck", "save"},
           NEW m, NEW d, NEW r, NEW g, NEW e \in BOOLEAN,
           Own(b, a, stage[b], m, d, r, g, e), UNCHANGED <<around, archived>>,
           loaded' \in {loaded, [loaded EXCEPT ![b] = 0]}, a = "idle" \/ loaded' = loaded,
           Local(b, a, stage[b], m, d, r, g, runs'), TypedRuns(runs'),
           \A c \in Batches \ {b} : SameRuns(c, runs, runs'),
           OthersKept(b, d),
           a = "save" /\ stage[b] = "parallel" => m.stages["parallel"].state # "complete"
    PROVE  QueueInv' /\ AttemptStays
<1> USE DEF OthersKept
<1>1. /\ Keeps(b, d)
      /\ a \in {"idle", "archive"} \/ (loaded' = loaded /\ at[b] \notin {"idle", "archive"})
    BY DEF Keeps
<1>2. Typed' /\ AllLocal' /\ Archives' /\ AttemptStays
    BY <1>1, OwnStep
<1>3. Family'
  <2>1. CASE b \in ChildSet
      BY <2>1, ChildFamily
  <2>2. CASE b = Top
    <3>1. Family
        BY DEF QueueInv
    <3>2. d.admission # 0
        BY <2>2, <3>1 DEF Family
    <3>3. (Attempted(d, "parallel") <=> Attempted(disk[Top], "parallel"))
          /\ (Passes(d, "parallel") <=> Passes(disk[Top], "parallel"))
        BY <2>2 DEF Attempted, Passes
    <3>4. ~Attempted(d, "parallel") => \A i \in 1..3 : Fresh(Children[i])
        BY <3>1, <3>3 DEF Family
    <3>5. d.stages["parallel"].state = "complete" => WaitedFor(3, d.runs)
        BY <2>2, <3>1 DEF Family, WaitedFor
    <3>6. Passes(d, "parallel") => HavePassed(3)
        BY <3>1, <3>3 DEF Family
    <3>7. a = "save" /\ stage[Top] = "parallel" => ~Passes(m, "parallel")
      <4>1. a = "save" => Copied(stage[b], m, d)
          BY DEF Local, Working
      <4> QED
          BY <2>2, <4>1 DEF Copied
    <3> QED
        BY <2>2, <3>2, <3>4, <3>5, <3>6, <3>7, TopFamily
  <2> QED
      BY <2>1, <2>2, Children3
<1> QED
    BY <1>2, <1>3 DEF QueueInv

LEMMA WorkStep ==
    ASSUME QueueInv, NEW b \in Batches, at[b] \notin {"idle", "boot", "archive"},
           NEW a \in {"compare", "new", "list", "run", "audit", "copy", "recheck", "save"},
           NEW m, NEW d, NEW r, NEW g, NEW e \in BOOLEAN,
           Own(b, a, stage[b], m, d, r, g, e), UNCHANGED <<around, archived>>, loaded' = loaded,
           Local(b, a, stage[b], m, d, r, g, runs'), TypedRuns(runs'),
           \A c \in Batches \ {b} : SameRuns(c, runs, runs'),
           d.admission = disk[b].admission, disk[b].runs \subseteq d.runs,
           \A t \in Stages \ {stage[b]} : d.stages[t] = disk[b].stages[t],
           d.stages["parallel"] = disk[b].stages["parallel"],
           a = "save" /\ stage[b] = "parallel" => m.stages["parallel"].state # "complete"
    PROVE  QueueInv' /\ AttemptStays
<1>1. PICK p \in {"idle", "compare", "new", "list", "run", "audit", "copy", "recheck", "save"} : p = a
    OBVIOUS
<1>2. loaded' \in {loaded, [loaded EXCEPT ![b] = 0]} /\ (p = "idle" \/ loaded' = loaded)
    OBVIOUS
<1>3. Own(b, p, stage[b], m, d, r, g, e) /\ Local(b, p, stage[b], m, d, r, g, runs')
    BY <1>1
<1>4. p = "save" /\ stage[b] = "parallel" => m.stages["parallel"].state # "complete"
    BY <1>1
<1>5. OthersKept(b, d)
    BY DEF OthersKept
<1> QED
    BY <1>2, <1>3, <1>4, <1>5, StageStep

\* The process ends inside a stage, or when it has saved it.
LEMMA StopStep ==
    ASSUME QueueInv, NEW b \in Batches, at[b] \notin {"idle", "boot", "archive"},
           NEW m, NEW d, NEW r, NEW g, NEW e \in BOOLEAN,
           Own(b, "idle", stage[b], m, d, r, g, e), UNCHANGED <<around, archived>>,
           loaded' = [loaded EXCEPT ![b] = 0],
           Local(b, "idle", stage[b], m, d, r, g, runs'), TypedRuns(runs'),
           \A c \in Batches \ {b} : SameRuns(c, runs, runs'),
           d.admission = disk[b].admission, disk[b].runs \subseteq d.runs,
           \A t \in Stages \ {stage[b]} : d.stages[t] = disk[b].stages[t],
           d.stages["parallel"] = disk[b].stages["parallel"]
    PROVE  QueueInv' /\ AttemptStays
<1>1. PICK p \in {"idle", "compare", "new", "list", "run", "audit", "copy", "recheck", "save"} : p = "idle"
    OBVIOUS
<1>2. loaded' \in {loaded, [loaded EXCEPT ![b] = 0]} /\ (p = "idle" \/ loaded' = loaded)
    BY <1>1
<1>3. Own(b, p, stage[b], m, d, r, g, e) /\ Local(b, p, stage[b], m, d, r, g, runs')
    BY <1>1
<1>4. p = "save" /\ stage[b] = "parallel" => m.stages["parallel"].state # "complete"
    BY <1>1
<1>5. OthersKept(b, d)
    BY DEF OthersKept
<1> QED
    BY <1>2, <1>3, <1>4, <1>5, StageStep

\* The family after a step of a batch at rest, that leaves its record.
LEMMA RestFamily ==
    ASSUME QueueInv, NEW b \in Batches, NEW a \in {"idle", "boot", "archive"},
           NEW s, NEW m, NEW r, NEW g, NEW e, Own(b, a, s, m, disk[b], r, g, e),
           b = Top => disk[Top].admission # 0,
           b \in ChildSet /\ at[b] \in {"idle", "archive"} => a # "boot" /\ ~Fresh(b)
    PROVE  Family'
<1>1. CASE b \in ChildSet
    BY <1>1, ChildFamily
<1>2. CASE b = Top
  <2>1. Family
      BY DEF QueueInv
  <2>2. ~Attempted(disk[Top], "parallel") => \A i \in 1..3 : Fresh(Children[i])
      BY <2>1 DEF Family
  <2>3. /\ disk[Top].stages["parallel"].state = "complete" => WaitedFor(3, disk[Top].runs)
        /\ Passes(disk[Top], "parallel") => HavePassed(3)
      BY <2>1 DEF Family
  <2> QED
      BY <1>2, <2>2, <2>3, TopFamily
<1> QED
    BY <1>1, <1>2, Children3

-----------------------------------------------------------------------------
(* The operations inside a stage.                                          *)

LEMMA AtBatch ==
    ASSUME QueueInv, NEW b \in Batches
    PROVE  /\ Local(b, at[b], stage[b], mem[b], disk[b], row[b], good[b], runs) /\ exit[b] \in BOOLEAN
           /\ stage = [stage EXCEPT ![b] = stage[b]] /\ mem = [mem EXCEPT ![b] = mem[b]]
           /\ disk = [disk EXCEPT ![b] = disk[b]] /\ row = [row EXCEPT ![b] = row[b]]
           /\ good = [good EXCEPT ![b] = good[b]] /\ exit = [exit EXCEPT ![b] = exit[b]]
           /\ TypedRuns(runs) /\ \A c : SameRuns(c, runs, runs)
           /\ Key(b) = RunKey(b, stage[b], row[b]) /\ Key(b) \in Keys
<1>1. Typed /\ AllLocal
    BY DEF QueueInv
<1>2. stage[b] \in Stages /\ row[b] \in Nat
    BY <1>1 DEF Typed
<1>3. Key(b) = RunKey(b, stage[b], row[b]) /\ Key(b) \in Keys
    BY <1>2, RunKeys DEF Key, RunKey
<1>4. TypedRuns(runs) /\ \A c : SameRuns(c, runs, runs)
    BY <1>1 DEF Typed, TypedRuns, SameRuns
<1>5. /\ stage = [stage EXCEPT ![b] = stage[b]] /\ mem = [mem EXCEPT ![b] = mem[b]]
      /\ disk = [disk EXCEPT ![b] = disk[b]]
    BY <1>1 DEF Typed
<1>6. /\ row = [row EXCEPT ![b] = row[b]]
      /\ good = [good EXCEPT ![b] = good[b]] /\ exit = [exit EXCEPT ![b] = exit[b]]
    BY <1>1 DEF Typed
<1>7. exit[b] \in BOOLEAN
    BY <1>1 DEF Typed
<1> QED
    BY <1>1, <1>3, <1>4, <1>5, <1>6, <1>7 DEF AllLocal

\* The run at work gets other facts.
LEMMA SetRun ==
    ASSUME QueueInv, NEW b \in Batches, Key(b) \in DOMAIN runs,
           NEW x \in Runs, runs' = [runs EXCEPT ![Key(b)] = x]
    PROVE  /\ TypedRuns(runs') /\ (\A c \in Batches \ {b} : SameRuns(c, runs, runs'))
           /\ SameBut(b, stage[b], row[b], runs, runs')
           /\ runs'[Key(b)] = x /\ DOMAIN runs' = DOMAIN runs
<1>1. Key(b) = RunKey(b, stage[b], row[b]) /\ Key(b).batch = b
    BY AtBatch DEF Key
<1>2. TypedRuns(runs)
    BY AtBatch
<1>3. /\ DOMAIN runs' = DOMAIN runs /\ runs'[Key(b)] = x
      /\ \A k \in DOMAIN runs \ {Key(b)} : runs'[k] = runs[k]
    BY <1>2 DEF TypedRuns
<1>4. TypedRuns(runs')
    BY <1>2, <1>3 DEF TypedRuns
<1> QED
    BY <1>1, <1>3, <1>4 DEF SameRuns, SameBut

\* A stage ends in an operation that changes neither its run nor the record.
LEMMA EndStep ==
    ASSUME QueueInv, NEW b \in Batches, at[b] \notin {"idle", "boot", "archive"},
           NEW o \in Outcomes, o.state # "none", o.status => o.state = "complete",
           o.state = "complete" => stage[b] # "parallel",
           at' = [at EXCEPT ![b] = "save"], Ended(b, o), UNCHANGED <<around, archived, runs>>,
           Backed(b, stage[b], [mem[b] EXCEPT !.stages[stage[b]] = o], runs)
    PROVE  QueueInv' /\ AttemptStays
<1> DEFINE m == [mem[b] EXCEPT !.stages[stage[b]] = o]
<1>1. Local(b, at[b], stage[b], mem[b], disk[b], row[b], good[b], runs)
    BY AtBatch
<1>2. good[b] \in BOOLEAN /\ mem[b] \in Records /\ stage[b] \in Stages
    BY <1>1, AtWork
<1>3. Local(b, "save", stage[b], m, disk[b], row[b], good[b], runs)
    BY <1>1, <1>2, EndLocal
<1>4. m.stages[stage[b]] = o
    BY <1>2, StageSet
<1>5. Own(b, "save", stage[b], m, disk[b], row[b], good[b], exit[b])
    BY AtBatch DEF Own, Ended
<1>6. exit[b] \in BOOLEAN /\ TypedRuns(runs') /\ (\A c : SameRuns(c, runs, runs')) /\ loaded' = loaded
    BY AtBatch DEF Ended
<1> HIDE DEF m
<1> QED
    BY <1>3, <1>4, <1>5, <1>6, WorkStep

LEMMA FailStep ==
    ASSUME QueueInv, NEW b \in Batches, at[b] \notin {"idle", "boot", "archive"},
           at' = [at EXCEPT ![b] = "save"], Ended(b, Failed), UNCHANGED <<around, archived, runs>>
    PROVE  QueueInv' /\ AttemptStays
<1>1. mem[b] \in Records /\ stage[b] \in Stages
    BY AtBatch DEF Local
<1>2. Backed(b, stage[b], [mem[b] EXCEPT !.stages[stage[b]] = Failed], runs)
    BY <1>1, NotPassed, OutcomeFacts
<1> QED
    BY <1>2, EndStep, OutcomeFacts

\* The process goes on, with the same copy and record.
LEMMA GoStep ==
    ASSUME QueueInv, NEW b \in Batches, at[b] \notin {"idle", "boot", "archive", "save"},
           NEW p \in {"compare", "new", "list", "run", "audit", "copy", "recheck"},
           at' = [at EXCEPT ![b] = p], UNCHANGED <<around, archived, disk, stage, mem, row, good, loaded, exit>>,
           TypedRuns(runs'), \A c \in Batches \ {b} : SameRuns(c, runs, runs'),
           Local(b, p, stage[b], mem[b], disk[b], row[b], good[b], runs')
    PROVE  QueueInv' /\ AttemptStays
<1>1. Own(b, p, stage[b], mem[b], disk[b], row[b], good[b], exit[b])
    BY AtBatch DEF Own
<1>2. exit[b] \in BOOLEAN /\ UNCHANGED <<around, archived>> /\ loaded' = loaded
    BY AtBatch
<1>3. p \in {"compare", "new", "list", "run", "audit", "copy", "recheck", "save"} /\ p # "save"
    OBVIOUS
<1> QED
    BY <1>1, <1>2, <1>3, WorkStep

LEMMA FreezeStep ==
    ASSUME QueueInv, NEW b \in Batches, Freeze(b)
    PROVE  QueueInv' /\ AttemptStays
<1>1. PICK o \in {Completed(TRUE, world), Failed} : Ended(b, o)
    BY DEF Freeze
<1>2. /\ at[b] = "freeze" /\ at' = [at EXCEPT ![b] = "save"]
      /\ UNCHANGED <<around, archived, runs>>
    BY DEF Freeze, Goto
<1>3. world \in Versions
    BY DEF QueueInv, Typed
<1>4. o \in Outcomes /\ o.state # "none" /\ (o.status => o.state = "complete")
  <2>1. TRUE \in BOOLEAN /\ world \in Versions \cup {0}
      BY <1>3
  <2>2. CASE o = Completed(TRUE, world)
      BY <2>1, <2>2, OutcomeFacts
  <2>3. CASE o = Failed
      BY <2>3, OutcomeFacts
  <2> QED
      BY <1>1, <2>2, <2>3
<1>5. stage[b] = "freeze"
    BY <1>2, AtBatch, AtWork DEF Placed
<1>6. Backed(b, stage[b], [mem[b] EXCEPT !.stages[stage[b]] = o], runs)
    BY <1>5, StageNames DEF Backed
<1> QED
    BY <1>1, <1>2, <1>4, <1>5, <1>6, EndStep

LEMMA CompareStep ==
    ASSUME QueueInv, NEW b \in Batches, CompareCandidate(b)
    PROVE  QueueInv' /\ AttemptStays
<1>1. at[b] = "compare" /\ UNCHANGED <<around, archived, runs>>
    BY DEF CompareCandidate
<1>2. CASE world = Candidate(b)
  <2>1. at' = [at EXCEPT ![b] = "new"] /\ UNCHANGED <<disk, mem, stage, row, good, loaded, exit>>
      BY <1>2 DEF CompareCandidate, Goto
  <2>2. Local(b, at[b], stage[b], mem[b], disk[b], row[b], good[b], runs)
      BY AtBatch
  <2>3. Placed(b, "new", stage[b], mem[b], disk[b], row[b], good[b], runs)
      BY <1>1, <2>2, AtWork, StageNames DEF Placed
  <2>4. row[b] \in Nat /\ good[b] \in BOOLEAN
      BY <2>2 DEF Local
  <2>5. Local(b, "new", stage[b], mem[b], disk[b], row[b], good[b], runs)
      BY <1>1, <2>2, <2>3, <2>4, GoLocal DEF Steps
  <2>6. TypedRuns(runs') /\ \A c : SameRuns(c, runs, runs')
      BY <1>1, AtBatch
  <2> QED
      BY <1>1, <2>1, <2>5, <2>6, GoStep
<1>3. CASE world # Candidate(b)
  <2>1. at' = [at EXCEPT ![b] = "save"] /\ Ended(b, Failed)
      BY <1>3 DEF CompareCandidate, Goto
  <2> QED
      BY <1>1, <2>1, FailStep
<1> QED
    BY <1>2, <1>3

LEMMA NewRunStep ==
    ASSUME QueueInv, NEW b \in Batches, NewRun(b)
    PROVE  QueueInv' /\ AttemptStays
<1> DEFINE x == [made |-> world, used |-> Read(b, {loaded[b], world}), called |-> FALSE,
                 status |-> "open", delivery |-> "none", audited |-> "none"]
<1>1. /\ at[b] = "new" /\ at' = [at EXCEPT ![b] = "list"]
      /\ UNCHANGED <<around, archived, disk, stage, mem, row, good, loaded, exit>>
      /\ runs' = [k \in DOMAIN runs \cup {Key(b)} |-> IF k = Key(b) THEN x ELSE runs[k]]
    BY DEF NewRun, Goto
<1>2. Local(b, at[b], stage[b], mem[b], disk[b], row[b], good[b], runs)
    BY AtBatch
<1>3. Key(b) = RunKey(b, stage[b], row[b]) /\ Key(b) \in Keys /\ Key(b).batch = b /\ TypedRuns(runs)
    BY AtBatch DEF Key
<1>4. x \in Runs
  <2>1. world \in Versions /\ loaded[b] \in Versions
      BY <1>1 DEF QueueInv, Typed
  <2> QED
      BY <2>1 DEF Runs, Deliveries, Read
<1>5. /\ DOMAIN runs' = DOMAIN runs \cup {Key(b)} /\ runs'[Key(b)] = x
      /\ \A k \in DOMAIN runs \ {Key(b)} : runs'[k] = runs[k]
    BY <1>1
<1>6. runs' = [k \in DOMAIN runs \cup {Key(b)} |-> runs'[k]]
    BY <1>1
<1>7. \A k \in DOMAIN runs' : runs'[k] \in Runs
    BY <1>3, <1>4, <1>5 DEF TypedRuns
<1>8. TypedRuns(runs')
    BY <1>3, <1>5, <1>6, <1>7 DEF TypedRuns
<1>9. /\ \A c \in Batches \ {b} : SameRuns(c, runs, runs')
      /\ SameBut(b, stage[b], row[b], runs, runs')
    BY <1>3, <1>5 DEF SameRuns, SameBut
<1>10. ~runs'[Key(b)].called
    BY <1>5
<1>11. Placed(b, "list", stage[b], mem[b], disk[b], row[b], good[b], runs')
  <2>1. Placed(b, "new", stage[b], mem[b], disk[b], row[b], good[b], runs)
      BY <1>1, <1>2, AtWork
  <2>2. row[b] \in Nat /\ stage[b] \in Stages
      BY <1>2 DEF Local
  <2>3. \A i \in 1..(row[b] - 1) : RunKey(b, stage[b], i) \in Keys \ {RunKey(b, stage[b], row[b])}
    <3>1. \A i \in 1..(row[b] - 1) : i \in Nat /\ i # row[b]
        BY <2>2
    <3> QED
        BY <2>2, <3>1, RunKeys
  <2>4. \A i \in 1..(row[b] - 1) :
            RunKey(b, stage[b], i) \in DOMAIN runs /\ runs[RunKey(b, stage[b], i)].called
            => RunKey(b, stage[b], i) \in DOMAIN runs' /\ runs'[RunKey(b, stage[b], i)].called
      BY <1>9, <2>3 DEF SameBut
  <2>5. RunKey(b, stage[b], row[b]) \in DOMAIN runs'
      BY <1>3, <1>5
  <2> QED
      BY <2>1, <2>4, <2>5 DEF Placed
<1>12. Local(b, "list", stage[b], mem[b], disk[b], row[b], good[b], runs')
    BY <1>1, <1>2, <1>3, <1>8, <1>9, <1>10, <1>11, RunLocal DEF Steps, TypedRuns
<1> QED
    BY <1>1, <1>8, <1>9, <1>12, GoStep

LEMMA NewRunFailsStep ==
    ASSUME QueueInv, NEW b \in Batches, NewRunFails(b)
    PROVE  QueueInv' /\ AttemptStays
<1>1. /\ at[b] = "new" /\ at' = [at EXCEPT ![b] = "save"] /\ Ended(b, Failed)
      /\ UNCHANGED <<around, archived, runs>>
    BY DEF NewRunFails, Goto
<1> QED
    BY <1>1, FailStep

\* The list of runs is on disk before the run can spend.
LEMMA ListRunStep ==
    ASSUME QueueInv, NEW b \in Batches, ListRun(b)
    PROVE  QueueInv' /\ AttemptStays
<1> DEFINE m == [mem[b] EXCEPT !.runs = @ \cup {Key(b)}]
<1>1. /\ at[b] = "list" /\ at' = [at EXCEPT ![b] = "run"]
      /\ UNCHANGED <<around, archived, stage, row, good, loaded, exit, runs>>
      /\ mem' = [mem EXCEPT ![b].runs = @ \cup {Key(b)}] /\ disk' = [disk EXCEPT ![b] = mem'[b]]
    BY DEF ListRun, Goto
<1>2. Local(b, at[b], stage[b], mem[b], disk[b], row[b], good[b], runs)
    BY AtBatch
<1>3. /\ mem[b] \in Records /\ stage[b] \in Stages /\ row[b] \in Nat
      /\ mem[b].stages = disk[b].stages /\ disk[b].runs \subseteq mem[b].runs
      /\ mem[b].admission = disk[b].admission
    BY <1>1, <1>2, AtWork DEF Copied
<1>4. Key(b) = RunKey(b, stage[b], row[b]) /\ Key(b) \in Keys
    BY AtBatch
<1>5. /\ m \in Records /\ m.runs = mem[b].runs \cup {Key(b)} /\ m.stages = mem[b].stages
      /\ m.admission = mem[b].admission /\ m.child = mem[b].child /\ m.paid = mem[b].paid
      /\ m.status = mem[b].status
    BY <1>3, <1>4 DEF Records
<1>6. mem' = [mem EXCEPT ![b] = m] /\ disk' = [disk EXCEPT ![b] = m]
    BY <1>1 DEF QueueInv, Typed
<1> HIDE DEF m
<1>7. Placed(b, "run", stage[b], m, m, row[b], good[b], runs)
  <2>1. Placed(b, "list", stage[b], mem[b], disk[b], row[b], good[b], runs)
      BY <1>1, <1>2, AtWork
  <2> QED
      BY <1>4, <1>5, <2>1 DEF Placed
<1>8. Local(b, "run", stage[b], m, m, row[b], good[b], runs)
    BY <1>1, <1>2, <1>5, <1>7, SaveLocal DEF Steps
<1>9. Own(b, "run", stage[b], m, m, row[b], good[b], exit[b])
    BY <1>1, <1>6, AtBatch DEF Own
<1>10. exit[b] \in BOOLEAN /\ TypedRuns(runs') /\ \A c : SameRuns(c, runs, runs')
    BY <1>1, AtBatch
<1>11. m.stages = disk[b].stages /\ m.admission = disk[b].admission /\ disk[b].runs \subseteq m.runs
    BY <1>3, <1>5
<1>12. stage[b] \in Stages /\ "parallel" \in Stages
    BY <1>3, StageNames
<1> QED
    BY <1>1, <1>8, <1>9, <1>10, <1>11, WorkStep

\* A run at work that goes on: it has spent, or it has read the candidate.
LEMMA UseRun ==
    ASSUME QueueInv, NEW b \in Batches, at[b] \in {"run", "recheck"}, Key(b) \in disk[b].runs,
           NEW x \in Runs, runs[Key(b)].called => x.called, x.made = runs[Key(b)].made,
           x.status = runs[Key(b)].status, x.audited = runs[Key(b)].audited,
           runs' = [runs EXCEPT ![Key(b)] = x],
           UNCHANGED <<around, archived, disk, at, stage, mem, row, good, loaded, exit>>
    PROVE  QueueInv' /\ AttemptStays
<1>2. Local(b, at[b], stage[b], mem[b], disk[b], row[b], good[b], runs)
    BY AtBatch
<1>3. Key(b) = RunKey(b, stage[b], row[b])
    BY AtBatch
<1>4. /\ Key(b) \in DOMAIN runs /\ mem[b].paid /\ disk[b].paid
      /\ Placed(b, at[b], stage[b], mem[b], disk[b], row[b], good[b], runs)
      /\ row[b] \in Nat /\ stage[b] \in Stages
    BY <1>2, <1>3, AtWork DEF Placed, Copied
<1>8. /\ TypedRuns(runs') /\ (\A c \in Batches \ {b} : SameRuns(c, runs, runs'))
      /\ SameBut(b, stage[b], row[b], runs, runs')
      /\ runs'[Key(b)] = x /\ DOMAIN runs' = DOMAIN runs
    BY <1>4, SetRun
<1>9. Placed(b, at[b], stage[b], mem[b], disk[b], row[b], good[b], runs')
  <2>1. \A i \in 1..(row[b] - 1) : RunKey(b, stage[b], i) \in Keys \ {RunKey(b, stage[b], row[b])}
    <3>1. \A i \in 1..(row[b] - 1) : i \in Nat /\ i # row[b]
        BY <1>4
    <3> QED
        BY <1>4, <3>1, RunKeys
  <2>2. \A i \in 1..(row[b] - 1) :
            RunKey(b, stage[b], i) \in DOMAIN runs /\ runs[RunKey(b, stage[b], i)].called
            => RunKey(b, stage[b], i) \in DOMAIN runs' /\ runs'[RunKey(b, stage[b], i)].called
      BY <1>8, <2>1 DEF SameBut
  <2> QED
      BY <1>3, <1>4, <1>8, <2>2 DEF Placed
<1>10. Local(b, at[b], stage[b], mem[b], disk[b], row[b], good[b], runs')
  <2>1. at[b] \in Steps \ {"idle", "boot", "archive", "save"}
      BY DEF Steps
  <2>2. DOMAIN runs' \subseteq Keys /\ SameBut(b, stage[b], row[b], runs, runs')
      BY <1>8 DEF TypedRuns
  <2>3. RunKey(b, stage[b], row[b]) \in disk[b].runs /\ disk[b].paid
      BY <1>3, <1>4
  <2> QED
      BY <1>2, <1>9, <2>1, <2>2, <2>3, RunLocal
<1>11. at' = [at EXCEPT ![b] = at[b]]
    BY DEF QueueInv, Typed
<1>12. at[b] \in {"compare", "new", "list", "run", "audit", "copy", "recheck"}
    OBVIOUS
<1> QED
    BY <1>8, <1>10, <1>11, <1>12, GoStep

LEMMA CallStep ==
    ASSUME QueueInv, NEW b \in Batches, Call(b)
    PROVE  QueueInv' /\ AttemptStays
<1> DEFINE x == [runs[Key(b)] EXCEPT !.called = TRUE, !.used = @ \cup Read(b, {world})]
<1>1. /\ at[b] = "run"
      /\ runs' = [runs EXCEPT ![Key(b)].called = TRUE, ![Key(b)].used = @ \cup Read(b, {world})]
      /\ UNCHANGED <<around, archived, disk, at, stage, mem, row, good, loaded, exit>>
    BY DEF Call, process
<1>2. Key(b) \in DOMAIN runs /\ Key(b) \in disk[b].runs
    BY <1>1, AtBatch, AtWork DEF Placed
<1>3. runs[Key(b)] \in Runs /\ TypedRuns(runs)
    BY <1>2, AtBatch DEF TypedRuns
<1>4. world \in Versions
    BY DEF QueueInv, Typed
<1>5. /\ x \in Runs /\ x.called = TRUE /\ x.made = runs[Key(b)].made
      /\ x.status = runs[Key(b)].status /\ x.audited = runs[Key(b)].audited
    BY <1>3, <1>4 DEF Runs, Read
<1>6. runs' = [runs EXCEPT ![Key(b)] = x]
    BY <1>1, <1>2, <1>3 DEF TypedRuns
<1> HIDE DEF x
<1> QED
    BY <1>1, <1>2, <1>5, <1>6, UseRun

LEMMA ReadStep ==
    ASSUME QueueInv, NEW b \in Batches, ReadCandidate(b)
    PROVE  QueueInv' /\ AttemptStays
<1> DEFINE x == [runs[Key(b)] EXCEPT !.used = @ \cup {world}]
<1>1. /\ at[b] \in {"run", "recheck"} /\ runs[Key(b)].called
      /\ runs' = [runs EXCEPT ![Key(b)].used = @ \cup {world}]
      /\ UNCHANGED <<around, archived, disk, at, stage, mem, row, good, loaded, exit>>
    BY DEF ReadCandidate, process
<1>2. Key(b) \in DOMAIN runs /\ Key(b).batch = b /\ Key(b) = RunKey(b, stage[b], row[b])
    BY <1>1, AtBatch, AtWork DEF Placed, Key
<1>3. Key(b) \in disk[b].runs
    BY <1>1, <1>2, AtBatch, AtWork DEF Calls
<1>4. runs[Key(b)] \in Runs
    BY <1>2, AtBatch DEF TypedRuns
<1>5. world \in Versions
    BY DEF QueueInv, Typed
<1>6. /\ x \in Runs /\ x.called = runs[Key(b)].called /\ x.made = runs[Key(b)].made
      /\ x.status = runs[Key(b)].status /\ x.audited = runs[Key(b)].audited
    BY <1>4, <1>5 DEF Runs
<1>7. runs' = [runs EXCEPT ![Key(b)] = x]
    BY <1>1
<1> HIDE DEF x
<1> QED
    BY <1>1, <1>3, <1>6, <1>7, UseRun

\* The run at work has ended, with a status.
LEMMA StatusRun ==
    ASSUME QueueInv, NEW b \in Batches, at[b] = "run",
           NEW x \in Runs, x.made = runs[Key(b)].made, x.called = runs[Key(b)].called,
           runs' = [runs EXCEPT ![Key(b)] = x]
    PROVE  /\ Local(b, "run", stage[b], mem[b], disk[b], row[b], good[b], runs')
           /\ TypedRuns(runs') /\ (\A c \in Batches \ {b} : SameRuns(c, runs, runs'))
           /\ Key(b) \in DOMAIN runs' /\ runs'[Key(b)] = x
<1>1. Local(b, "run", stage[b], mem[b], disk[b], row[b], good[b], runs)
    BY AtBatch
<1>2. Key(b) = RunKey(b, stage[b], row[b])
    BY AtBatch
<1>3. /\ Key(b) \in DOMAIN runs /\ Key(b) \in disk[b].runs /\ mem[b].paid /\ disk[b].paid
      /\ Placed(b, "run", stage[b], mem[b], disk[b], row[b], good[b], runs)
      /\ row[b] \in Nat /\ stage[b] \in Stages
    BY <1>1, <1>2, AtWork DEF Placed, Copied
<1>4. /\ TypedRuns(runs') /\ (\A c \in Batches \ {b} : SameRuns(c, runs, runs'))
      /\ SameBut(b, stage[b], row[b], runs, runs')
      /\ runs'[Key(b)] = x /\ DOMAIN runs' = DOMAIN runs
    BY <1>3, SetRun
<1>5. Placed(b, "run", stage[b], mem[b], disk[b], row[b], good[b], runs')
  <2>1. \A i \in 1..(row[b] - 1) : RunKey(b, stage[b], i) \in Keys \ {RunKey(b, stage[b], row[b])}
    <3>1. \A i \in 1..(row[b] - 1) : i \in Nat /\ i # row[b]
        BY <1>3
    <3> QED
        BY <1>3, <3>1, RunKeys
  <2>2. \A i \in 1..(row[b] - 1) :
            RunKey(b, stage[b], i) \in DOMAIN runs /\ runs[RunKey(b, stage[b], i)].called
            => RunKey(b, stage[b], i) \in DOMAIN runs' /\ runs'[RunKey(b, stage[b], i)].called
      BY <1>4, <2>1 DEF SameBut
  <2> QED
      BY <1>2, <1>3, <1>4, <2>2 DEF Placed
<1>6. Local(b, "run", stage[b], mem[b], disk[b], row[b], good[b], runs')
    BY <1>1, <1>2, <1>3, <1>4, <1>5, RunLocal DEF Steps, TypedRuns
<1> QED
    BY <1>3, <1>4, <1>6

LEMMA SucceedStep ==
    ASSUME QueueInv, NEW b \in Batches, GenerationSucceeds(b)
    PROVE  QueueInv' /\ AttemptStays
<1> DEFINE x == [runs[Key(b)] EXCEPT !.status = "success", !.delivery = "delivered"]
<1>1. /\ at[b] = "run" /\ at' = [at EXCEPT ![b] = "audit"] /\ stage[b] \in Generation
      /\ runs' = [runs EXCEPT ![Key(b)].status = "success", ![Key(b)].delivery = "delivered"]
      /\ UNCHANGED <<around, archived, disk, stage, mem, row, good, loaded, exit>>
    BY DEF GenerationSucceeds, Goto
<1>2. Local(b, at[b], stage[b], mem[b], disk[b], row[b], good[b], runs)
    BY AtBatch
<1>3. Key(b) = RunKey(b, stage[b], row[b]) /\ TypedRuns(runs)
    BY AtBatch
<1>4. Key(b) \in DOMAIN runs
    BY <1>1, <1>2, <1>3, AtWork DEF Placed
<1>5. runs[Key(b)] \in Runs
    BY <1>3, <1>4 DEF TypedRuns
<1>6. /\ x \in Runs /\ x.made = runs[Key(b)].made /\ x.called = runs[Key(b)].called
      /\ x.status = "success" /\ x.delivery = "delivered"
    BY <1>5 DEF Runs, Deliveries
<1>7. runs' = [runs EXCEPT ![Key(b)] = x]
    BY <1>1, <1>3, <1>4 DEF TypedRuns
<1> HIDE DEF x
<1>8. /\ Local(b, "run", stage[b], mem[b], disk[b], row[b], good[b], runs')
      /\ TypedRuns(runs') /\ (\A c \in Batches \ {b} : SameRuns(c, runs, runs'))
      /\ Key(b) \in DOMAIN runs' /\ runs'[Key(b)] = x
    BY <1>1, <1>6, <1>7, StatusRun
<1>9. Placed(b, "audit", stage[b], mem[b], disk[b], row[b], good[b], runs')
  <2>1. Placed(b, "run", stage[b], mem[b], disk[b], row[b], good[b], runs')
      BY <1>8, AtWork
  <2>2. /\ runs'[RunKey(b, stage[b], row[b])].status = "success"
        /\ runs'[RunKey(b, stage[b], row[b])].delivery # "none"
      BY <1>3, <1>6, <1>8
  <2> QED
      BY <1>1, <2>1, <2>2, StageNames DEF Placed
<1>10. row[b] \in Nat /\ good[b] \in BOOLEAN
    BY <1>2 DEF Local
<1>11. Local(b, "audit", stage[b], mem[b], disk[b], row[b], good[b], runs')
    BY <1>8, <1>9, <1>10, GoLocal DEF Steps
<1> QED
    BY <1>1, <1>8, <1>11, GoStep

LEMMA GenerationFailsStep ==
    ASSUME QueueInv, NEW b \in Batches, GenerationFails(b)
    PROVE  QueueInv' /\ AttemptStays
<1> DEFINE m == [mem[b] EXCEPT !.stages[stage[b]] = Failed]
<1>1. /\ at[b] = "run" /\ at' = [at EXCEPT ![b] = "save"] /\ stage[b] \in Generation
      /\ Ended(b, Failed) /\ UNCHANGED <<around, archived>>
    BY DEF GenerationFails, Goto
<1>2. PICK status \in {"open", "failed"} : runs' = [runs EXCEPT ![Key(b)].status = status]
    BY DEF GenerationFails
<1> DEFINE x == [runs[Key(b)] EXCEPT !.status = status]
<1>3. Key(b) = RunKey(b, stage[b], row[b]) /\ TypedRuns(runs)
    BY AtBatch
<1>4. Key(b) \in DOMAIN runs
    BY <1>1, <1>3, AtBatch, AtWork DEF Placed
<1>5. runs[Key(b)] \in Runs
    BY <1>3, <1>4 DEF TypedRuns
<1>6. x \in Runs /\ x.made = runs[Key(b)].made /\ x.called = runs[Key(b)].called
    BY <1>5 DEF Runs
<1>7. runs' = [runs EXCEPT ![Key(b)] = x]
    BY <1>2
<1> HIDE DEF x
<1>8. /\ Local(b, "run", stage[b], mem[b], disk[b], row[b], good[b], runs')
      /\ TypedRuns(runs') /\ (\A c \in Batches \ {b} : SameRuns(c, runs, runs'))
    BY <1>1, <1>6, <1>7, StatusRun
<1>9. Local(b, "save", stage[b], m, disk[b], row[b], good[b], runs')
    BY <1>8, FailLocal
<1>10. Own(b, "save", stage[b], m, disk[b], row[b], good[b], exit[b])
    BY <1>1, AtBatch DEF Own, Ended
<1>11. exit[b] \in BOOLEAN /\ stage[b] # "parallel" /\ loaded' = loaded
    BY <1>1, AtBatch, StageNames DEF Ended
<1> HIDE DEF m
<1> QED
    BY <1>1, <1>8, <1>9, <1>10, <1>11, WorkStep

LEMMA AuditStep ==
    ASSUME QueueInv, NEW b \in Batches, Audit(b)
    PROVE  QueueInv' /\ AttemptStays
<1>1. at[b] = "audit" /\ UNCHANGED <<around, archived, runs>>
    BY DEF Audit
<1>2. CASE /\ Auditable(b) /\ Goto(b, "audit", "copy")
           /\ UNCHANGED <<disk, mem, stage, row, good, loaded, exit>>
  <2>1. at' = [at EXCEPT ![b] = "copy"]
      BY <1>2 DEF Goto
  <2>2. Local(b, at[b], stage[b], mem[b], disk[b], row[b], good[b], runs)
      BY AtBatch
  <2>3. runs[RunKey(b, stage[b], row[b])].made = mem[b].stages["freeze"].candidate
      BY <1>2, AtBatch DEF Auditable, Candidate
  <2>4. Placed(b, "copy", stage[b], mem[b], disk[b], row[b], good[b], runs)
      BY <1>1, <2>2, <2>3, AtWork DEF Placed
  <2>5. row[b] \in Nat /\ good[b] \in BOOLEAN
      BY <2>2 DEF Local
  <2>6. Local(b, "copy", stage[b], mem[b], disk[b], row[b], good[b], runs)
      BY <1>1, <2>2, <2>4, <2>5, GoLocal DEF Steps
  <2>7. TypedRuns(runs') /\ \A c : SameRuns(c, runs, runs')
      BY <1>1, AtBatch
  <2> QED
      BY <1>1, <1>2, <2>1, <2>6, <2>7, GoStep
<1>3. CASE Goto(b, "audit", "save") /\ Ended(b, Failed)
  <2>1. at' = [at EXCEPT ![b] = "save"]
      BY <1>3 DEF Goto
  <2> QED
      BY <1>1, <1>3, <2>1, FailStep
<1> QED
    BY <1>2, <1>3 DEF Audit

\* The run at work has another delivery audited.
LEMMA CopyStep ==
    ASSUME QueueInv, NEW b \in Batches, CopyDelivery(b)
    PROVE  QueueInv' /\ AttemptStays
<1> DEFINE x == [runs[Key(b)] EXCEPT !.audited = runs[Key(b)].delivery]
<1>1. /\ at[b] = "copy" /\ at' = [at EXCEPT ![b] = "recheck"]
      /\ runs' = [runs EXCEPT ![Key(b)].audited = runs[Key(b)].delivery]
      /\ UNCHANGED <<around, archived, disk, stage, mem, row, good, loaded, exit>>
    BY DEF CopyDelivery, Goto
<1>2. Local(b, at[b], stage[b], mem[b], disk[b], row[b], good[b], runs)
    BY AtBatch
<1>3. Key(b) = RunKey(b, stage[b], row[b]) /\ TypedRuns(runs) /\ Key(b) \in Keys
    BY AtBatch
<1>4. /\ Key(b) \in DOMAIN runs /\ row[b] \in Nat /\ good[b] \in BOOLEAN
      /\ Placed(b, "copy", stage[b], mem[b], disk[b], row[b], good[b], runs)
      /\ Calls(b, disk[b], runs)
    BY <1>1, <1>2, <1>3, AtWork DEF Placed
<1>5. runs[Key(b)] \in Runs
    BY <1>3, <1>4 DEF TypedRuns
<1>6. /\ x \in Runs /\ x.made = runs[Key(b)].made /\ x.called = runs[Key(b)].called
      /\ x.status = runs[Key(b)].status /\ x.audited = runs[Key(b)].delivery
      /\ x.delivery = runs[Key(b)].delivery
    BY <1>5 DEF Runs
<1>7. runs' = [runs EXCEPT ![Key(b)] = x]
    BY <1>1
<1> HIDE DEF x
<1>8. /\ TypedRuns(runs') /\ (\A c \in Batches \ {b} : SameRuns(c, runs, runs'))
      /\ SameBut(b, stage[b], row[b], runs, runs')
      /\ runs'[Key(b)] = x /\ DOMAIN runs' = DOMAIN runs
    BY <1>4, <1>6, <1>7, SetRun
<1>9. x.called => Key(b) \in disk[b].runs /\ disk[b].paid
    BY <1>3, <1>4, <1>6, RunKeys DEF Calls, Key
<1>10. Placed(b, "recheck", stage[b], mem[b], disk[b], row[b], good[b], runs')
  <2>1. /\ runs[Key(b)].status = "success" /\ runs[Key(b)].delivery # "none"
        /\ runs[Key(b)].made = mem[b].stages["freeze"].candidate
      BY <1>3, <1>4 DEF Placed
  <2> QED
      BY <1>3, <1>4, <1>6, <1>8, <2>1 DEF Placed
<1>11. Local(b, "recheck", stage[b], mem[b], disk[b], row[b], good[b], runs')
  <2>1. "recheck" \in Steps \ {"idle", "boot", "archive", "save"} /\ DOMAIN runs' \subseteq Keys
      BY <1>8 DEF Steps, TypedRuns
  <2>2. at[b] \notin {"idle", "boot", "archive", "save"}
      BY <1>1
  <2> QED
      BY <1>2, <1>3, <1>8, <1>9, <1>10, <2>1, <2>2, RunLocal
<1> QED
    BY <1>1, <1>8, <1>11, GoStep

LEMMA AuditFailsStep ==
    ASSUME QueueInv, NEW b \in Batches, AuditFails(b)
    PROVE  QueueInv' /\ AttemptStays
<1>1. /\ at[b] \in {"copy", "recheck"} /\ at' = [at EXCEPT ![b] = "save"] /\ Ended(b, Failed)
      /\ UNCHANGED <<around, archived, runs>>
    BY DEF AuditFails, Goto
<1> QED
    BY <1>1, FailStep

LEMMA RecheckStep ==
    ASSUME QueueInv, NEW b \in Batches, Recheck(b)
    PROVE  QueueInv' /\ AttemptStays
<1>1. /\ at[b] = "recheck" /\ at' = [at EXCEPT ![b] = "save"] /\ UNCHANGED <<around, archived, runs>>
      /\ Ended(b, IF runs[Key(b)].delivery = "delivered" /\ world = Candidate(b)
                  THEN Completed(TRUE, Candidate(b)) ELSE Failed)
    BY DEF Recheck, Goto
<1>2. CASE runs[Key(b)].delivery = "delivered" /\ world = Candidate(b)
  <2> DEFINE o == Completed(TRUE, Candidate(b))
             m == [mem[b] EXCEPT !.stages[stage[b]] = o]
  <2>1. Ended(b, o)
      BY <1>1, <1>2
  <2>2. /\ mem[b] \in Records /\ stage[b] \in Stages
        /\ Placed(b, "recheck", stage[b], mem[b], disk[b], row[b], good[b], runs)
      BY <1>1, AtBatch, AtWork
  <2>3. Candidate(b) \in Versions \cup {0} /\ TRUE \in BOOLEAN
      BY <1>2 DEF QueueInv, Typed
  <2>4. o \in Outcomes /\ o.state = "complete" /\ o.candidate = Candidate(b)
      BY <2>3, OutcomeFacts
  <2> HIDE DEF o
  <2>5. m.stages[stage[b]] = o /\ \A t \in Stages \ {stage[b]} : m.stages[t] = mem[b].stages[t]
      BY <2>2, <2>4, StageSet
  <2>6. stage[b] \in Generation /\ row[b] = 1 /\ stage[b] # "freeze" /\ stage[b] # "parallel"
      BY <2>2, StageNames DEF Placed
  <2>7. m.stages["freeze"].candidate = Candidate(b)
      BY <2>5, <2>6, StageNames DEF Candidate
  <2>8. /\ RunKey(b, stage[b], 1) \in DOMAIN runs /\ runs[RunKey(b, stage[b], 1)].status = "success"
        /\ runs[RunKey(b, stage[b], 1)].made = Candidate(b)
        /\ runs[RunKey(b, stage[b], 1)].audited # "none"
      BY <2>2, <2>6 DEF Placed, Candidate
  <2> HIDE DEF m
  <2>9. Backed(b, stage[b], m, runs)
      BY <2>4, <2>5, <2>6, <2>7, <2>8, StageNames DEF Backed
  <2>10. at[b] \notin {"idle", "boot", "archive"} /\ o.state # "none" /\ (o.status => o.state = "complete")
      BY <1>1, <2>4
  <2> QED
      BY <1>1, <2>1, <2>4, <2>6, <2>9, <2>10, EndStep DEF m
<1>3. CASE ~(runs[Key(b)].delivery = "delivered" /\ world = Candidate(b))
  <2>1. Ended(b, Failed)
      BY <1>1, <1>3
  <2> QED
      BY <1>1, <2>1, FailStep
<1> QED
    BY <1>2, <1>3

LEMMA SpawnFailsStep ==
    ASSUME QueueInv, SpawnFails
    PROVE  QueueInv' /\ AttemptStays
<1>1. /\ at[Top] = "spawn" /\ at' = [at EXCEPT ![Top] = "save"] /\ Ended(Top, Failed)
      /\ UNCHANGED <<around, archived, runs>>
    BY DEF SpawnFails, Goto
<1> QED
    BY <1>1, FailStep, Children3

LEMMA CrashStep ==
    ASSUME QueueInv, NEW b \in Batches, Crash(b)
    PROVE  QueueInv' /\ AttemptStays
<1> DEFINE e == exit[b] /\ at[b] = "archive"
<1>1. /\ at[b] # "idle" /\ at' = [at EXCEPT ![b] = "idle"]
      /\ mem' = [mem EXCEPT ![b] = NoRecord] /\ exit' = [exit EXCEPT ![b] = e]
      /\ loaded' = [loaded EXCEPT ![b] = 0]
      /\ UNCHANGED <<around, stage, row, good, archived, disk, runs>>
    BY DEF Crash, Down, QueueInv, Typed
<1>2. e \in BOOLEAN
    BY AtBatch
<1> HIDE DEF e
<1>3. Own(b, "idle", stage[b], NoRecord, disk[b], row[b], good[b], e)
    BY <1>1, AtBatch DEF Own
<1>4. Local(b, "idle", stage[b], NoRecord, disk[b], row[b], good[b], runs)
    BY AtBatch, GoneLocal
<1>5. TypedRuns(runs') /\ \A c : SameRuns(c, runs, runs')
    BY <1>1, AtBatch
<1>6. Keeps(b, disk[b])
    BY DEF Keeps
<1>7. Typed' /\ AllLocal' /\ Archives' /\ AttemptStays
    BY <1>1, <1>2, <1>3, <1>4, <1>5, <1>6, OwnStep
<1>8. Family'
  <2>1. b = Top => disk[Top].admission # 0
      BY <1>1 DEF QueueInv, Family
  <2>2. CASE b \in ChildSet /\ at[b] # "archive"
      BY <1>1, <1>3, <2>2, ChildFamily
  <2>3. CASE ~(b \in ChildSet /\ at[b] # "archive")
    <3>1. ~Fresh(b)
        BY <1>1 DEF Fresh
    <3> QED
        BY <1>3, <2>1, <2>3, <3>1, RestFamily
  <2> QED
      BY <2>2, <2>3
<1> QED
    BY <1>7, <1>8 DEF QueueInv

LEMMA InterruptStep ==
    ASSUME QueueInv, NEW b \in Batches, Interrupt(b)
    PROVE  QueueInv' /\ AttemptStays
<1> DEFINE d == Concluded(mem[b])
<1>1. /\ at[b] \notin {"idle", "boot", "archive", "save"} /\ at' = [at EXCEPT ![b] = "idle"]
      /\ mem' = [mem EXCEPT ![b] = NoRecord] /\ exit' = [exit EXCEPT ![b] = FALSE]
      /\ disk' = [disk EXCEPT ![b] = d] /\ loaded' = [loaded EXCEPT ![b] = 0]
      /\ UNCHANGED <<around, stage, row, good, archived>>
    BY DEF Interrupt, Down, QueueInv, Typed
<1>2. Own(b, "idle", stage[b], NoRecord, d, row[b], good[b], FALSE)
    BY <1>1, AtBatch DEF Own
<1>3. /\ Local(b, at[b], stage[b], mem[b], disk[b], row[b], good[b], runs')
      /\ TypedRuns(runs') /\ \A c \in Batches \ {b} : SameRuns(c, runs, runs')
  <2>1. CASE at[b] = "run" /\ stage[b] \in Study
    <3> DEFINE x == [runs[Key(b)] EXCEPT !.status = "study_complete"]
    <3>1. runs' = [runs EXCEPT ![Key(b)] = x]
        BY <2>1 DEF Interrupt
    <3>2. Key(b) = RunKey(b, stage[b], row[b]) /\ TypedRuns(runs)
        BY AtBatch
    <3>3. Key(b) \in DOMAIN runs
        BY <2>1, <3>2, AtBatch, AtWork DEF Placed
    <3>4. runs[Key(b)] \in Runs
        BY <3>2, <3>3 DEF TypedRuns
    <3>5. x \in Runs /\ x.made = runs[Key(b)].made /\ x.called = runs[Key(b)].called
        BY <3>4 DEF Runs
    <3> HIDE DEF x
    <3> QED
        BY <2>1, <3>1, <3>5, StatusRun
  <2>2. CASE ~(at[b] = "run" /\ stage[b] \in Study)
    <3>1. runs' = runs
        BY <2>2 DEF Interrupt
    <3> QED
        BY <3>1, AtBatch
  <2> QED
      BY <2>1, <2>2
<1>4. /\ Local(b, "idle", stage[b], NoRecord, d, row[b], good[b], runs')
      /\ d.admission = disk[b].admission /\ disk[b].runs \subseteq d.runs
      /\ \A t \in Stages \ {stage[b]} : d.stages[t] = disk[b].stages[t]
      /\ d.stages[stage[b]] = mem[b].stages[stage[b]]
    BY <1>1, <1>3, ConcludeLocal
<1>5. mem[b].stages = disk[b].stages
    BY <1>1, <1>3, AtWork
<1>6. d.stages["parallel"] = disk[b].stages["parallel"]
    BY <1>4, <1>5, StageNames
<1>7. at[b] \notin {"idle", "boot", "archive"} /\ FALSE \in BOOLEAN /\ UNCHANGED <<around, archived>>
    BY <1>1
<1>8. TypedRuns(runs') /\ \A c \in Batches \ {b} : SameRuns(c, runs, runs')
    BY <1>3
<1> HIDE DEF d
<1>9. PICK e \in BOOLEAN : Own(b, "idle", stage[b], NoRecord, d, row[b], good[b], e)
    BY <1>2, <1>7
<1>10. /\ Local(b, "idle", stage[b], NoRecord, d, row[b], good[b], runs')
       /\ d.admission = disk[b].admission /\ disk[b].runs \subseteq d.runs
       /\ \A t \in Stages \ {stage[b]} : d.stages[t] = disk[b].stages[t]
    BY <1>4
<1>11. loaded' = [loaded EXCEPT ![b] = 0]
    BY <1>1
<1> QED
    BY <1>6, <1>7, <1>8, <1>9, <1>10, <1>11, StopStep

\* A stage that is no parallel stage is saved.
LEMMA SerialSaveStep ==
    ASSUME QueueInv, NEW b \in Batches, Save(b), stage[b] # "parallel"
    PROVE  QueueInv' /\ AttemptStays
<1> DEFINE d == Concluded(mem[b])
<1>1. /\ at[b] = "save" /\ at' = [at EXCEPT ![b] = "idle"]
      /\ mem' = [mem EXCEPT ![b] = NoRecord] /\ exit' = [exit EXCEPT ![b] = Passes(mem[b], stage[b])]
      /\ disk' = [disk EXCEPT ![b] = d] /\ loaded' = [loaded EXCEPT ![b] = 0]
      /\ UNCHANGED <<around, stage, row, good, runs, archived>>
    BY DEF Save, Goto
<1>2. Own(b, "idle", stage[b], NoRecord, d, row[b], good[b], Passes(mem[b], stage[b]))
    BY <1>1, AtBatch DEF Own
<1>3. Local(b, at[b], stage[b], mem[b], disk[b], row[b], good[b], runs)
    BY AtBatch
<1>4. /\ Local(b, "idle", stage[b], NoRecord, d, row[b], good[b], runs)
      /\ d.admission = disk[b].admission /\ disk[b].runs \subseteq d.runs
      /\ \A t \in Stages \ {stage[b]} : d.stages[t] = disk[b].stages[t]
    BY <1>1, <1>3, ConcludeLocal
<1>5. Passes(mem[b], stage[b]) \in BOOLEAN
    BY <1>3, RecordFacts DEF Local, Passes
<1>6. TypedRuns(runs') /\ \A c : SameRuns(c, runs, runs')
    BY <1>1, AtBatch
<1>7. d.stages["parallel"] = disk[b].stages["parallel"]
    BY <1>4, StageNames
<1> HIDE DEF d
<1> QED
    BY <1>1, <1>2, <1>4, <1>5, <1>6, <1>7, StopStep

LEMMA RowOutcomes ==
    ASSUME NEW s \in Study, NEW last \in BOOLEAN, NEW before \in BOOLEAN, NEW ok \in BOOLEAN
    PROVE  LET o == RowOutcome(s, last, before, ok) IN
           /\ o \in Outcomes /\ o.state # "none" /\ (o.status => o.state = "complete")
           /\ (o.status => ok) /\ (o = Started => s = "private-repair" \/ ~last)
           /\ (s = "capability" /\ o.status => last /\ before) /\ (s = "private-repair" => o # Started)
<1>1. 0 \in Versions \cup {0} /\ (before /\ ok) \in BOOLEAN
    OBVIOUS
<1>2. CASE s = "capability"
  <2>1. RowOutcome(s, last, before, ok) = IF last THEN Completed(before /\ ok, 0) ELSE Started
      BY <1>2 DEF RowOutcome, ProbeOutcome
  <2> DEFINE p == before /\ ok
  <2>2. CASE last
    <3>1. RowOutcome(s, last, before, ok) = Completed(p, 0)
        BY <2>1, <2>2
    <3>2. p \in BOOLEAN /\ (p => before /\ ok)
        OBVIOUS
    <3> HIDE DEF p
    <3>3. /\ Completed(p, 0) \in Outcomes /\ Completed(p, 0).state = "complete"
          /\ Completed(p, 0).status = p
        BY <1>1, <3>2, OutcomeFacts
    <3> QED
        BY <1>2, <2>2, <3>1, <3>2, <3>3, OutcomeFacts
  <2>3. CASE ~last
      BY <1>2, <2>1, <2>3, OutcomeFacts
  <2> QED
      BY <2>2, <2>3
<1>3. CASE s = "public-tools"
  <2>1. RowOutcome(s, last, before, ok) =
            IF ~ok THEN Failed ELSE IF last THEN Completed(TRUE, 0) ELSE Started
      BY <1>3 DEF RowOutcome, SessionOutcome
  <2>2. CASE ~ok
      BY <1>3, <2>1, <2>2, OutcomeFacts
  <2>3. CASE ok /\ last
    <3>1. RowOutcome(s, last, before, ok) = Completed(ok, 0)
        BY <2>1, <2>3
    <3>2. Completed(ok, 0) \in Outcomes /\ Completed(ok, 0).state = "complete"
        BY <1>1, OutcomeFacts
    <3> QED
        BY <1>3, <2>3, <3>1, <3>2, OutcomeFacts
  <2>4. CASE ok /\ ~last
      BY <1>3, <2>1, <2>4, OutcomeFacts
  <2> QED
      BY <2>2, <2>3, <2>4
<1>4. CASE s = "private-repair"
  <2>1. RowOutcome(s, last, before, ok) = Completed(ok, 0)
      BY <1>4 DEF RowOutcome, RepairOutcome
  <2> QED
      BY <1>1, <1>4, <2>1, OutcomeFacts
<1> QED
    BY <1>2, <1>3, <1>4 DEF Study

\* A study run ends: the next row, or the end of the stage.
LEMMA StudyRowStep ==
    ASSUME QueueInv, NEW b \in Batches, StudyRowEnds(b)
    PROVE  QueueInv' /\ AttemptStays
<1>1. /\ at[b] = "run" /\ stage[b] \in Study
      /\ UNCHANGED <<around, archived, disk, stage, loaded, exit>>
    BY DEF StudyRowEnds
<1> DEFINE last == row[b] = Rows(stage[b])
<1>2. PICK ok \in BOOLEAN :
          LET result == RowOutcome(stage[b], last, good[b], ok) IN
          /\ ok => RowMayPass(b)
          /\ runs' = [runs EXCEPT ![Key(b)].status = "study_complete"]
          /\ good' = [good EXCEPT ![b] = @ /\ ok]
          /\ mem' = [mem EXCEPT ![b].stages[stage[b]] = result]
          /\ IF result = Started
             THEN Goto(b, "run", "new") /\ row' = [row EXCEPT ![b] = @ + 1]
             ELSE Goto(b, "run", "save") /\ UNCHANGED row
    BY DEF StudyRowEnds
<1> DEFINE o == RowOutcome(stage[b], last, good[b], ok)
           m == [mem[b] EXCEPT !.stages[stage[b]] = o]
           x == [runs[Key(b)] EXCEPT !.status = "study_complete"]
           h == good[b] /\ ok
<1>3. Key(b) = RunKey(b, stage[b], row[b]) /\ TypedRuns(runs)
    BY AtBatch
<1>4. /\ Key(b) \in DOMAIN runs /\ stage[b] \in Stages /\ mem[b] \in Records
      /\ row[b] \in Nat /\ good[b] \in BOOLEAN
    BY <1>1, <1>3, AtBatch, AtWork DEF Placed
<1>5. runs[Key(b)] \in Runs
    BY <1>3, <1>4 DEF TypedRuns
<1>6. x \in Runs /\ x.made = runs[Key(b)].made /\ x.called = runs[Key(b)].called
    BY <1>5 DEF Runs
<1>7. runs' = [runs EXCEPT ![Key(b)] = x]
    BY <1>2
<1> HIDE DEF x
<1>8. /\ Local(b, "run", stage[b], mem[b], disk[b], row[b], good[b], runs')
      /\ TypedRuns(runs') /\ (\A c \in Batches \ {b} : SameRuns(c, runs, runs'))
      /\ Key(b) \in DOMAIN runs' /\ runs'[Key(b)] = x
    BY <1>1, <1>6, <1>7, StatusRun
<1>9. ok => runs'[Key(b)].called
    BY <1>2, <1>6, <1>8 DEF RowMayPass
<1>10. /\ o \in Outcomes /\ o.state # "none" /\ (o.status => o.state = "complete")
       /\ (o.status => ok) /\ (o = Started => stage[b] = "private-repair" \/ ~last)
       /\ (stage[b] = "capability" /\ o.status => last /\ good[b])
       /\ (stage[b] = "private-repair" => o # Started)
  <2>1. last \in BOOLEAN
      OBVIOUS
  <2> HIDE DEF last
  <2> QED
      BY <1>1, <1>4, <2>1, RowOutcomes
<1>11. mem' = [mem EXCEPT ![b] = m] /\ good' = [good EXCEPT ![b] = h] /\ h \in BOOLEAN
    BY <1>2, <1>4
<1>12. /\ m \in Records /\ m.stages[stage[b]] = o
       /\ \A t \in Stages \ {stage[b]} : m.stages[t] = mem[b].stages[t]
       /\ m.admission = mem[b].admission /\ m.child = mem[b].child /\ m.paid = mem[b].paid
       /\ m.runs = mem[b].runs /\ m.status = mem[b].status
    BY <1>4, <1>10, StageSet
<1>13. Placed(b, "run", stage[b], mem[b], disk[b], row[b], good[b], runs') /\ mem[b].stages = disk[b].stages
    BY <1>8, AtWork
<1>14. exit[b] \in BOOLEAN /\ stage[b] # "parallel" /\ disk = [disk EXCEPT ![b] = disk[b]]
       /\ stage = [stage EXCEPT ![b] = stage[b]] /\ exit = [exit EXCEPT ![b] = exit[b]]
       /\ row = [row EXCEPT ![b] = row[b]]
    BY <1>1, AtBatch, StageNames
<1>15. stage[b] = "capability" => Rows(stage[b]) = CapabilityRows
    BY DEF Rows
<1>16. CASE o = Started
  <2>1. at' = [at EXCEPT ![b] = "new"] /\ row' = [row EXCEPT ![b] = row[b] + 1]
      BY <1>2, <1>16 DEF Goto
  <2>2. stage[b] = "capability" => row[b] # CapabilityRows
      BY <1>10, <1>15, <1>16
  <2> HIDE DEF o, m, last
  <2>3. m = mem[b]
    <3>1. m.stages = mem[b].stages
      <4>1. mem[b].stages[stage[b]] = Started
          BY <1>8, AtWork
      <4>2. \A t \in Stages : m.stages[t] = mem[b].stages[t]
          BY <1>12, <1>16, <4>1
      <4>3. m.stages \in [Stages -> Outcomes] /\ mem[b].stages \in [Stages -> Outcomes]
          BY <1>4, <1>12, RecordFacts
      <4> QED
          BY <4>2, <4>3
    <3> QED
        BY <1>4, <1>12, <3>1 DEF Records
  <2>4. Placed(b, "new", stage[b], mem[b], disk[b], row[b] + 1, h, runs')
    <3>1. stage[b] \notin Generation
        BY <1>1, StageNames
    <3>2. stage[b] = "capability" =>
              /\ row[b] + 1 \in 1..CapabilityRows
              /\ h => \A i \in 1..((row[b] + 1) - 1) :
                         RunKey(b, stage[b], i) \in DOMAIN runs' /\ runs'[RunKey(b, stage[b], i)].called
      <4> SUFFICES ASSUME stage[b] = "capability"
                   PROVE  /\ row[b] + 1 \in 1..CapabilityRows
                          /\ h => \A i \in 1..((row[b] + 1) - 1) :
                                RunKey(b, stage[b], i) \in DOMAIN runs' /\ runs'[RunKey(b, stage[b], i)].called
          OBVIOUS
      <4>1. row[b] \in 1..CapabilityRows /\ CapabilityRows \in Nat
          BY <1>13, RowsAssumption DEF Placed
      <4>2. row[b] + 1 \in 1..CapabilityRows
          BY <2>2, <4>1
      <4>3. ASSUME h, NEW i \in 1..((row[b] + 1) - 1)
            PROVE  RunKey(b, stage[b], i) \in DOMAIN runs' /\ runs'[RunKey(b, stage[b], i)].called
        <5>1. CASE i = row[b]
            BY <1>3, <1>8, <1>9, <4>3, <5>1
        <5>2. CASE i # row[b]
          <6>1. i \in 1..(row[b] - 1)
              BY <4>1, <5>2
          <6> QED
              BY <1>13, <4>3, <6>1 DEF Placed
        <5> QED
            BY <5>1, <5>2
      <4> QED
          BY <4>2, <4>3
    <3> QED
        BY <1>1, <1>13, <3>1, <3>2 DEF Placed
  <2>5. row[b] + 1 \in Nat
      BY <1>4
  <2>6. Local(b, "new", stage[b], mem[b], disk[b], row[b] + 1, h, runs')
    <3>1. h \in BOOLEAN /\ "new" \in Steps \ {"idle", "boot", "archive", "save"}
        BY <1>11 DEF Steps
    <3> HIDE DEF h
    <3> QED
        BY <1>8, <2>4, <2>5, <3>1, GoLocal
  <2>7. Own(b, "new", stage[b], mem[b], disk[b], row[b] + 1, h, exit[b])
      BY <1>1, <1>11, <1>14, <2>1, <2>3 DEF Own
  <2> HIDE DEF h
  <2>8. at[b] \notin {"idle", "boot", "archive"} /\ UNCHANGED <<around, archived>> /\ loaded' = loaded
      BY <1>1
  <2>9. TypedRuns(runs') /\ (\A c \in Batches \ {b} : SameRuns(c, runs, runs'))
      BY <1>8
  <2> QED
      BY <1>14, <2>6, <2>7, <2>8, <2>9, WorkStep, SMTT(30)
<1>17. CASE o # Started
  <2>1. at' = [at EXCEPT ![b] = "save"] /\ row' = row
      BY <1>2, <1>17 DEF Goto
  <2>2. stage[b] = "capability" /\ o.status => row[b] = CapabilityRows /\ good[b] /\ ok
      BY <1>10, <1>15
  <2> HIDE DEF o, m, last
  <2>3. Backed(b, stage[b], m, runs')
    <3>1. stage[b] \notin Generation
        BY <1>1, StageNames
    <3>2. ASSUME Passes(m, stage[b]), stage[b] = "capability", NEW i \in 1..CapabilityRows
          PROVE  RunKey(b, stage[b], i) \in DOMAIN runs' /\ runs'[RunKey(b, stage[b], i)].called
      <4>1. row[b] = CapabilityRows /\ good[b] /\ ok /\ CapabilityRows \in Nat
          BY <1>12, <2>2, <3>2, RowsAssumption DEF Passes
      <4>2. CASE i = row[b]
          BY <1>3, <1>8, <1>9, <4>1, <4>2
      <4>3. CASE i # row[b]
        <5>1. i \in 1..(row[b] - 1)
            BY <4>1, <4>3
        <5> QED
            BY <1>13, <3>2, <4>1, <5>1 DEF Placed
      <4> QED
          BY <4>2, <4>3
    <3> QED
        BY <3>1, <3>2 DEF Backed
  <2>4. Local(b, "save", stage[b], m, disk[b], row[b], h, runs')
    <3>1. h \in BOOLEAN
        BY <1>11
    <3> HIDE DEF h
    <3>2. o \in Outcomes /\ o.state # "none" /\ (o.status => o.state = "complete")
        BY <1>10
    <3> QED
        BY <1>8, <2>3, <3>1, <3>2, EndLocal DEF m
  <2>5. Own(b, "save", stage[b], m, disk[b], row[b], h, exit[b])
      BY <1>1, <1>11, <1>14, <2>1 DEF Own
  <2> HIDE DEF h
  <2>6. at[b] \notin {"idle", "boot", "archive"} /\ UNCHANGED <<around, archived>> /\ loaded' = loaded
      BY <1>1
  <2>7. TypedRuns(runs') /\ (\A c \in Batches \ {b} : SameRuns(c, runs, runs'))
      BY <1>8
  <2> QED
      BY <1>14, <2>4, <2>5, <2>6, <2>7, WorkStep
<1> QED
    BY <1>16, <1>17

-----------------------------------------------------------------------------
(* The operations that begin, and those of parallel.                       *)

LEMMA CommandStep ==
    ASSUME QueueInv, Command
    PROVE  QueueInv' /\ AttemptStays
<1>1. PICK s \in ByHand : /\ Goto(Top, "boot", IF s = "freeze" THEN "freeze" ELSE "pay")
                          /\ Begin(Top, s)
    BY DEF Command
<1> DEFINE p == IF s = "freeze" THEN "freeze" ELSE "pay"
           d == disk[Top]
           e == [d EXCEPT !.stages[s] = Started]
<1>2. /\ at[Top] = "boot" /\ at' = [at EXCEPT ![Top] = p] /\ Gate(d, s)
      /\ stage' = [stage EXCEPT ![Top] = s] /\ mem' = [mem EXCEPT ![Top] = e]
      /\ disk' = [disk EXCEPT ![Top] = mem'[Top]] /\ row' = [row EXCEPT ![Top] = 1]
      /\ good' = [good EXCEPT ![Top] = TRUE] /\ UNCHANGED <<around, loaded, exit, runs, archived>>
    BY <1>1 DEF Goto, Begin, Admitted
<1>3. Local(Top, at[Top], stage[Top], mem[Top], d, row[Top], good[Top], runs) /\ exit[Top] \in BOOLEAN
      /\ exit = [exit EXCEPT ![Top] = exit[Top]] /\ Top \in Batches
    BY AtBatch, Children3
<1>4. s \in Stages /\ p \in {"freeze", "pay"} /\ (p = "freeze" <=> s = "freeze")
    BY <1>1, ByHandAssumption
<1>5. disk' = [disk EXCEPT ![Top] = e]
    BY <1>2, <1>3 DEF QueueInv, Typed
<1>0. e = Begun(d, s) /\ p = IF s = "freeze" THEN "freeze" ELSE "pay"
    BY DEF Begun
<1>a. disk[Top].admission # 0
    BY <1>2 DEF QueueInv, Family
<1> HIDE DEF p, e, d
<1>6. /\ Local(Top, p, s, e, e, 1, TRUE, runs) /\ e.admission = d.admission /\ e.runs = d.runs
      /\ e.stages[s] = Started /\ \A t \in Stages \ {s} : e.stages[t] = d.stages[t]
      /\ \A t \in Stages : Attempted(d, t) => e.stages[t] = d.stages[t]
  <2>1. Gate(d, s) /\ Local(Top, at[Top], stage[Top], mem[Top], d, row[Top], good[Top], runs)
      BY <1>2, <1>3
  <2>2. Local(Top, p, s, e, e, 1, TRUE, runs)
      BY <1>4, <1>0, <2>1, BeginLocal
  <2>3. d \in Records /\ ~Attempted(d, s)
      BY <1>4, <2>1, GateFacts DEF Local
  <2>4. /\ e.admission = d.admission /\ e.runs = d.runs
        /\ e.stages[s] = Started /\ \A t \in Stages \ {s} : e.stages[t] = d.stages[t]
      BY <1>4, <1>0, <2>3, BegunFacts
  <2>5. \A t \in Stages : Attempted(d, t) => t # s
      BY <2>3
  <2> QED
      BY <2>2, <2>4, <2>5
<1> USE DEF d
<1>7. Own(Top, p, s, e, e, 1, TRUE, exit[Top])
    BY <1>2, <1>3, <1>5 DEF Own
<1>8. Keeps(Top, e)
    BY <1>6 DEF Keeps
<1>9. TypedRuns(runs') /\ (\A c : SameRuns(c, runs, runs')) /\ Local(Top, p, s, e, e, 1, TRUE, runs')
      /\ UNCHANGED <<around, archived>>
      /\ loaded' = loaded /\ at[Top] \notin {"idle", "archive"}
    BY <1>2, <1>3, <1>6, AtBatch
<1>10. Typed' /\ AllLocal' /\ Archives' /\ AttemptStays
    BY <1>3, <1>7, <1>8, <1>9, OwnStep
<1>11. Family'
  <2>1. Family
      BY DEF QueueInv
  <2>2. ~Attempted(d, s)
      BY <1>2, <1>3, <1>4, GateFacts DEF Local
  <2>3. CASE s = "parallel"
    <3>1. \A i \in 1..3 : Fresh(Children[i])
        BY <2>1, <2>2, <2>3 DEF Family
    <3>2. e.stages["parallel"].state # "complete" /\ ~Passes(e, "parallel")
        BY <1>6, <2>3, OutcomeFacts DEF Passes
    <3>3. e.admission # 0 /\ p # "boot" /\ p # "spawn" /\ p # "wait" /\ p # "save"
        BY <1>a, <1>4, <1>6
    <3> QED
        BY <1>7, <3>1, <3>2, <3>3, TopFamily
  <2>4. CASE s # "parallel"
    <3>1. e.stages["parallel"] = d.stages["parallel"]
        BY <1>6, <2>4, StageNames
    <3>2. /\ Attempted(e, "parallel") <=> Attempted(d, "parallel")
          /\ Passes(e, "parallel") <=> Passes(d, "parallel")
        BY <3>1 DEF Attempted, Passes
    <3>3. e.admission # 0 /\ p # "boot" /\ p # "spawn" /\ p # "wait" /\ p # "save"
        BY <1>a, <1>4, <1>6
    <3>4. /\ ~Attempted(d, "parallel") => \A i \in 1..3 : Fresh(Children[i])
          /\ d.stages["parallel"].state = "complete" => WaitedFor(3, d.runs)
          /\ Passes(d, "parallel") => HavePassed(3)
        BY <2>1 DEF Family
    <3> QED
        BY <1>6, <1>7, <2>4, <3>1, <3>2, <3>3, <3>4, TopFamily
  <2> QED
      BY <2>3, <2>4
<1> QED
    BY <1>10, <1>11 DEF QueueInv

LEMMA ChildBeginsStep ==
    ASSUME QueueInv, NEW i \in 1..3, ChildBegins(i)
    PROVE  QueueInv' /\ AttemptStays
<1> DEFINE b == Children[i]
           s == ChildStage[i]
           d == disk[b]
           e == [d EXCEPT !.stages[s] = Started]
<1>1. /\ at[b] = "boot" /\ at' = [at EXCEPT ![b] = "pay"] /\ Gate(d, s)
      /\ stage' = [stage EXCEPT ![b] = s] /\ mem' = [mem EXCEPT ![b] = e]
      /\ disk' = [disk EXCEPT ![b] = mem'[b]] /\ row' = [row EXCEPT ![b] = 1]
      /\ good' = [good EXCEPT ![b] = TRUE] /\ UNCHANGED <<around, loaded, exit, runs, archived>>
    BY DEF ChildBegins, Goto, Begin, Admitted
<1>2. b \in ChildSet /\ b \in Batches /\ s \in Generation /\ s \in Stages /\ s # "freeze"
    BY Children3, StageNames
<1> HIDE DEF b, s
<1>3. Local(b, at[b], stage[b], mem[b], d, row[b], good[b], runs) /\ exit[b] \in BOOLEAN
      /\ exit = [exit EXCEPT ![b] = exit[b]]
    BY <1>2, AtBatch
<1>4. disk' = [disk EXCEPT ![b] = e]
    BY <1>1, <1>2 DEF QueueInv, Typed
<1>0. e = Begun(d, s) /\ "pay" = IF s = "freeze" THEN "freeze" ELSE "pay"
    BY <1>2 DEF Begun
<1> HIDE DEF e, d
<1>5. /\ Local(b, "pay", s, e, e, 1, TRUE, runs)
      /\ \A t \in Stages : Attempted(d, t) => e.stages[t] = d.stages[t]
  <2>1. Gate(d, s) /\ Local(b, at[b], stage[b], mem[b], d, row[b], good[b], runs) /\ s \in Stages
      BY <1>1, <1>2, <1>3
  <2>2. Local(b, "pay", s, e, e, 1, TRUE, runs)
      BY <1>0, <2>1, BeginLocal
  <2>3. d \in Records /\ ~Attempted(d, s)
      BY <2>1, GateFacts DEF Local
  <2>4. /\ e.admission = d.admission /\ e.runs = d.runs
        /\ e.stages[s] = Started /\ \A t \in Stages \ {s} : e.stages[t] = d.stages[t]
      BY <1>0, <2>1, <2>3, BegunFacts
  <2>5. \A t \in Stages : Attempted(d, t) => t # s
      BY <2>3
  <2> QED
      BY <2>2, <2>4, <2>5
<1> USE DEF d
<1>6. Own(b, "pay", s, e, e, 1, TRUE, exit[b])
    BY <1>1, <1>3, <1>4 DEF Own
<1>7. Keeps(b, e)
    BY <1>5 DEF Keeps
<1>8. TypedRuns(runs') /\ (\A c : SameRuns(c, runs, runs')) /\ Local(b, "pay", s, e, e, 1, TRUE, runs')
      /\ UNCHANGED <<around, archived>> /\ loaded' = loaded /\ at[b] \notin {"idle", "archive"}
    BY <1>1, <1>2, <1>5, AtBatch
<1>9. Typed' /\ AllLocal' /\ Archives' /\ AttemptStays
    BY <1>2, <1>3, <1>6, <1>7, <1>8, OwnStep
<1>10. Family'
    BY <1>1, <1>2, <1>6, ChildFamily
<1> QED
    BY <1>9, <1>10 DEF QueueInv

\* A command loads its modules.
LEMMA LaunchStep ==
    ASSUME QueueInv, Launch
    PROVE  QueueInv' /\ AttemptStays
<1>1. /\ disk[Top].admission # 0 /\ at[Top] = "idle" /\ at' = [at EXCEPT ![Top] = "boot"]
      /\ loaded' = [loaded EXCEPT ![Top] = world]
      /\ UNCHANGED <<around, archived, disk, stage, mem, row, good, exit, runs>>
    BY DEF Launch, Goto
<1>2. /\ world \in Versions \cup {0} /\ world # 0 /\ Top \in Batches /\ loaded'[Top] = world
    BY <1>1, VersionsAssumption, Children3 DEF QueueInv, Typed
<1>3. Local(Top, "idle", stage[Top], mem[Top], disk[Top], row[Top], good[Top], runs) /\ exit[Top] \in BOOLEAN
    BY <1>1, <1>2, AtBatch
<1>4. Local(Top, "boot", stage[Top], mem[Top], disk[Top], row[Top], good[Top], runs')
    BY <1>1, <1>3 DEF Local, Steps
<1>5. Own(Top, "boot", stage[Top], mem[Top], disk[Top], row[Top], good[Top], exit[Top])
    BY <1>1, <1>2, AtBatch DEF Own
<1>6. TypedRuns(runs') /\ (\A c : SameRuns(c, runs, runs')) /\ Keeps(Top, disk[Top]) /\ UNCHANGED around
    BY <1>1, <1>2, AtBatch DEF Keeps
<1>7. /\ Typed' /\ AllLocal' /\ AttemptStays
      /\ \A c \in Batches, t \in Stages : Passes(disk[c], t) => Passes(disk'[c], t)
    BY <1>1, <1>2, <1>3, <1>4, <1>5, <1>6, OwnParts
<1>8. Archives'
    BY <1>1, <1>7 DEF Archives, QueueInv
<1>9. Family'
    BY <1>1, <1>2, <1>5, Children3, RestFamily
<1> QED
    BY <1>7, <1>8, <1>9 DEF QueueInv

\* A command is refused.
LEMMA RefuseStep ==
    ASSUME QueueInv, NEW b \in Batches, Refuse(b)
    PROVE  QueueInv' /\ AttemptStays
<1>1. /\ at[b] = "boot" /\ at' = [at EXCEPT ![b] = "idle"] /\ loaded' = [loaded EXCEPT ![b] = 0]
      /\ UNCHANGED <<around, disk, stage, mem, row, good, exit, runs, archived>>
    BY DEF Refuse, Goto
<1>2. Local(b, at[b], stage[b], mem[b], disk[b], row[b], good[b], runs) /\ exit[b] \in BOOLEAN
    BY AtBatch
<1>3. Local(b, "idle", stage[b], mem[b], disk[b], row[b], good[b], runs')
    BY <1>1, <1>2 DEF Local, Steps
<1>4. Own(b, "idle", stage[b], mem[b], disk[b], row[b], good[b], exit[b])
    BY <1>1, AtBatch DEF Own
<1>5. TypedRuns(runs') /\ (\A c : SameRuns(c, runs, runs')) /\ Keeps(b, disk[b])
    BY <1>1, AtBatch DEF Keeps
<1>6. Typed' /\ AllLocal' /\ Archives' /\ AttemptStays
    BY <1>1, <1>2, <1>3, <1>4, <1>5, OwnStep
<1>7. b = Top => disk[Top].admission # 0
    BY <1>1 DEF QueueInv, Family
<1>8. Family'
    BY <1>1, <1>4, <1>7, RestFamily
<1> QED
    BY <1>6, <1>8 DEF QueueInv

LEMMA PrepareStep ==
    ASSUME QueueInv, Prepare
    PROVE  QueueInv' /\ AttemptStays
<1> DEFINE e == [NoRecord EXCEPT !.admission = world]
<1>1. /\ disk[Top].admission = 0 /\ disk' = [disk EXCEPT ![Top] = e]
      /\ UNCHANGED <<around, at, stage, mem, row, good, loaded, exit, runs, archived>>
    BY DEF Prepare, process
<1>2. /\ disk[Top] = NoRecord /\ at[Top] = "idle" /\ world \in Versions /\ world # 0 /\ Top \in Batches
      /\ Family
    BY <1>1, VersionsAssumption, Children3 DEF QueueInv, Family, Typed
<1>3. Local(Top, at[Top], stage[Top], mem[Top], NoRecord, row[Top], good[Top], runs) /\ exit[Top] \in BOOLEAN
    BY <1>2, AtBatch
<1>4. /\ e \in Records /\ e.stages = NoRecord.stages /\ e.status = NoRecord.status
      /\ e.runs = NoRecord.runs /\ e.paid = NoRecord.paid /\ e.admission = world
    BY <1>2, NoRecordFacts DEF Records
<1> HIDE DEF e
<1>5. Calls(Top, e, runs)
    BY <1>3, <1>4 DEF Local, Calls
<1>6. Sound(e) /\ \A t \in Stages : Backed(Top, t, e, runs)
    BY <1>3, <1>4, SameStages DEF Local
<1>7. Local(Top, "idle", stage[Top], mem[Top], e, row[Top], good[Top], runs)
    BY <1>2, <1>3, <1>4, <1>5, <1>6 DEF Local
<1>8. at = [at EXCEPT ![Top] = "idle"]
    BY <1>2 DEF QueueInv, Typed
<1>9. Own(Top, "idle", stage[Top], mem[Top], e, row[Top], good[Top], exit[Top])
    BY <1>1, <1>2, <1>8, AtBatch DEF Own
<1>10. Keeps(Top, e)
    BY <1>2, NoRecordFacts DEF Keeps
<1>11. TypedRuns(runs') /\ (\A c : SameRuns(c, runs, runs')) /\ UNCHANGED <<around, archived>>
       /\ Local(Top, "idle", stage[Top], mem[Top], e, row[Top], good[Top], runs') /\ loaded' = loaded
    BY <1>1, <1>2, <1>7, AtBatch
<1>12. Typed' /\ AllLocal' /\ Archives' /\ AttemptStays
    BY <1>2, <1>3, <1>9, <1>10, <1>11, OwnStep
<1>13. ~Attempted(e, "parallel") /\ ~Passes(e, "parallel") /\ e.stages["parallel"].state # "complete"
    BY <1>4, NoRecordFacts, StageNames, OutcomeFacts DEF Attempted, Passes
<1>14. \A i \in 1..3 : Fresh(Children[i])
    BY <1>2, NoRecordFacts, StageNames DEF Family
<1>15. Family'
    BY <1>2, <1>4, <1>9, <1>13, <1>14, TopFamily
<1> QED
    BY <1>12, <1>15 DEF QueueInv

LEMMA RecordPaidStep ==
    ASSUME QueueInv, NEW b \in Batches, RecordPaid(b)
    PROVE  QueueInv' /\ AttemptStays
<1> DEFINE p == IF stage[b] \in Generation THEN "compare"
                ELSE IF stage[b] = "parallel" THEN "spawn" ELSE "new"
           e == [mem[b] EXCEPT !.paid = TRUE]
<1>1. /\ at[b] = "pay" /\ at' = [at EXCEPT ![b] = p]
      /\ mem' = [mem EXCEPT ![b].paid = TRUE] /\ disk' = [disk EXCEPT ![b] = mem'[b]]
      /\ UNCHANGED <<around, stage, row, good, loaded, exit, runs, archived>>
    BY DEF RecordPaid, Goto
<1>2. Local(b, at[b], stage[b], mem[b], disk[b], row[b], good[b], runs) /\ exit[b] \in BOOLEAN
    BY AtBatch
<1>3. /\ mem[b] \in Records /\ stage[b] \in Stages /\ row[b] \in Nat
      /\ mem[b].stages = disk[b].stages /\ disk[b].runs \subseteq mem[b].runs
      /\ mem[b].admission = disk[b].admission
      /\ Placed(b, "pay", stage[b], mem[b], disk[b], row[b], good[b], runs)
      /\ Attempted(disk[b], stage[b]) /\ ~Passes(disk[b], stage[b])
      /\ disk[b].stages[stage[b]].state # "complete"
    BY <1>1, <1>2, AtWork DEF Copied
<1>4. /\ e \in Records /\ e.runs = mem[b].runs /\ e.stages = mem[b].stages /\ e.paid = TRUE
      /\ e.admission = mem[b].admission /\ e.child = mem[b].child /\ e.status = mem[b].status
    BY <1>3 DEF Records
<1>5. mem' = [mem EXCEPT ![b] = e] /\ disk' = [disk EXCEPT ![b] = e]
    BY <1>1 DEF QueueInv, Typed
<1> HIDE DEF e
<1>6. stage[b] \notin Generation \cup {"parallel"} => stage[b] \in Study
    BY <1>3, StageNames DEF Placed, Stages
<1>7. p \in Steps \ {"idle", "boot", "archive", "save"} /\ p \in {"compare", "spawn", "new"}
    BY DEF Steps
<1>8. Placed(b, p, stage[b], e, e, row[b], good[b], runs)
    BY <1>3, <1>4, <1>6, StageNames DEF Placed
<1>9. p = "spawn" => stage[b] = "parallel"
    OBVIOUS
<1> HIDE DEF p
<1>10. Local(b, p, stage[b], e, e, row[b], good[b], runs)
    BY <1>1, <1>2, <1>4, <1>7, <1>8, SaveLocal
<1>11. Own(b, p, stage[b], e, e, row[b], good[b], exit[b])
    BY <1>1, <1>5, AtBatch DEF Own
<1>12. TypedRuns(runs') /\ (\A c : SameRuns(c, runs, runs')) /\ UNCHANGED <<around, archived>>
       /\ Local(b, p, stage[b], e, e, row[b], good[b], runs')
       /\ loaded' = loaded /\ at[b] \notin {"idle", "archive"}
    BY <1>1, <1>10, AtBatch
<1>13. e.stages = disk[b].stages /\ e.admission = disk[b].admission /\ disk[b].runs \subseteq e.runs
    BY <1>3, <1>4
<1>14. CASE p # "spawn"
  <2>1. p \in {"compare", "new", "list", "run", "audit", "copy", "recheck", "save"} /\ p # "save"
      BY <1>7, <1>14
  <2>2. at[b] \notin {"idle", "boot", "archive"} /\ exit[b] \in BOOLEAN
      BY <1>1, <1>2
  <2>3. "parallel" \in Stages
      BY StageNames
  <2> QED
      BY <1>11, <1>12, <1>13, <2>1, <2>2, <2>3, WorkStep
<1>15. CASE p = "spawn"
  <2>1. Keeps(b, e)
      BY <1>13 DEF Keeps
  <2>2. Typed' /\ AllLocal' /\ Archives' /\ AttemptStays
      BY <1>2, <1>11, <1>12, <2>1, OwnStep
  <2>3. Family'
    <3>1. CASE b \in ChildSet
        BY <1>1, <1>11, <3>1, ChildFamily
    <3>2. CASE b = Top
      <4>1. Family /\ stage[Top] = "parallel" /\ row[Top] = 1
          BY <1>3, <1>9, <1>15, <3>2 DEF QueueInv, Placed
      <4>2. \A i \in 1..3 : Fresh(Children[i])
          BY <1>1, <3>2, <4>1 DEF Family
      <4>3. e.admission # 0
          BY <1>1, <1>13, <3>2, <4>1 DEF Family
      <4>4. e.stages["parallel"].state # "complete" /\ ~Passes(e, "parallel")
          BY <1>3, <1>13, <3>2, <4>1 DEF Passes
      <4> QED
          BY <1>11, <1>15, <3>2, <4>1, <4>2, <4>3, <4>4, TopFamily
    <3> QED
        BY <3>1, <3>2, Children3
  <2> QED
      BY <2>2, <2>3 DEF QueueInv
<1> QED
    BY <1>14, <1>15

\* What a child starts from.
LEMMA InheritedLocal ==
    ASSUME NEW m \in Records, Sound(m), NEW c \in ChildSet, NEW rs, Calls(c, NoRecord, rs)
    PROVE  LET d == Inherited(m) IN
           d \in Records /\ Sound(d) /\ Calls(c, d, rs) /\ \A t \in Stages : Backed(c, t, d, rs)
<1> DEFINE d == Inherited(m)
           f == [s \in Stages |-> IF s \in Study \cup {"freeze"} THEN m.stages[s] ELSE NotAttempted]
<1>1. f \in [Stages -> Outcomes]
    BY RecordFacts, OutcomeFacts
<1>2. /\ \A t \in Study \cup {"freeze"} : f[t] = m.stages[t]
      /\ \A t \in Generation \cup {"parallel"} : f[t] = NotAttempted
    BY StageNames
<1>3. d = [m EXCEPT !.child = TRUE, !.runs = {}, !.status = FALSE, !.stages = f]
    BY DEF Inherited
<1> HIDE DEF f, d
<1>4. d \in Records /\ d.stages = f /\ d.status = FALSE /\ d.runs = {}
    BY <1>1, <1>3 DEF Records, Outcomes
<1>5. /\ \A t \in Study \cup {"freeze"} : (Passes(d, t) <=> Passes(m, t)) /\ (Attempted(d, t) <=> Attempted(m, t))
      /\ \A t \in Generation \cup {"parallel"} : ~Passes(d, t) /\ ~Attempted(d, t)
    BY <1>2, <1>4, OutcomeFacts DEF Passes, Attempted
<1>6. Stages = Study \cup {"freeze"} \cup Generation \cup {"parallel"}
    BY DEF Stages, SerialStages
<1>7. \A t \in Stages : Passes(d, t) => d.stages[t].state = "complete"
    BY <1>2, <1>4, <1>5, <1>6 DEF Sound
<1>8. Attempted(d, "freeze") => \A t \in Study : Passes(d, t)
    BY <1>5 DEF Sound
<1>9. Sound(d)
    BY <1>4, <1>5, <1>7, <1>8 DEF Sound
<1>10. Calls(c, d, rs)
    BY NoRecordFacts DEF Calls
<1>11. \A t \in Stages : Backed(c, t, d, rs)
    BY <1>5, Children3 DEF Backed
<1> QED
    BY <1>4, <1>9, <1>10, <1>11 DEF d

LEMMA SpawnStep ==
    ASSUME QueueInv, Spawn
    PROVE  QueueInv' /\ AttemptStays
<1> DEFINE c == Children[row[Top]]
           d == Inherited(mem[Top])
           a == IF row[Top] = 3 THEN "wait" ELSE "spawn"
           q == IF row[Top] = 3 THEN 1 ELSE row[Top] + 1
<1>1. /\ at[Top] = "spawn" /\ disk' = [disk EXCEPT ![c] = d]
      /\ at' = [at EXCEPT ![c] = "boot", ![Top] = a]
      /\ row' = [row EXCEPT ![Top] = IF @ = 3 THEN 1 ELSE @ + 1]
      /\ loaded' = [loaded EXCEPT ![c] = world]
      /\ UNCHANGED <<around, stage, mem, good, exit, runs, archived>>
    BY DEF Spawn
<1>2. Family /\ Typed /\ AllLocal /\ Archives /\ Top \in Batches
    BY Children3 DEF QueueInv
<1>3. row[Top] \in 1..3 /\ \A i \in row[Top]..3 : Fresh(Children[i])
    BY <1>1, <1>2 DEF Family
<1>4. c \in ChildSet /\ c \in Batches /\ c # Top /\ Fresh(c)
    BY <1>3, Children3
<1>5. /\ \A i \in (row[Top] + 1)..3 : Children[i] # c /\ Fresh(Children[i]) /\ i \in 1..3
    BY <1>3, Children3
<1>6. row' = [row EXCEPT ![Top] = q] /\ q \in Nat
    BY <1>1, <1>2, <1>3 DEF Typed
<1>7. Local(Top, at[Top], stage[Top], mem[Top], disk[Top], row[Top], good[Top], runs)
    BY <1>2, AtBatch
<1>8. /\ mem[Top] \in Records /\ Sound(disk[Top]) /\ disk[Top] \in Records /\ stage[Top] \in Stages
      /\ Copied(stage[Top], mem[Top], disk[Top]) /\ good[Top] \in BOOLEAN
      /\ Placed(Top, "spawn", stage[Top], mem[Top], disk[Top], row[Top], good[Top], runs)
      /\ Attempted(disk[Top], stage[Top]) /\ ~Passes(disk[Top], stage[Top])
      /\ disk[Top].stages[stage[Top]].state # "complete"
    BY <1>1, <1>7, AtWork
<1>9. stage[Top] = "parallel" /\ mem[Top].paid
    BY <1>8 DEF Placed
<1>10. Sound(mem[Top])
    BY <1>8, CopySound
<1>11. Local(c, at[c], stage[c], mem[c], disk[c], row[c], good[c], runs) /\ disk[c] = NoRecord
    BY <1>4, AtBatch DEF Fresh
<1>12. d \in Records /\ Sound(d) /\ Calls(c, d, runs) /\ \A t \in Stages : Backed(c, t, d, runs)
    BY <1>4, <1>8, <1>10, <1>11, InheritedLocal DEF Local
<1> HIDE DEF d, c
<1>13. /\ at'[c] = "boot" /\ at'[Top] = a /\ \A b \in Batches \ {c, Top} : at'[b] = at[b]
       /\ at' \in [Batches -> Steps]
  <2>1. at \in [Batches -> Steps] /\ a \in Steps /\ "boot" \in Steps
      BY <1>2 DEF Typed, Steps
  <2> QED
      BY <1>1, <1>2, <1>4, <2>1
<1>14. /\ disk'[c] = d /\ \A b \in Batches \ {c} : disk'[b] = disk[b]
       /\ disk' \in [Batches -> Records]
    BY <1>1, <1>2, <1>4, <1>12 DEF Typed
<1>15. /\ row'[Top] = q /\ \A b \in Batches \ {Top} : row'[b] = row[b]
       /\ row' \in [Batches -> Nat]
    BY <1>2, <1>6 DEF Typed
<1>a. /\ loaded' \in [Batches -> Versions \cup {0}] /\ loaded'[Top] # 0 /\ loaded'[c] # 0
      /\ \A b \in Batches \ {c} : loaded'[b] = loaded[b]
    BY <1>1, <1>2, <1>4, VersionsAssumption DEF Typed
<1>b. \A b \in Batches : at'[b] \in {"idle", "archive"} \/ loaded'[b] # 0
    BY <1>2, <1>13, <1>a DEF Typed
<1>16. Typed'
    BY <1>1, <1>2, <1>13, <1>14, <1>15, <1>a, <1>b DEF Typed, around
<1>17. AllLocal'
  <2> SUFFICES ASSUME NEW b \in Batches
               PROVE  Local(b, at'[b], stage[b], mem[b], disk'[b], row'[b], good[b], runs)
      BY <1>1 DEF AllLocal
  <2>1. CASE b = c
      BY <1>4, <1>11, <1>12, <1>13, <1>14, <1>15, <2>1 DEF Local, Steps
  <2>2. CASE b = Top
    <3>1. a \in Steps \ {"idle", "boot", "archive", "save"} /\ a \in {"spawn", "wait"}
        BY DEF Steps
    <3> HIDE DEF a, q
    <3>2. Placed(Top, a, "parallel", mem[Top], disk[Top], q, good[Top], runs)
        BY <1>9, <3>1, StageNames DEF Placed
    <3>3. Local(Top, a, stage[Top], mem[Top], disk[Top], q, good[Top], runs)
        BY <1>1, <1>6, <1>7, <1>8, <1>9, <3>1, <3>2, GoLocal
    <3> QED
        BY <1>2, <1>4, <1>13, <1>14, <1>15, <2>2, <3>3
  <2>3. CASE b \notin {c, Top}
    <3>1. Local(b, at[b], stage[b], mem[b], disk[b], row[b], good[b], runs)
        BY AtBatch
    <3> QED
        BY <1>13, <1>14, <1>15, <2>3, <3>1
  <2> QED
      BY <2>1, <2>2, <2>3
<1>18. \A t \in Stages : ~Attempted(disk[c], t)
    BY <1>11, NoRecordFacts
<1>19. AttemptStays
    BY <1>14, <1>18 DEF AttemptStays
<1>20. \A b \in Batches : at[b] \in {"boot", "archive"} => \A t \in Stages :
           Attempted(disk[b], t) => disk'[b].stages[t] = disk[b].stages[t]
    BY <1>14, <1>18
<1>21. Archives'
  <2>1. \A b \in Batches, t \in Stages : Passes(disk[b], t) => Passes(disk'[b], t)
      BY <1>19, <1>20, StayPassed
  <2> QED
      BY <1>1, <1>2, <2>1 DEF Archives
<1>22. Family'
  <2>1. /\ disk'[Top] = disk[Top] /\ mem'[Top] = mem[Top] /\ stage'[Top] = "parallel" /\ good'[Top] = good[Top]
      BY <1>1, <1>2, <1>4, <1>9, <1>14
  <2>2. disk[Top].admission # 0
      BY <1>1, <1>2 DEF Family
  <2>3. a \in {"spawn", "wait"}
      OBVIOUS
  <2>4. a = "spawn" => q \in 1..3 /\ \A i \in q..3 : Fresh(Children[i])'
    <3>1. \A i \in (row[Top] + 1)..3 : Fresh(Children[i])'
      <4> TAKE i \in (row[Top] + 1)..3
      <4>1. Children[i] # c /\ Fresh(Children[i]) /\ Children[i] \in Batches /\ Children[i] # Top
          BY <1>5, Children3
      <4> QED
          BY <1>13, <1>14, <4>1 DEF Fresh
    <3> QED
        BY <1>3, <3>1
  <2>5. a = "wait" => q = 1
      OBVIOUS
  <2> HIDE DEF a, q
  <2>6. (at[Top] = "wait" => /\ row[Top] \in 1..3 /\ WaitedFor(row[Top] - 1, mem[Top].runs)
                             /\ good[Top] => HavePassed(row[Top] - 1))'
    <3> SUFFICES ASSUME at'[Top] = "wait"
                 PROVE  (/\ row[Top] \in 1..3 /\ WaitedFor(row[Top] - 1, mem[Top].runs)
                         /\ good[Top] => HavePassed(row[Top] - 1))'
        OBVIOUS
    <3>1. row'[Top] = 1
        BY <1>13, <1>15, <2>5
    <3>2. 1..(row'[Top] - 1) = {}
        BY <3>1
    <3> QED
        BY <3>1, <3>2 DEF WaitedFor, HavePassed
  <2>7. Attempted(disk[Top], "parallel") /\ ~Passes(disk[Top], "parallel")
        /\ disk[Top].stages["parallel"].state # "complete"
      BY <1>8, <1>9
  <2>8. at'[Top] \in {"spawn", "wait"} /\ (at'[Top] = "spawn" => a = "spawn") /\ row'[Top] = q
      BY <1>13, <1>15, <2>3
  <2> QED
      BY <2>1, <2>2, <2>4, <2>6, <2>7, <2>8 DEF Family
<1> QED
    BY <1>16, <1>17, <1>19, <1>21, <1>22 DEF QueueInv

\* The copy of a process lists more runs.
LEMMA ListLocal ==
    ASSUME NEW b, NEW a, NEW s, NEW m, NEW d, NEW r, NEW g, NEW rs,
           Local(b, a, s, m, d, r, g, rs), a = "wait",
           NEW e \in Records, e.stages = m.stages, e.status = m.status, e.paid = m.paid,
           e.admission = m.admission, e.child = m.child, m.runs \subseteq e.runs
    PROVE  Local(b, a, s, e, d, r, g, rs)
<1>1. /\ s \in Stages /\ m \in Records /\ d \in Records /\ r \in Nat /\ g \in BOOLEAN
      /\ Calls(b, d, rs) /\ Sound(d) /\ (\A t \in Stages : Backed(b, t, d, rs))
      /\ Copied(s, m, d) /\ Placed(b, a, s, m, d, r, g, rs) /\ m.stages[s] = Started
    BY AtWork
<1>2. Copied(s, e, d)
    BY <1>1 DEF Copied, Attempted, Passes
<1>3. Placed(b, a, s, e, d, r, g, rs)
    BY <1>1 DEF Placed
<1> QED
    BY <1>1, <1>2, <1>3 DEF Local, Working, Steps

LEMMA WaitStep ==
    ASSUME QueueInv, Wait
    PROVE  QueueInv' /\ AttemptStays
<1> DEFINE i == row[Top]
           c == Children[i]
           g == good[Top] /\ Counts(i)
           m == [mem[Top] EXCEPT !.runs = @ \cup disk[c].runs]
           o == Completed(g, 0)
           e == IF i = 3 THEN [m EXCEPT !.stages["parallel"] = o] ELSE m
           a == IF i = 3 THEN "save" ELSE "wait"
<1>1. Typed /\ Family /\ AllLocal /\ Top \in Batches
    BY Children3 DEF QueueInv
<1>2. /\ at[Top] = "wait" /\ at[c] \in {"idle", "archive"}
      /\ at' = [at EXCEPT ![Top] = a]
      /\ UNCHANGED <<around, disk, stage, loaded, exit, runs, archived>>
    BY DEF Wait, Waited
<1>3. /\ i \in 1..3 /\ WaitedFor(i - 1, mem[Top].runs) /\ (good[Top] => HavePassed(i - 1))
    BY <1>1, <1>2 DEF Family
<1>4. c \in ChildSet /\ c \in Batches
    BY <1>3, Children3
<1>5. Local(Top, at[Top], stage[Top], mem[Top], disk[Top], row[Top], good[Top], runs) /\ exit[Top] \in BOOLEAN
    BY <1>1, AtBatch
<1>6. /\ mem[Top] \in Records /\ good[Top] \in BOOLEAN /\ stage[Top] = "parallel"
      /\ disk[Top].stages["parallel"].state # "complete" /\ Attempted(disk[Top], "parallel")
      /\ ~Passes(disk[Top], "parallel") /\ mem[Top].stages["parallel"] = Started
    BY <1>2, <1>5, AtWork DEF Placed
<1>7. disk[c] \in Records
    BY <1>1, <1>4 DEF Typed
<1>8. g \in BOOLEAN /\ (g => good[Top] /\ Passes(disk[c], ChildStage[i]))
    BY DEF Counts
<1>9. good' = [good EXCEPT ![Top] = g] /\ good'[Top] = g
    BY <1>1 DEF Wait, Typed
<1>10. row' = [row EXCEPT ![Top] = i + 1]
    BY DEF Wait
<1> HIDE DEF g
<1>11. /\ m \in Records /\ m.runs = mem[Top].runs \cup disk[c].runs /\ m.stages = mem[Top].stages
       /\ m.status = mem[Top].status /\ m.paid = mem[Top].paid
       /\ m.admission = mem[Top].admission /\ m.child = mem[Top].child
    BY <1>6, <1>7 DEF Records
<1>12. o \in Outcomes /\ o.state = "complete" /\ o.status = g
    BY <1>8, OutcomeFacts
<1>13. mem' = [mem EXCEPT ![Top] = e]
  <2>1. mem' = [mem EXCEPT ![Top].runs = @ \cup disk[c].runs,
                           ![Top].stages["parallel"] = IF i = 3 THEN Completed(good'[Top], 0) ELSE @]
      BY DEF Wait
  <2>2. CASE i = 3
      BY <1>1, <1>9, <2>1, <2>2 DEF Typed
  <2>3. CASE i # 3
    <3>1. mem' = [mem EXCEPT ![Top] = [m EXCEPT !.stages["parallel"] = m.stages["parallel"]]]
        BY <1>1, <1>11, <2>1, <2>3 DEF Typed
    <3>2. [m EXCEPT !.stages["parallel"] = m.stages["parallel"]] = m
      <4>1. [m.stages EXCEPT !["parallel"] = m.stages["parallel"]] = m.stages
          BY <1>11, RecordFacts
      <4> QED
          BY <1>11, <4>1 DEF Records
    <3> QED
        BY <2>3, <3>1, <3>2
  <2> QED
      BY <2>2, <2>3
<1> HIDE DEF m, o
<1>14. Local(Top, "wait", "parallel", m, disk[Top], i, good[Top], runs)
    BY <1>2, <1>5, <1>6, <1>11, ListLocal
<1>15. i + 1 \in Nat
    BY <1>3
<1>16. Local(Top, a, "parallel", e, disk[Top], i + 1, g, runs)
  <2>1. CASE i = 3
    <3>1. Backed(Top, "parallel", [m EXCEPT !.stages["parallel"] = o], runs)
        BY StageNames DEF Backed
    <3>2. Local(Top, "save", "parallel", [m EXCEPT !.stages["parallel"] = o], disk[Top], i, g, runs)
        BY <1>8, <1>12, <1>14, <3>1, EndLocal
    <3>3. Local(Top, "save", "parallel", e, disk[Top], i, g, runs)
        BY <2>1, <3>2
    <3> HIDE DEF e
    <3>4. Placed(Top, "save", "parallel", e, disk[Top], i + 1, g, runs)
        BY StageNames DEF Placed
    <3>5. Local(Top, "save", "parallel", e, disk[Top], i + 1, g, runs)
        BY <1>15, <3>3, <3>4 DEF Local, Working
    <3> QED
        BY <2>1, <3>5
  <2>2. CASE i # 3
    <3>1. Placed(Top, "wait", "parallel", m, disk[Top], i + 1, g, runs)
      <4>1. Placed(Top, "wait", "parallel", m, disk[Top], i, good[Top], runs)
          BY <1>14, AtWork
      <4> QED
          BY <4>1, StageNames DEF Placed
    <3>2. "wait" \in Steps \ {"idle", "boot", "archive", "save"}
        BY DEF Steps
    <3>3. Local(Top, "wait", "parallel", m, disk[Top], i + 1, g, runs)
        BY <1>8, <1>14, <1>15, <3>1, <3>2, GoLocal
    <3> QED
        BY <2>2, <3>3
  <2> QED
      BY <2>1, <2>2
<1>17. e.runs = m.runs /\ (i = 3 => e.stages["parallel"] = o)
  <2>1. CASE i = 3
    <3>1. "parallel" \in Stages /\ e = [m EXCEPT !.stages["parallel"] = o]
        BY <2>1, StageNames
    <3> HIDE DEF e
    <3> QED
        BY <1>11, <1>12, <3>1, StageSet
  <2>2. CASE i # 3
      BY <2>2
  <2> QED
      BY <2>1, <2>2
<1> HIDE DEF e
<1>18. Own(Top, a, "parallel", e, disk[Top], i + 1, g, exit[Top])
    BY <1>1, <1>2, <1>6, <1>9, <1>10, <1>13, AtBatch DEF Own
<1>19. TypedRuns(runs') /\ (\A b : SameRuns(b, runs, runs')) /\ Keeps(Top, disk[Top])
       /\ Local(Top, a, "parallel", e, disk[Top], i + 1, g, runs') /\ UNCHANGED <<around, archived>>
       /\ loaded' = loaded /\ at[Top] \notin {"idle", "archive"}
    BY <1>1, <1>2, <1>16, AtBatch DEF Keeps
<1>20. Typed' /\ AllLocal' /\ Archives' /\ AttemptStays
    BY <1>1, <1>5, <1>18, <1>19, OwnStep
<1>21. Family'
  <2>1. WaitedFor(i, e.runs)
    <3> SUFFICES ASSUME NEW j \in 1..i
                 PROVE  at[Children[j]] \in {"idle", "archive"} /\ disk[Children[j]].runs \subseteq e.runs
        BY DEF WaitedFor
    <3>1. CASE j = i
        BY <1>2, <1>11, <1>17, <3>1
    <3>2. CASE j # i
      <4>1. j \in 1..(i - 1)
          BY <1>3, <3>2
      <4> QED
          BY <1>3, <1>11, <1>17, <4>1 DEF WaitedFor
    <3> QED
        BY <3>1, <3>2
  <2>2. g => HavePassed(i)
    <3> SUFFICES ASSUME g, NEW j \in 1..i
                 PROVE  Passes(disk[Children[j]], ChildStage[j])
        BY DEF HavePassed
    <3>1. CASE j = i
        BY <1>8, <3>1
    <3>2. CASE j # i
      <4>1. j \in 1..(i - 1)
          BY <1>3, <3>2
      <4> QED
          BY <1>3, <1>8, <4>1 DEF HavePassed
    <3> QED
        BY <3>1, <3>2
  <2>3. disk[Top].admission # 0
      BY <1>1, <1>2 DEF Family
  <2>4. a = "wait" => i + 1 \in 1..3 /\ WaitedFor((i + 1) - 1, e.runs) /\ (g => HavePassed((i + 1) - 1))
    <3>1. (i + 1) - 1 = i
        BY <1>3
    <3> QED
        BY <1>3, <2>1, <2>2, <3>1
  <2>5. a = "save" => /\ e.stages["parallel"].state = "complete" => WaitedFor(3, e.runs)
                      /\ Passes(e, "parallel") => HavePassed(3)
      BY <1>12, <1>17, <2>1, <2>2 DEF Passes
  <2>6. a \in {"wait", "save"}
      OBVIOUS
  <2> HIDE DEF a, i
  <2> QED
      BY <1>6, <1>18, <2>3, <2>4, <2>5, <2>6, TopFamily
<1> QED
    BY <1>20, <1>21 DEF QueueInv

\* parallel is saved.
LEMMA ParallelSaveStep ==
    ASSUME QueueInv, NEW b \in Batches, Save(b), stage[b] = "parallel"
    PROVE  QueueInv' /\ AttemptStays
<1> DEFINE d == Concluded(mem[b])
<1>1. /\ at[b] = "save" /\ at' = [at EXCEPT ![b] = "idle"]
      /\ mem' = [mem EXCEPT ![b] = NoRecord] /\ exit' = [exit EXCEPT ![b] = Passes(mem[b], stage[b])]
      /\ disk' = [disk EXCEPT ![b] = d] /\ loaded' = [loaded EXCEPT ![b] = 0]
      /\ UNCHANGED <<around, stage, row, good, runs, archived>>
    BY DEF Save, Goto
<1>2. Own(b, "idle", stage[b], NoRecord, d, row[b], good[b], Passes(mem[b], stage[b]))
    BY <1>1, AtBatch DEF Own
<1>3. Local(b, at[b], stage[b], mem[b], disk[b], row[b], good[b], runs)
    BY AtBatch
<1>4. /\ Local(b, "idle", stage[b], NoRecord, d, row[b], good[b], runs)
      /\ d.admission = disk[b].admission /\ d.runs = mem[b].runs
      /\ \A t \in Stages \ {stage[b]} : d.stages[t] = disk[b].stages[t]
      /\ d.stages[stage[b]] = mem[b].stages[stage[b]]
      /\ \A t \in Stages : Attempted(d, t) <=> Attempted(disk[b], t)
    BY <1>1, <1>3, ConcludeLocal
<1>5. Passes(mem[b], stage[b]) \in BOOLEAN /\ Attempted(disk[b], stage[b]) /\ stage[b] \in Stages
    BY <1>1, <1>3, AtWork, RecordFacts DEF Passes
<1>6. TypedRuns(runs') /\ (\A c : SameRuns(c, runs, runs')) /\ UNCHANGED <<around, archived>>
      /\ Local(b, "idle", stage[b], NoRecord, d, row[b], good[b], runs')
      /\ loaded' \in {loaded, [loaded EXCEPT ![b] = 0]}
    BY <1>1, <1>4, AtBatch
<1>7. Keeps(b, d)
    BY <1>1, <1>4 DEF Keeps
<1> HIDE DEF d
<1>8. Typed' /\ AllLocal' /\ Archives' /\ AttemptStays
    BY <1>2, <1>5, <1>6, <1>7, OwnStep
<1>9. CASE b \in ChildSet
    BY <1>1, <1>2, <1>8, <1>9, ChildFamily DEF QueueInv
<1>10. CASE b = Top
  <2>1. Family
      BY DEF QueueInv
  <2>2. /\ mem[Top].stages["parallel"].state = "complete" => WaitedFor(3, mem[Top].runs)
        /\ Passes(mem[Top], "parallel") => HavePassed(3)
        /\ disk[Top].admission # 0
      BY <1>1, <1>10, <2>1 DEF Family
  <2>3. /\ d.stages["parallel"].state = "complete" => WaitedFor(3, d.runs)
        /\ Passes(d, "parallel") => HavePassed(3)
        /\ Attempted(d, "parallel") /\ d.admission # 0
      BY <1>4, <1>5, <1>10, <2>2 DEF Passes
  <2>4. Family'
      BY <1>2, <1>10, <2>3, TopFamily
  <2> QED
      BY <1>8, <2>4 DEF QueueInv
<1> QED
    BY <1>9, <1>10, Children3

-----------------------------------------------------------------------------
(* What happens around the driver, and the invariant.                      *)

\* A step that no process takes, and that keeps what matters of the runs.
LEMMA AroundStep ==
    ASSUME QueueInv, UNCHANGED <<disk, at, stage, mem, row, good, loaded, exit>>,
           world' \in Versions, changes' \in 0..MaxChanges, edits' \in 0..MaxEdits, TypedRuns(runs'),
           \A c \in Batches : SameRuns(c, runs, runs'), Archives'
    PROVE  QueueInv' /\ AttemptStays
<1>1. Typed'
    BY DEF QueueInv, Typed, TypedRuns
<1>2. AllLocal'
  <2> SUFFICES ASSUME NEW c \in Batches
               PROVE  Local(c, at[c], stage[c], mem[c], disk[c], row[c], good[c], runs')
      BY DEF AllLocal
  <2>1. Local(c, at[c], stage[c], mem[c], disk[c], row[c], good[c], runs)
      BY AtBatch
  <2> QED
      BY <2>1, LocalOnRuns DEF TypedRuns
<1>3. Family'
    BY DEF QueueInv, Family, Fresh, WaitedFor, HavePassed
<1>4. AttemptStays
    BY DEF AttemptStays
<1> QED
    BY <1>1, <1>2, <1>3, <1>4 DEF QueueInv

\* archive checks a sample.
LEMMA CheckArchiveStep ==
    ASSUME QueueInv, CheckArchive
    PROVE  QueueInv' /\ AttemptStays
<1>1. PICK b \in Batches, s \in Generation :
          /\ at[b] = "idle" /\ at' = [at EXCEPT ![b] = "archive"] /\ Passes(disk[b], s)
          /\ stage' = [stage EXCEPT ![b] = s] /\ row' = [row EXCEPT ![b] = 1]
          /\ UNCHANGED <<around, disk, mem, good, loaded, exit, runs, archived>>
    BY DEF CheckArchive, Archivable, Goto
<1>2. Local(b, "idle", stage[b], mem[b], disk[b], row[b], good[b], runs) /\ exit[b] \in BOOLEAN
    BY <1>1, AtBatch
<1>3. s \in Stages
    BY StageNames
<1>4. Local(b, "archive", s, mem[b], disk[b], 1, good[b], runs')
    BY <1>1, <1>2, <1>3 DEF Local, Steps
<1>5. Own(b, "archive", s, mem[b], disk[b], 1, good[b], exit[b])
    BY <1>1, AtBatch DEF Own
<1>6. TypedRuns(runs') /\ (\A c : SameRuns(c, runs, runs')) /\ Keeps(b, disk[b])
    BY <1>1, AtBatch DEF Keeps
<1>7. Typed' /\ AllLocal' /\ Archives' /\ AttemptStays
    BY <1>1, <1>2, <1>4, <1>5, <1>6, OwnStep
<1>8. disk[b] # NoRecord
    BY <1>1, <1>3, NoRecordFacts
<1>9. b = Top => disk[Top].admission # 0
    BY <1>8 DEF QueueInv, Family
<1>10. Family'
    BY <1>5, <1>8, <1>9, RestFamily DEF Fresh
<1> QED
    BY <1>7, <1>10 DEF QueueInv

\* What is archived was found to count, and does so.
LEMMA ArchiveStep ==
    ASSUME QueueInv, NEW b \in Batches, Archive(b)
    PROVE  QueueInv' /\ AttemptStays
<1> DEFINE x == [run |-> Key(b), delivery |-> runs[Key(b)].delivery]
<1>1. /\ at[b] = "archive" /\ at' = [at EXCEPT ![b] = "idle"] /\ archived' = archived \cup {x}
      /\ UNCHANGED <<around, disk, stage, mem, row, good, loaded, exit, runs>>
    BY DEF Archive, Goto
<1>2. Local(b, at[b], stage[b], mem[b], disk[b], row[b], good[b], runs) /\ exit[b] \in BOOLEAN
    BY AtBatch
<1>3. x.run.batch = b /\ x.run.stage = stage[b] /\ stage[b] \in Stages /\ Passes(disk[b], stage[b])
    BY <1>1, <1>2 DEF Local, Key
<1> HIDE DEF x
<1>4. Local(b, "idle", stage[b], mem[b], disk[b], row[b], good[b], runs')
    BY <1>1, <1>2 DEF Local, Steps
<1>5. Own(b, "idle", stage[b], mem[b], disk[b], row[b], good[b], exit[b])
    BY <1>1, AtBatch DEF Own
<1>6. TypedRuns(runs') /\ (\A c : SameRuns(c, runs, runs')) /\ Keeps(b, disk[b]) /\ UNCHANGED around
    BY <1>1, AtBatch DEF Keeps
<1>7. 0 \in Versions \cup {0}
    OBVIOUS
<1>8. Typed' /\ AllLocal' /\ AttemptStays
    BY <1>1, <1>2, <1>4, <1>5, <1>6, <1>7, OwnParts
<1>9. Archives'
    BY <1>1, <1>3 DEF Archives, QueueInv
<1>10. disk[b] # NoRecord /\ (b = Top => disk[Top].admission # 0)
    BY <1>3, NoRecordFacts DEF QueueInv, Family
<1>11. Family'
    BY <1>5, <1>10, RestFamily DEF Fresh
<1> QED
    BY <1>8, <1>9, <1>11 DEF QueueInv

LEMMA ChangeStep ==
    ASSUME QueueInv, ChangeCandidate
    PROVE  QueueInv' /\ AttemptStays
<1>1. /\ world' \in Versions /\ changes < MaxChanges /\ changes' = changes + 1
      /\ UNCHANGED <<edits, disk, at, stage, mem, row, good, loaded, exit, runs, archived>>
    BY DEF ChangeCandidate, process
<1>2. changes' \in 0..MaxChanges /\ edits' \in 0..MaxEdits
    BY <1>1, ChangesAssumption DEF QueueInv, Typed
<1>3. Archives'
    BY <1>1 DEF QueueInv, Archives
<1>4. TypedRuns(runs') /\ (\A c : SameRuns(c, runs, runs'))
    BY <1>1, AtBatch, Children3
<1> QED
    BY <1>1, <1>2, <1>3, <1>4, AroundStep

LEMMA EditStep ==
    ASSUME QueueInv, EditDelivery
    PROVE  QueueInv' /\ AttemptStays
<1>1. PICK k \in DOMAIN runs, edited \in {"delivered", "edited"} :
          /\ edits < MaxEdits /\ edits' = edits + 1
          /\ runs' = [runs EXCEPT ![k].delivery = edited]
          /\ UNCHANGED <<world, changes, disk, process, archived>>
    BY DEF EditDelivery
<1>2. UNCHANGED <<world, changes, disk, at, stage, mem, row, good, loaded, exit, archived>>
    BY <1>1 DEF process
<1>3. TypedRuns(runs)
    BY AtBatch, Children3
<1> DEFINE x == [runs[k] EXCEPT !.delivery = edited]
<1>4. runs[k] \in Runs
    BY <1>3 DEF TypedRuns
<1>5. /\ x \in Runs /\ x.made = runs[k].made /\ x.called = runs[k].called /\ x.status = runs[k].status
      /\ x.audited = runs[k].audited /\ x.delivery # "none"
    BY <1>4 DEF Runs, Deliveries
<1>6. runs' = [runs EXCEPT ![k] = x]
    BY <1>1
<1> HIDE DEF x
<1>7. /\ DOMAIN runs' = DOMAIN runs /\ runs'[k] = x
      /\ \A j \in DOMAIN runs \ {k} : runs'[j] = runs[j]
    BY <1>3, <1>6 DEF TypedRuns
<1>8. TypedRuns(runs')
    BY <1>3, <1>5, <1>6, <1>7 DEF TypedRuns
<1>9. \A c \in Batches : SameRuns(c, runs, runs')
    BY <1>5, <1>7 DEF SameRuns
<1>10. Archives' /\ world' \in Versions /\ changes' \in 0..MaxChanges
    BY <1>2 DEF QueueInv, Archives, Typed
<1>11. edits' \in 0..MaxEdits
    BY <1>1, ChangesAssumption DEF QueueInv, Typed
<1> QED
    BY <1>2, <1>8, <1>9, <1>10, <1>11, AroundStep

LEMMA QueueStutters ==
    ASSUME QueueInv, UNCHANGED vars
    PROVE  QueueInv' /\ AttemptStays
<1>1. UNCHANGED <<around, disk, at, stage, mem, row, good, loaded, exit, runs, archived>>
    BY DEF vars, process
<1>2. /\ TypedRuns(runs') /\ (\A c : SameRuns(c, runs, runs')) /\ world' \in Versions
      /\ changes' \in 0..MaxChanges /\ edits' \in 0..MaxEdits
    BY <1>1, AtBatch, Children3 DEF QueueInv, Typed, around
<1>3. Archives'
    BY <1>1 DEF QueueInv, Archives
<1> QED
    BY <1>1, <1>2, <1>3, AroundStep

LEMMA BatchStep ==
    ASSUME QueueInv, NEW b \in Batches,
           \/ Freeze(b) \/ RecordPaid(b) \/ Save(b)
           \/ CompareCandidate(b) \/ NewRun(b) \/ NewRunFails(b) \/ ListRun(b) \/ Call(b) \/ ReadCandidate(b)
           \/ StudyRowEnds(b) \/ GenerationSucceeds(b) \/ GenerationFails(b)
           \/ Audit(b) \/ CopyDelivery(b) \/ AuditFails(b) \/ Recheck(b) \/ Archive(b)
           \/ Crash(b) \/ Interrupt(b)
    PROVE  QueueInv' /\ AttemptStays
<1>1. CASE Freeze(b)
    BY <1>1, FreezeStep
<1>2. CASE RecordPaid(b)
    BY <1>2, RecordPaidStep
<1>3. CASE Save(b)
    BY <1>3, SerialSaveStep, ParallelSaveStep
<1>4. CASE CompareCandidate(b)
    BY <1>4, CompareStep
<1>5. CASE NewRun(b)
    BY <1>5, NewRunStep
<1>6. CASE NewRunFails(b)
    BY <1>6, NewRunFailsStep
<1>7. CASE ListRun(b)
    BY <1>7, ListRunStep
<1>8. CASE Call(b)
    BY <1>8, CallStep
<1>9. CASE StudyRowEnds(b)
    BY <1>9, StudyRowStep
<1>10. CASE GenerationSucceeds(b)
    BY <1>10, SucceedStep
<1>11. CASE GenerationFails(b)
    BY <1>11, GenerationFailsStep
<1>12. CASE Audit(b)
    BY <1>12, AuditStep
<1>13. CASE Recheck(b)
    BY <1>13, RecheckStep
<1>14. CASE Crash(b)
    BY <1>14, CrashStep
<1>15. CASE Interrupt(b)
    BY <1>15, InterruptStep
<1>16. CASE ReadCandidate(b)
    BY <1>16, ReadStep
<1>17. CASE CopyDelivery(b)
    BY <1>17, CopyStep
<1>18. CASE AuditFails(b)
    BY <1>18, AuditFailsStep
<1>19. CASE Archive(b)
    BY <1>19, ArchiveStep
<1> QED
    BY <1>1, <1>2, <1>3, <1>4, <1>5, <1>6, <1>7, <1>8, <1>9, <1>10, <1>11, <1>12, <1>13, <1>14, <1>15,
       <1>16, <1>17, <1>18, <1>19

LEMMA QueueStep ==
    ASSUME QueueInv, [Next]_vars
    PROVE  QueueInv' /\ AttemptStays
<1>1. CASE Prepare
    BY <1>1, PrepareStep
<1>2. CASE Command
    BY <1>2, CommandStep
<1>3. CASE Spawn
    BY <1>3, SpawnStep
<1>4. CASE SpawnFails
    BY <1>4, SpawnFailsStep
<1>5. CASE Wait
    BY <1>5, WaitStep
<1>6. CASE CheckArchive
    BY <1>6, CheckArchiveStep
<1>7. CASE ChangeCandidate
    BY <1>7, ChangeStep
<1>8. CASE EditDelivery
    BY <1>8, EditStep
<1>9. CASE \E i \in 1..3 : ChildBegins(i) \/ ChildRefused(i)
  <2>1. \A i \in 1..3 : ChildRefused(i) => Refuse(Children[i]) /\ Children[i] \in Batches
      BY Children3 DEF ChildRefused
  <2> QED
      BY <1>9, <2>1, ChildBeginsStep, RefuseStep
<1>10. CASE \E b \in Batches :
                \/ Freeze(b) \/ RecordPaid(b) \/ Save(b)
                \/ CompareCandidate(b) \/ NewRun(b) \/ NewRunFails(b) \/ ListRun(b) \/ Call(b) \/ ReadCandidate(b)
                \/ StudyRowEnds(b) \/ GenerationSucceeds(b) \/ GenerationFails(b)
                \/ Audit(b) \/ CopyDelivery(b) \/ AuditFails(b) \/ Recheck(b) \/ Archive(b)
                \/ Crash(b) \/ Interrupt(b)
    BY <1>10, BatchStep
<1>11. CASE Launch
    BY <1>11, LaunchStep
<1>12. CASE CommandRefused
    BY <1>12, RefuseStep, Children3 DEF CommandRefused
<1>13. CASE UNCHANGED vars
    BY <1>13, QueueStutters
<1> QED
    BY <1>1, <1>2, <1>3, <1>4, <1>5, <1>6, <1>7, <1>8, <1>9, <1>10, <1>11, <1>12, <1>13 DEF Next

LEMMA QueueInit == Init => QueueInv
<1> SUFFICES ASSUME Init PROVE QueueInv
    OBVIOUS
<1>1. Min(Versions) \in Versions
  <2>1. \E x \in Versions : \A y \in Versions : ~ (<<y, x>> \in OpToRel(<, Nat))
      BY VersionsAssumption, NatLessThanWellFounded, WFMin
  <2>2. PICK x \in Versions : \A y \in Versions : ~ (<<y, x>> \in OpToRel(<, Nat))
      BY <2>1
  <2>3. \A y \in Versions : y \in Nat
      BY VersionsAssumption
  <2>4. \A y \in Versions : ~ (y < x)
      BY <2>2, <2>3 DEF OpToRel
  <2>5. \A y \in Versions : x <= y
      BY <2>3, <2>4
  <2>6. \E z \in Versions : \A y \in Versions : z <= y
      BY <2>5
  <2> QED
      BY <2>6 DEF Min
<1>2. /\ world \in Versions /\ changes = 0 /\ edits = 0 /\ archived = {} /\ loaded = [b \in Batches |-> 0]
      /\ DOMAIN runs = {} /\ runs = <<>>
      /\ disk = [b \in Batches |-> NoRecord] /\ at = [b \in Batches |-> "idle"]
      /\ stage = [b \in Batches |-> "freeze"] /\ mem = [b \in Batches |-> NoRecord]
      /\ row = [b \in Batches |-> 0] /\ good = [b \in Batches |-> TRUE] /\ exit = [b \in Batches |-> FALSE]
    BY <1>1 DEF Init
<1>3. Typed
    BY <1>2, NoRecordFacts, StageNames, ChangesAssumption DEF Typed, Steps
<1>4. AllLocal
  <2> SUFFICES ASSUME NEW b \in Batches
               PROVE  Local(b, "idle", "freeze", NoRecord, NoRecord, 0, TRUE, runs)
      BY <1>2 DEF AllLocal
  <2>1. Sound(NoRecord)
      BY NoRecordFacts, StageNames DEF Sound
  <2>2. Calls(b, NoRecord, runs) /\ \A t \in Stages : Backed(b, t, NoRecord, runs)
      BY <1>2, NoRecordFacts DEF Calls, Backed
  <2> QED
      BY <2>1, <2>2, NoRecordFacts, StageNames DEF Local, Steps
<1>5. \A b \in Batches : Fresh(b) /\ ~Passes(disk[b], "parallel") /\ disk[b].stages["parallel"].state # "complete"
    BY <1>2, NoRecordFacts, StageNames, OutcomeFacts DEF Fresh, NoRecord
<1>6. Family
    BY <1>2, <1>5, Children3 DEF Family
<1>7. Archives
    BY <1>2 DEF Archives
<1> QED
    BY <1>3, <1>4, <1>6, <1>7 DEF QueueInv

-----------------------------------------------------------------------------
(* What the commands read of the candidate.  While no change was undone, a *)
(* candidate that was seen is the admitted one or the one that is there    *)
(* after the only change, and a sample begins with the admitted one.       *)

Admission == disk[Top].admission

Resting == {"idle", "archive"}

Seen(v) == v = Admission \/ (changes = 1 /\ v = world)

\* What a record says of the candidate.
Alike(b, m, rs) ==
    /\ Passes(m, "freeze") => Seen(m.stages["freeze"].candidate)
    /\ \A t \in Generation : Passes(m, t) =>
          RunKey(b, t, 1) \in DOMAIN rs /\ rs[RunKey(b, t, 1)].used = {rs[RunKey(b, t, 1)].made}

\* What was read for the runs.
ReadSeen(b, rs) ==
    \A k \in DOMAIN rs : k.batch = b =>
        /\ \A v \in rs[k].used : Seen(v)
        /\ k.stage \in Generation => rs[k].made \in rs[k].used

BatchSight(b) ==
    /\ disk[b].admission \in {0, Admission}
    /\ at[b] \in Resting \/ Seen(loaded[b])
    /\ Alike(b, disk[b], runs) /\ Alike(b, mem[b], runs) /\ ReadSeen(b, runs)
    /\ at[b] \in Resting \cup {"boot"} \/ stage[b] \notin Generation
          \/ mem[b].stages["freeze"].candidate = Admission

Unadmitted ==
    DOMAIN runs = {} /\ \A b \in Batches : disk[b] = NoRecord /\ mem[b] = NoRecord /\ at[b] = "idle"

InSight ==
    /\ IF Admission = 0 THEN Unadmitted ELSE Seen(world)
    /\ \A b \in Batches : BatchSight(b)

Sight == changes < 2 => InSight

OthersStay(b) ==
    \A c \in Batches \ {b} :
        /\ at'[c] = at[c] /\ stage'[c] = stage[c] /\ mem'[c] = mem[c]
        /\ disk'[c] = disk[c] /\ loaded'[c] = loaded[c]

OtherReads(b) ==
    \A k \in Keys : k.batch # b =>
        /\ k \in DOMAIN runs <=> k \in DOMAIN runs'
        /\ k \in DOMAIN runs => runs'[k].used = runs[k].used /\ runs'[k].made = runs[k].made

SameReads ==
    /\ DOMAIN runs' = DOMAIN runs
    /\ \A k \in DOMAIN runs : runs'[k].used = runs[k].used /\ runs'[k].made = runs[k].made

\* What a batch sees after a step that admits and changes nothing.
LEMMA SightCarried ==
    ASSUME NEW c \in Batches, Admission' = Admission, UNCHANGED <<world, changes>>,
           disk'[c].admission \in {0, Admission},
           at'[c] \in Resting \/ Seen(loaded'[c]),
           Alike(c, disk'[c], runs'), Alike(c, mem'[c], runs'), ReadSeen(c, runs'),
           at'[c] \in Resting \cup {"boot"} \/ stage'[c] \notin Generation
              \/ mem'[c].stages["freeze"].candidate = Admission
    PROVE  BatchSight(c)'
<1>1. at'[c] \in Resting \/ Seen(loaded[c])'
    BY DEF Seen
<1>2. Alike(c, disk[c], runs)'
    BY DEF Alike, Seen, Passes
<1>3. Alike(c, mem[c], runs)'
    BY DEF Alike, Seen, Passes
<1>4. ReadSeen(c, runs)'
    BY DEF ReadSeen, Seen
<1> QED
    BY <1>1, <1>2, <1>3, <1>4 DEF BatchSight

\* A step of the batch, by what it leaves behind.
LEMMA SightStep ==
    ASSUME QueueInv, InSight, NEW b \in Batches, UNCHANGED <<world, changes>>, Admission # 0,
           OthersStay(b), OtherReads(b),
           DOMAIN runs' \subseteq Keys, disk'[b].admission = disk[b].admission,
           at'[b] \in Resting \/ Seen(loaded'[b]),
           Alike(b, disk'[b], runs'), Alike(b, mem'[b], runs'), ReadSeen(b, runs'),
           at'[b] \in Resting \cup {"boot"} \/ stage'[b] \notin Generation
              \/ mem'[b].stages["freeze"].candidate = Admission
    PROVE  InSight'
<1>1. Admission' = Admission /\ world' = world /\ changes' = changes
    BY Children3 DEF Admission, OthersStay
<1>2. \A v : Seen(v)' <=> Seen(v)
    BY <1>1 DEF Seen
<1>3. Admission' # 0 /\ Seen(world)'
    BY <1>1 DEF Seen, InSight
<1>4. ASSUME NEW c \in Batches PROVE BatchSight(c)'
  <2>1. /\ disk'[c].admission \in {0, Admission}
        /\ at'[c] \in Resting \/ Seen(loaded'[c])
        /\ Alike(c, disk'[c], runs') /\ Alike(c, mem'[c], runs') /\ ReadSeen(c, runs')
        /\ at'[c] \in Resting \cup {"boot"} \/ stage'[c] \notin Generation
              \/ mem'[c].stages["freeze"].candidate = Admission
    <3>1. BatchSight(c)
        BY DEF InSight
    <3>2. CASE c = b
        BY <1>1, <3>1, <3>2 DEF BatchSight
    <3>3. CASE c # b
      <4>1. /\ at'[c] = at[c] /\ stage'[c] = stage[c] /\ mem'[c] = mem[c]
            /\ disk'[c] = disk[c] /\ loaded'[c] = loaded[c]
          BY <3>3 DEF OthersStay
      <4>2. \A t \in Generation : RunKey(c, t, 1) \in Keys /\ RunKey(c, t, 1).batch # b
          BY <3>3, StageNames, RunKeys
      <4>3. ASSUME NEW m, Alike(c, m, runs) PROVE Alike(c, m, runs')
          BY <4>2, <4>3 DEF Alike, OtherReads
      <4>4. ReadSeen(c, runs')
          BY <3>1, <3>3 DEF BatchSight, ReadSeen, OtherReads
      <4> QED
          BY <1>1, <3>1, <4>1, <4>3, <4>4 DEF BatchSight
    <3> QED
        BY <3>2, <3>3
  <2> QED
      BY <1>1, <2>1, SightCarried
<1> QED
    BY <1>3, <1>4 DEF InSight

\* A record whose passed stages are those of two others.
LEMMA MixedAlike ==
    ASSUME NEW b, NEW m, NEW e, NEW d, NEW rs, NEW q, Alike(b, m, rs), Alike(b, e, rs),
           \A t \in Generation \cup {"freeze"} :
               Passes(d, t) => d.stages[t] = m.stages[t] \/ d.stages[t] = e.stages[t],
           DOMAIN rs \subseteq DOMAIN q,
           \A t \in Generation : RunKey(b, t, 1) \in DOMAIN rs /\ Passes(d, t) =>
               LET k == RunKey(b, t, 1) IN q[k].used = rs[k].used /\ q[k].made = rs[k].made
    PROVE  Alike(b, d, q)
<1>1. ASSUME NEW t \in Generation \cup {"freeze"}, Passes(d, t)
      PROVE  \/ Passes(m, t) /\ d.stages[t] = m.stages[t]
             \/ Passes(e, t) /\ d.stages[t] = e.stages[t]
    BY <1>1 DEF Passes
<1>2. Passes(d, "freeze") => Seen(d.stages["freeze"].candidate)
    BY <1>1 DEF Alike
<1>3. ASSUME NEW t \in Generation, Passes(d, t)
      PROVE  RunKey(b, t, 1) \in DOMAIN q /\ q[RunKey(b, t, 1)].used = {q[RunKey(b, t, 1)].made}
  <2>1. RunKey(b, t, 1) \in DOMAIN rs /\ rs[RunKey(b, t, 1)].used = {rs[RunKey(b, t, 1)].made}
      BY <1>1, <1>3 DEF Alike
  <2> QED
      BY <1>3, <2>1
<1> QED
    BY <1>2, <1>3 DEF Alike

\* A step that reads nothing of the candidate and passes no stage.
LEMMA QuietSight ==
    ASSUME QueueInv, InSight, NEW b \in Batches, UNCHANGED <<world, changes>>, Admission # 0,
           OthersStay(b), SameReads,
           disk'[b].admission = disk[b].admission,
           at'[b] \in Resting \/ (at[b] \notin Resting /\ loaded'[b] = loaded[b]),
           \A t \in Generation \cup {"freeze"} :
               Passes(disk'[b], t) => \/ disk'[b].stages[t] = disk[b].stages[t]
                                      \/ disk'[b].stages[t] = mem[b].stages[t],
           \A t \in Generation \cup {"freeze"} :
               Passes(mem'[b], t) => \/ mem'[b].stages[t] = disk[b].stages[t]
                                     \/ mem'[b].stages[t] = mem[b].stages[t],
           \/ at'[b] \in Resting \cup {"boot"} \/ stage'[b] \notin Generation
           \/ /\ at[b] \notin Resting \cup {"boot"} /\ stage'[b] = stage[b]
              /\ mem'[b].stages["freeze"] = mem[b].stages["freeze"]
    PROVE  InSight'
<1>1. BatchSight(b)
    BY DEF InSight
<1>2. OtherReads(b) /\ DOMAIN runs' \subseteq Keys
    BY DEF SameReads, OtherReads, QueueInv, Typed
<1>3. Alike(b, disk[b], runs) /\ Alike(b, mem[b], runs)
    BY <1>1 DEF BatchSight
<1>4. /\ DOMAIN runs \subseteq DOMAIN runs'
      /\ \A k \in DOMAIN runs : runs'[k].used = runs[k].used /\ runs'[k].made = runs[k].made
    BY DEF SameReads
<1>5. Alike(b, disk'[b], runs')
    BY <1>3, <1>4, MixedAlike
<1>6. Alike(b, mem'[b], runs')
    BY <1>3, <1>4, MixedAlike
<1>7. ReadSeen(b, runs')
    BY <1>1 DEF BatchSight, ReadSeen, SameReads
<1>8. at'[b] \in Resting \/ Seen(loaded'[b])
    BY <1>1 DEF BatchSight
<1>9. at'[b] \in Resting \cup {"boot"} \/ stage'[b] \notin Generation
          \/ mem'[b].stages["freeze"].candidate = Admission
    BY <1>1 DEF BatchSight
<1> QED
    BY <1>2, <1>5, <1>6, <1>7, <1>8, <1>9, SightStep

\* The batch is admitted when there is a process, a run or a passed stage.
LEMMA AtAdmitted ==
    ASSUME InSight, NEW b \in Batches, \/ at[b] # "idle"
                                     \/ DOMAIN runs # {}
                                     \/ \E t \in Stages : Passes(disk[b], t)
    PROVE  Admission # 0 /\ Seen(world)
  BY NoRecordFacts DEF InSight, Unadmitted

\* The stage at work gets an outcome that passes no sample and no candidate.
LEMMA EndedSight ==
    ASSUME QueueInv, InSight, NEW b \in Batches, UNCHANGED around, SameReads,
           at[b] \notin Resting \cup {"boot"}, NEW p, at' = [at EXCEPT ![b] = p],
           NEW o \in Outcomes, mem' = [mem EXCEPT ![b].stages[stage[b]] = o],
           ~o.status \/ stage[b] \notin Generation \cup {"freeze"},
           UNCHANGED <<disk, stage, loaded>>
    PROVE  InSight'
<1>1. mem[b] \in Records /\ stage[b] \in Stages /\ Typed
    BY DEF QueueInv, Typed
<1>2. /\ mem'[b].stages[stage[b]] = o
      /\ \A t \in Stages \ {stage[b]} : mem'[b].stages[t] = mem[b].stages[t]
    BY <1>1, StageSet DEF Typed
<1>3. OthersStay(b)
    BY <1>1 DEF OthersStay, Typed
<1>4. ASSUME NEW t \in Generation \cup {"freeze"}, Passes(mem'[b], t)
      PROVE  mem'[b].stages[t] = mem[b].stages[t]
    BY <1>2, <1>4, StageNames DEF Passes
<1>5. stage[b] \in Generation => mem'[b].stages["freeze"] = mem[b].stages["freeze"]
    BY <1>2, StageNames
<1>6. stage'[b] = stage[b] /\ disk'[b] = disk[b] /\ loaded'[b] = loaded[b] /\ at[b] \notin Resting
    BY DEF Resting
<1>7. UNCHANGED <<world, changes>> /\ Admission # 0
    BY AtAdmitted DEF around, Resting
<1> QED
    BY <1>3, <1>4, <1>5, <1>6, <1>7, QuietSight

\* The run at work reads of the candidate.
LEMMA ReadingSight ==
    ASSUME QueueInv, InSight, NEW b \in Batches, UNCHANGED around,
           at[b] \notin {"idle", "boot", "archive", "save"}, NEW p, at' = [at EXCEPT ![b] = p],
           UNCHANGED <<disk, stage, mem, loaded>>,
           DOMAIN runs' = DOMAIN runs \cup {Key(b)},
           \A k \in DOMAIN runs \ {Key(b)} : runs'[k] = runs[k],
           \A v \in runs'[Key(b)].used : Seen(v),
           stage[b] \in Generation => runs'[Key(b)].made \in runs'[Key(b)].used
    PROVE  InSight'
<1>1. Typed /\ BatchSight(b)
    BY DEF QueueInv, InSight
<1>2. Key(b) = RunKey(b, stage[b], row[b]) /\ Key(b) \in Keys /\ Key(b).batch = b /\ Key(b).stage = stage[b]
    BY AtBatch DEF Key
<1>3. OthersStay(b)
    BY <1>1 DEF OthersStay, Typed
<1>4. OtherReads(b) /\ DOMAIN runs' \subseteq Keys
    BY <1>1, <1>2 DEF OtherReads, Typed
<1>5. \A t \in Generation : ~Passes(disk[b], stage[b]) /\ ~Passes(mem[b], stage[b])
    BY AtBatch, AtWork
<1>6. \A t \in Generation : Passes(disk[b], t) \/ Passes(mem[b], t) => RunKey(b, t, 1) # Key(b)
    BY <1>2, <1>5 DEF RunKey
<1>7. Alike(b, disk'[b], runs') /\ Alike(b, mem'[b], runs')
    BY <1>1, <1>6 DEF BatchSight, Alike
<1>8. ReadSeen(b, runs')
  <2> SUFFICES ASSUME NEW k \in DOMAIN runs', k.batch = b
               PROVE  /\ \A v \in runs'[k].used : Seen(v)
                      /\ k.stage \in Generation => runs'[k].made \in runs'[k].used
      BY DEF ReadSeen
  <2>1. CASE k = Key(b)
      BY <1>2, <2>1
  <2>2. CASE k # Key(b)
      BY <1>1, <2>2 DEF BatchSight, ReadSeen
  <2> QED
      BY <2>1, <2>2
<1>9. at'[b] \in Resting \/ Seen(loaded'[b])
    BY <1>1 DEF BatchSight, Resting
<1>10. at'[b] \in Resting \cup {"boot"} \/ stage'[b] \notin Generation
          \/ mem'[b].stages["freeze"].candidate = Admission
    BY <1>1 DEF BatchSight, Resting
<1>11. UNCHANGED <<world, changes>> /\ Admission # 0
    BY AtAdmitted DEF around
<1> QED
    BY <1>3, <1>4, <1>7, <1>8, <1>9, <1>10, <1>11, SightStep

LEMMA FreezeSight ==
    ASSUME QueueInv, InSight, NEW b \in Batches, Freeze(b)
    PROVE  InSight'
<1>1. /\ at[b] = "freeze" /\ at' = [at EXCEPT ![b] = "save"]
      /\ UNCHANGED <<around, runs, archived, disk, stage, loaded>>
    BY DEF Freeze, Goto, Ended
<1>2. PICK o \in {Completed(TRUE, world), Failed} : Ended(b, o)
    BY DEF Freeze
<1>3. mem' = [mem EXCEPT ![b].stages[stage[b]] = o]
    BY <1>2 DEF Ended
<1>4. at[b] \notin Resting \cup {"boot"} /\ SameReads
    BY <1>1 DEF Resting, SameReads
<1>5. CASE o = Failed
    BY <1>1, <1>3, <1>4, <1>5, OutcomeFacts, EndedSight
<1>6. CASE o = Completed(TRUE, world)
  <2>1. Typed /\ BatchSight(b) /\ stage[b] = "freeze" /\ mem[b] \in Records
      BY <1>1, AtBatch, AtWork DEF QueueInv, InSight, Placed
  <2>2. o \in Outcomes /\ o.candidate = world
      BY <1>6, <2>1, OutcomeFacts DEF Typed
  <2> HIDE DEF Completed
  <2>a. mem'[b] = [mem[b] EXCEPT !.stages["freeze"] = o] /\ "freeze" \in Stages
      BY <1>3, <2>1, StageNames DEF Typed
  <2>b. /\ mem'[b].stages["freeze"] = o
        /\ \A t \in Stages \ {"freeze"} : mem'[b].stages[t] = mem[b].stages[t]
      BY <2>1, <2>2, <2>a, StageSet
  <2>3. /\ mem'[b].stages["freeze"] = o
        /\ \A t \in Generation : mem'[b].stages[t] = mem[b].stages[t]
      BY <2>b, StageNames
  <2>4. Seen(world) /\ Admission # 0 /\ UNCHANGED <<world, changes>>
      BY <1>1, AtAdmitted DEF around
  <2>5. Alike(b, mem'[b], runs) /\ Alike(b, disk[b], runs) /\ ReadSeen(b, runs) /\ Seen(loaded[b])
      BY <1>4, <2>1, <2>2, <2>3, <2>4 DEF BatchSight, Alike, Passes
  <2>6. OthersStay(b)
      BY <1>1, <1>3, <2>1 DEF OthersStay, Typed
  <2>7. OtherReads(b) /\ DOMAIN runs \subseteq Keys
      BY <1>1, <2>1 DEF OtherReads, Typed
  <2>8. stage'[b] \notin Generation
      BY <1>1, <2>1, StageNames
  <2> QED
      BY <1>1, <2>4, <2>5, <2>6, <2>7, <2>8, SightStep
<1> QED
    BY <1>5, <1>6

LEMMA NewRunSight ==
    ASSUME QueueInv, InSight, NEW b \in Batches, NewRun(b)
    PROVE  InSight'
<1>1. /\ at[b] = "new" /\ at' = [at EXCEPT ![b] = "list"]
      /\ UNCHANGED <<around, disk, stage, mem, loaded>>
    BY DEF NewRun, Goto
<1>2. /\ DOMAIN runs' = DOMAIN runs \cup {Key(b)}
      /\ \A k \in DOMAIN runs \ {Key(b)} : runs'[k] = runs[k]
      /\ runs'[Key(b)].made = world /\ runs'[Key(b)].used = Read(b, {loaded[b], world})
    BY DEF NewRun
<1>3. Seen(world) /\ BatchSight(b)
    BY <1>1, AtAdmitted DEF InSight
<1>4. Seen(loaded[b])
    BY <1>1, <1>3 DEF BatchSight, Resting
<1>5. \A v \in runs'[Key(b)].used : Seen(v)
    BY <1>2, <1>3, <1>4 DEF Read
<1>6. stage[b] \in Generation => runs'[Key(b)].made \in runs'[Key(b)].used
    BY <1>2 DEF Read
<1>7. at[b] \notin {"idle", "boot", "archive", "save"}
    BY <1>1
<1> QED
    BY <1>1, <1>2, <1>5, <1>6, <1>7, ReadingSight

LEMMA CallSight ==
    ASSUME QueueInv, InSight, NEW b \in Batches, Call(b) \/ ReadCandidate(b)
    PROVE  InSight'
<1>1. /\ at[b] \in {"run", "recheck"} /\ UNCHANGED <<around, disk, stage, mem, loaded, at>>
    BY DEF Call, ReadCandidate, process
<1>2. Key(b) \in DOMAIN runs /\ TypedRuns(runs) /\ Typed
    BY <1>1, AtBatch, AtWork DEF Placed, QueueInv
<1>3. runs[Key(b)] \in Runs
    BY <1>2 DEF TypedRuns
<1>4. /\ DOMAIN runs' = DOMAIN runs \cup {Key(b)}
      /\ \A k \in DOMAIN runs \ {Key(b)} : runs'[k] = runs[k]
      /\ runs'[Key(b)].made = runs[Key(b)].made
      /\ runs[Key(b)].used \subseteq runs'[Key(b)].used
      /\ runs'[Key(b)].used \subseteq runs[Key(b)].used \cup {world}
  <2>1. CASE Call(b)
    <3>1. runs' = [runs EXCEPT ![Key(b)].called = TRUE, ![Key(b)].used = @ \cup Read(b, {world})]
        BY <2>1 DEF Call
    <3>2. runs' = [runs EXCEPT ![Key(b)] = [runs[Key(b)] EXCEPT !.called = TRUE, !.used = @ \cup Read(b, {world})]]
        BY <1>2, <1>3, <3>1 DEF TypedRuns
    <3>3. /\ DOMAIN runs' = DOMAIN runs
          /\ runs'[Key(b)] = [runs[Key(b)] EXCEPT !.called = TRUE, !.used = @ \cup Read(b, {world})]
          /\ \A k \in DOMAIN runs \ {Key(b)} : runs'[k] = runs[k]
        BY <1>2, <3>2
    <3>4. runs'[Key(b)].made = runs[Key(b)].made /\ runs'[Key(b)].used = runs[Key(b)].used \cup Read(b, {world})
        BY <1>3, <3>3 DEF Runs
    <3> QED
        BY <1>2, <3>3, <3>4 DEF Read
  <2>2. CASE ReadCandidate(b)
    <3>1. runs' = [runs EXCEPT ![Key(b)].used = @ \cup {world}]
        BY <2>2 DEF ReadCandidate
    <3>2. /\ DOMAIN runs' = DOMAIN runs
          /\ runs'[Key(b)] = [runs[Key(b)] EXCEPT !.used = @ \cup {world}]
          /\ \A k \in DOMAIN runs \ {Key(b)} : runs'[k] = runs[k]
        BY <1>2, <3>1
    <3>3. runs'[Key(b)].made = runs[Key(b)].made /\ runs'[Key(b)].used = runs[Key(b)].used \cup {world}
        BY <1>3, <3>2 DEF Runs
    <3> QED
        BY <1>2, <3>2, <3>3
  <2> QED
      BY <2>1, <2>2
<1>5. Seen(world) /\ ReadSeen(b, runs) /\ Key(b).batch = b /\ Key(b).stage = stage[b]
    BY <1>1, AtAdmitted DEF InSight, BatchSight, Key
<1>6. \A v \in runs'[Key(b)].used : Seen(v)
    BY <1>2, <1>4, <1>5 DEF ReadSeen
<1>7. stage[b] \in Generation => runs'[Key(b)].made \in runs'[Key(b)].used
    BY <1>2, <1>4, <1>5 DEF ReadSeen
<1>8. at[b] \notin {"idle", "boot", "archive", "save"} /\ at' = [at EXCEPT ![b] = at[b]]
    BY <1>1, <1>2 DEF Typed
<1> QED
    BY <1>1, <1>4, <1>6, <1>7, <1>8, ReadingSight

\* The candidate is compared once more: everything that was seen is the admitted one.
LEMMA RecheckSight ==
    ASSUME QueueInv, InSight, NEW b \in Batches, Recheck(b)
    PROVE  InSight'
<1>1. /\ at[b] = "recheck" /\ at' = [at EXCEPT ![b] = "save"]
      /\ UNCHANGED <<around, runs, disk, stage, loaded>>
    BY DEF Recheck, Goto, Ended
<1>2. at[b] \notin Resting \cup {"boot"} /\ SameReads
    BY <1>1 DEF Resting, SameReads
<1>3. CASE runs[Key(b)].delivery = "delivered" /\ world = Candidate(b)
  <2> DEFINE o == Completed(TRUE, Candidate(b))
  <2>1. mem' = [mem EXCEPT ![b].stages[stage[b]] = o]
      BY <1>3 DEF Recheck, Ended
  <2>2. /\ Typed /\ BatchSight(b) /\ mem[b] \in Records /\ stage[b] \in Generation /\ row[b] = 1
        /\ Key(b) \in DOMAIN runs /\ Key(b) = RunKey(b, stage[b], 1)
        /\ runs[Key(b)].made = Candidate(b)
      BY <1>1, AtBatch, AtWork DEF QueueInv, InSight, Placed, Candidate
  <2>3. o \in Outcomes
      BY <1>3, <2>2, OutcomeFacts DEF Typed
  <2> HIDE DEF o
  <2>a. mem'[b] = [mem[b] EXCEPT !.stages[stage[b]] = o] /\ stage[b] \in Stages
      BY <2>1, <2>2, StageNames DEF Typed
  <2>4. /\ mem'[b].stages[stage[b]] = o
        /\ \A t \in Stages \ {stage[b]} : mem'[b].stages[t] = mem[b].stages[t]
      BY <2>2, <2>3, <2>a, StageSet
  <2>5. world = Admission
      BY <1>2, <1>3, <2>2 DEF BatchSight, Candidate
  <2>6. \A v : Seen(v) => v = Admission
      BY <2>5 DEF Seen
  <2>7. Key(b).batch = b /\ Key(b).stage = stage[b]
      BY DEF Key
  <2>8. runs[Key(b)].used = {runs[Key(b)].made}
      BY <1>3, <2>2, <2>5, <2>6, <2>7 DEF BatchSight, ReadSeen
  <2>9. Alike(b, mem'[b], runs)
    <3>1. "freeze" \in Stages \ {stage[b]} /\ Generation \subseteq Stages
        BY <2>2, StageNames
    <3> QED
        BY <2>2, <2>4, <2>8, <3>1 DEF BatchSight, Alike, Passes
  <2>10. mem'[b].stages["freeze"] = mem[b].stages["freeze"]
      BY <2>2, <2>4, StageNames
  <2>11. OthersStay(b)
      BY <1>1, <2>1, <2>2 DEF OthersStay, Typed
  <2>12. OtherReads(b) /\ DOMAIN runs \subseteq Keys
      BY <1>1, <2>2 DEF OtherReads, Typed
  <2>13. Alike(b, disk[b], runs) /\ ReadSeen(b, runs) /\ Seen(loaded[b])
         /\ mem[b].stages["freeze"].candidate = Admission
      BY <1>2, <2>2 DEF BatchSight
  <2>14. UNCHANGED <<world, changes>> /\ Admission # 0
      BY <1>1, AtAdmitted DEF around
  <2> QED
      BY <1>1, <2>9, <2>10, <2>11, <2>12, <2>13, <2>14, SightStep
<1>4. CASE ~(runs[Key(b)].delivery = "delivered" /\ world = Candidate(b))
  <2>1. mem' = [mem EXCEPT ![b].stages[stage[b]] = Failed]
      BY <1>4 DEF Recheck, Ended
  <2> QED
      BY <1>1, <1>2, <2>1, OutcomeFacts, EndedSight
<1> QED
    BY <1>3, <1>4

\* A stage begins, with the admitted candidate.
LEMMA BeginSight ==
    ASSUME QueueInv, InSight, NEW b \in Batches, NEW s \in Stages, Begin(b, s),
           NEW p, Goto(b, "boot", p)
    PROVE  InSight'
<1>1. /\ at[b] = "boot" /\ at' = [at EXCEPT ![b] = p] /\ Gate(disk[b], s) /\ world = disk[b].admission
      /\ stage' = [stage EXCEPT ![b] = s] /\ mem' = [mem EXCEPT ![b] = Begun(disk[b], s)]
      /\ disk' = [disk EXCEPT ![b] = mem'[b]] /\ UNCHANGED <<around, loaded, runs>>
    BY DEF Begin, Admitted, Goto, Begun
<1>2. /\ Typed /\ BatchSight(b) /\ disk[b] \in Records /\ Sound(disk[b]) /\ world # 0
    BY AtBatch, VersionsAssumption DEF QueueInv, InSight, Typed, Local
<1>3. mem'[b] = Begun(disk[b], s) /\ disk'[b] = Begun(disk[b], s) /\ stage'[b] = s
    BY <1>1, <1>2 DEF Typed
<1>4. world = Admission
    BY <1>1, <1>2 DEF BatchSight
<1>5. /\ Begun(disk[b], s).admission = disk[b].admission
      /\ Begun(disk[b], s).stages[s] = Started
      /\ \A t \in Stages \ {s} : Begun(disk[b], s).stages[t] = disk[b].stages[t]
    BY <1>2, BegunFacts
<1>6. Alike(b, Begun(disk[b], s), runs)
    BY <1>2, <1>5, StageNames, OutcomeFacts DEF BatchSight, Alike, Passes
<1>7. ASSUME s \in Generation PROVE Begun(disk[b], s).stages["freeze"].candidate = Admission
  <2>1. Passes(disk[b], "freeze")
      BY <1>1, <1>2, <1>7, GateFacts
  <2>2. Seen(disk[b].stages["freeze"].candidate)
      BY <1>2, <2>1 DEF BatchSight, Alike
  <2> QED
      BY <1>4, <1>5, <1>7, <2>2, StageNames DEF Seen
<1>8. OthersStay(b)
    BY <1>1, <1>2 DEF OthersStay, Typed
<1>9. OtherReads(b) /\ DOMAIN runs \subseteq Keys
    BY <1>1, <1>2 DEF OtherReads, Typed
<1>10. ReadSeen(b, runs) /\ Seen(loaded[b])
    BY <1>1, <1>2 DEF BatchSight, Resting
<1>11. UNCHANGED <<world, changes>> /\ Admission # 0
    BY <1>1, AtAdmitted DEF around
<1> QED
    BY <1>1, <1>3, <1>5, <1>6, <1>7, <1>8, <1>9, <1>10, <1>11, SightStep


\* The process goes on.
LEMMA GoSight ==
    ASSUME QueueInv, InSight, NEW b \in Batches, at[b] \notin Resting \cup {"boot"},
           NEW p, at' = [at EXCEPT ![b] = p], UNCHANGED <<around, disk, stage, mem, loaded>>, SameReads
    PROVE  InSight'
<1>1. OthersStay(b)
    BY DEF QueueInv, Typed, OthersStay
<1>2. UNCHANGED <<world, changes>> /\ Admission # 0 /\ at[b] \notin Resting
    BY AtAdmitted DEF around, Resting
<1>3. /\ disk'[b] = disk[b] /\ mem'[b] = mem[b] /\ stage'[b] = stage[b] /\ loaded'[b] = loaded[b]
    OBVIOUS
<1> QED
    BY <1>1, <1>2, <1>3, QuietSight

\* The process has ended, or archives.
LEMMA RestSight ==
    ASSUME QueueInv, InSight, NEW b \in Batches, Admission # 0,
           NEW p \in Resting, at' = [at EXCEPT ![b] = p], UNCHANGED around, SameReads,
           \A c \in Batches \ {b} : stage'[c] = stage[c] /\ loaded'[c] = loaded[c],
           NEW m, mem' = [mem EXCEPT ![b] = m], NEW d, disk' = [disk EXCEPT ![b] = d],
           m \in {mem[b], NoRecord}, d.admission = disk[b].admission,
           d.stages = disk[b].stages \/ d.stages = mem[b].stages
    PROVE  InSight'
<1>1. OthersStay(b) /\ mem'[b] = m /\ disk'[b] = d /\ at'[b] = p
    BY DEF QueueInv, Typed, OthersStay
<1>2. UNCHANGED <<world, changes>>
    BY DEF around
<1>3. \A t \in Generation \cup {"freeze"} : ~Passes(NoRecord, t)
    BY NoRecordFacts, StageNames
<1> QED
    BY <1>1, <1>2, <1>3, QuietSight

\* The process saves its copy.
LEMMA SavesSight ==
    ASSUME QueueInv, InSight, NEW b \in Batches, at[b] \notin {"idle", "boot", "archive", "save"},
           NEW p, at' = [at EXCEPT ![b] = p], UNCHANGED <<around, stage, loaded, runs>>,
           NEW m \in Records, m.stages = mem[b].stages, m.admission = mem[b].admission,
           mem' = [mem EXCEPT ![b] = m], disk' = [disk EXCEPT ![b] = m]
    PROVE  InSight'
<1>1. OthersStay(b) /\ mem'[b] = m /\ disk'[b] = m
    BY DEF QueueInv, Typed, OthersStay
<1>2. UNCHANGED <<world, changes>> /\ Admission # 0 /\ at[b] \notin Resting \cup {"boot"} /\ SameReads
    BY AtAdmitted DEF around, Resting, SameReads
<1>3. m.admission = disk[b].admission
    BY AtBatch, AtWork DEF Copied
<1>4. at[b] \notin Resting /\ loaded'[b] = loaded[b] /\ stage'[b] = stage[b]
    BY <1>2
<1> QED
    BY <1>1, <1>2, <1>3, <1>4, QuietSight

LEMMA RecordSight ==
    ASSUME QueueInv, InSight, NEW b \in Batches, RecordPaid(b) \/ ListRun(b)
    PROVE  InSight'
<1>1. mem[b] \in Records /\ Key(b) \in Keys /\ Typed
    BY AtBatch DEF QueueInv, Typed
<1>2. PICK p : at' = [at EXCEPT ![b] = p]
    BY DEF RecordPaid, ListRun, Goto
<1>3. /\ at[b] \in {"pay", "list"} /\ UNCHANGED <<around, stage, loaded, runs>>
      /\ disk' = [disk EXCEPT ![b] = mem'[b]]
    BY DEF RecordPaid, ListRun, Goto
<1>4. PICK m \in Records : /\ m.stages = mem[b].stages /\ m.admission = mem[b].admission
                           /\ mem' = [mem EXCEPT ![b] = m]
  <2>1. CASE RecordPaid(b)
    <3> DEFINE m == [mem[b] EXCEPT !.paid = TRUE]
    <3>1. mem' = [mem EXCEPT ![b] = m]
        BY <2>1 DEF RecordPaid
    <3>2. m \in Records /\ m.stages = mem[b].stages /\ m.admission = mem[b].admission
        BY <1>1 DEF Records
    <3> HIDE DEF m
    <3> QED
        BY <3>1, <3>2
  <2>2. CASE ListRun(b)
    <3> DEFINE m == [mem[b] EXCEPT !.runs = @ \cup {Key(b)}]
    <3>1. mem' = [mem EXCEPT ![b] = m]
        BY <2>2 DEF ListRun
    <3>2. m \in Records /\ m.stages = mem[b].stages /\ m.admission = mem[b].admission
        BY <1>1 DEF Records
    <3> HIDE DEF m
    <3> QED
        BY <3>1, <3>2
  <2> QED
      BY <2>1, <2>2
<1>5. disk' = [disk EXCEPT ![b] = m]
    BY <1>1, <1>3, <1>4 DEF Typed
<1>6. at[b] \notin {"idle", "boot", "archive", "save"} /\ UNCHANGED <<around, stage, loaded, runs>>
    BY <1>3
<1> QED
    BY <1>2, <1>4, <1>5, <1>6, SavesSight

LEMMA SaveSight ==
    ASSUME QueueInv, InSight, NEW b \in Batches, Save(b) \/ Interrupt(b)
    PROVE  InSight'
<1> DEFINE d == Concluded(mem[b])
<1>1. /\ at[b] \notin {"idle", "boot", "archive"} /\ at' = [at EXCEPT ![b] = "idle"] /\ UNCHANGED <<around, stage>>
      /\ mem' = [mem EXCEPT ![b] = NoRecord] /\ disk' = [disk EXCEPT ![b] = d]
      /\ loaded' = [loaded EXCEPT ![b] = 0]
    BY DEF Save, Interrupt, Down, Goto
<1>2. mem[b] \in Records /\ mem[b].admission = disk[b].admission /\ Typed /\ Admission # 0
    BY <1>1, AtBatch, AtWork, AtAdmitted DEF Copied, QueueInv
<1>3. d.stages = mem[b].stages /\ d.admission = mem[b].admission
    BY <1>2 DEF Concluded, Records
<1>4. \A c \in Batches \ {b} : stage'[c] = stage[c] /\ loaded'[c] = loaded[c]
    BY <1>1, <1>2 DEF Typed
<1>5. SameReads
  <2>1. CASE UNCHANGED runs
      BY <2>1 DEF SameReads
  <2>2. CASE runs' # runs
    <3>1. runs' = [runs EXCEPT ![Key(b)].status = "study_complete"]
        BY <2>2 DEF Save, Interrupt
    <3>2. \A k \in DOMAIN runs : runs[k] \in Runs
        BY <1>2 DEF Typed
    <3> QED
        BY <3>1, <3>2 DEF SameReads, Runs
  <2> QED
      BY <2>1, <2>2
<1>6. "idle" \in Resting
    BY DEF Resting
<1> HIDE DEF d
<1>7. d.admission = disk[b].admission
    BY <1>2, <1>3
<1> QED
    BY <1>1, <1>2, <1>3, <1>4, <1>5, <1>6, <1>7, RestSight

LEMMA GoneSight ==
    ASSUME QueueInv, InSight, NEW b \in Batches, Crash(b) \/ Refuse(b) \/ Archive(b)
    PROVE  InSight'
<1>1. /\ at[b] # "idle" /\ at' = [at EXCEPT ![b] = "idle"] /\ UNCHANGED <<around, stage, disk, runs>>
      /\ loaded' \in {loaded, [loaded EXCEPT ![b] = 0]}
    BY DEF Crash, Refuse, Archive, Down, Goto
<1>2. PICK m \in {mem[b], NoRecord} : mem' = [mem EXCEPT ![b] = m]
  <2>1. mem = [mem EXCEPT ![b] = mem[b]]
      BY AtBatch
  <2> QED
      BY <2>1 DEF Crash, Refuse, Archive, Down
<1>3. disk' = [disk EXCEPT ![b] = disk[b]] /\ Admission # 0 /\ SameReads /\ Typed /\ "idle" \in Resting
    BY <1>1, AtBatch, AtAdmitted DEF SameReads, QueueInv, Resting
<1>4. \A c \in Batches \ {b} : stage'[c] = stage[c] /\ loaded'[c] = loaded[c]
    BY <1>1, <1>3 DEF Typed
<1>5. UNCHANGED around
    BY <1>1
<1> QED
    BY <1>1, <1>2, <1>3, <1>4, <1>5, RestSight

LEMMA CheckArchiveSight ==
    ASSUME QueueInv, InSight, CheckArchive
    PROVE  InSight'
<1>1. PICK b \in Batches, s \in Generation :
          /\ at' = [at EXCEPT ![b] = "archive"] /\ Passes(disk[b], s)
          /\ stage' = [stage EXCEPT ![b] = s]
          /\ UNCHANGED <<around, disk, mem, good, loaded, exit, runs, archived>>
    BY DEF CheckArchive, Archivable, Goto
<1>2. s \in Stages
    BY StageNames
<1>3. Admission # 0 /\ SameReads /\ Typed /\ "archive" \in Resting
    BY <1>1, <1>2, AtAdmitted DEF SameReads, QueueInv, Resting
<1>4. \A c \in Batches \ {b} : stage'[c] = stage[c] /\ loaded'[c] = loaded[c]
    BY <1>1, <1>3 DEF Typed
<1>5. mem' = [mem EXCEPT ![b] = mem[b]] /\ disk' = [disk EXCEPT ![b] = disk[b]] /\ UNCHANGED around
    BY <1>1, AtBatch
<1> QED
    BY <1>1, <1>3, <1>4, <1>5, RestSight

\* The run at work ends, or its delivery is copied.
LEMMA StatusSight ==
    ASSUME QueueInv, InSight, NEW b \in Batches,
           GenerationSucceeds(b) \/ GenerationFails(b) \/ CopyDelivery(b) \/ StudyRowEnds(b)
    PROVE  InSight'
<1>1. /\ at[b] \in {"run", "copy"} /\ UNCHANGED <<around, stage, disk, loaded>>
      /\ stage[b] \in Stages /\ row[b] \in Nat /\ good[b] \in BOOLEAN
    BY AtBatch DEF GenerationSucceeds, GenerationFails, CopyDelivery, StudyRowEnds, Goto, Ended, Local
<1>2. at[b] \notin Resting \cup {"boot"}
    BY <1>1 DEF Resting
<1>3. \A k \in DOMAIN runs : runs[k] \in Runs
    BY AtBatch DEF TypedRuns
<1>4. SameReads
  <2>1. CASE GenerationSucceeds(b)
      BY <1>3, <2>1 DEF GenerationSucceeds, SameReads, Runs
  <2>2. CASE GenerationFails(b)
      BY <1>3, <2>2 DEF GenerationFails, SameReads, Runs
  <2>3. CASE CopyDelivery(b)
      BY <1>3, <2>3 DEF CopyDelivery, SameReads, Runs
  <2>4. CASE StudyRowEnds(b)
      BY <1>3, <2>4 DEF StudyRowEnds, SameReads, Runs
  <2> QED
      BY <2>1, <2>2, <2>3, <2>4
<1>5. PICK p : at' = [at EXCEPT ![b] = p]
    BY DEF GenerationSucceeds, GenerationFails, CopyDelivery, StudyRowEnds, Goto
<1>6. CASE GenerationSucceeds(b) \/ CopyDelivery(b)
  <2>1. UNCHANGED mem
      BY <1>6 DEF GenerationSucceeds, CopyDelivery
  <2> QED
      BY <1>1, <1>2, <1>4, <1>5, <2>1, GoSight
<1>7. CASE GenerationFails(b)
  <2>1. mem' = [mem EXCEPT ![b].stages[stage[b]] = Failed]
      BY <1>7 DEF GenerationFails, Ended
  <2> QED
      BY <1>1, <1>2, <1>4, <1>5, <2>1, OutcomeFacts, EndedSight
<1>8. CASE StudyRowEnds(b)
  <2>1. PICK ok \in BOOLEAN : mem' = [mem EXCEPT ![b].stages[stage[b]] =
                                         RowOutcome(stage[b], row[b] = Rows(stage[b]), good[b], ok)]
      BY <1>8 DEF StudyRowEnds
  <2> DEFINE last == row[b] = Rows(stage[b])
             o == RowOutcome(stage[b], last, good[b], ok)
  <2>2. stage[b] \in Study /\ last \in BOOLEAN
      BY <1>8 DEF StudyRowEnds
  <2> HIDE DEF last
  <2>3. o \in Outcomes
      BY <1>1, <2>2, RowOutcomes
  <2>4. stage[b] \notin Generation \cup {"freeze"}
      BY <2>2, StageNames
  <2>5. mem' = [mem EXCEPT ![b].stages[stage[b]] = o]
      BY <2>1 DEF last
  <2> HIDE DEF o
  <2> QED
      BY <1>1, <1>2, <1>4, <1>5, <2>3, <2>4, <2>5, EndedSight
<1> QED
    BY <1>6, <1>7, <1>8

\* The comparisons, and what fails without a run.
LEMMA FailsSight ==
    ASSUME QueueInv, InSight, NEW b \in Batches,
           CompareCandidate(b) \/ NewRunFails(b) \/ Audit(b) \/ AuditFails(b) \/ (b = Top /\ SpawnFails)
    PROVE  InSight'
<1>1. /\ at[b] \in {"compare", "new", "audit", "copy", "recheck", "spawn"} /\ UNCHANGED <<around, runs>>
    BY DEF CompareCandidate, NewRunFails, Audit, AuditFails, SpawnFails, Goto
<1>2. at[b] \notin Resting \cup {"boot"} /\ SameReads
    BY <1>1 DEF Resting, SameReads
<1>3. PICK p : at' = [at EXCEPT ![b] = p]
    BY DEF CompareCandidate, NewRunFails, Audit, AuditFails, SpawnFails, Goto
<1>4. UNCHANGED <<disk, stage, mem, loaded>> \/ Ended(b, Failed)
    BY DEF CompareCandidate, NewRunFails, Audit, AuditFails, SpawnFails
<1>5. CASE UNCHANGED <<disk, stage, mem, loaded>>
    BY <1>1, <1>2, <1>3, <1>5, GoSight
<1>6. CASE Ended(b, Failed)
    BY <1>1, <1>2, <1>3, <1>6, OutcomeFacts, EndedSight DEF Ended
<1> QED
    BY <1>4, <1>5, <1>6

LEMMA WaitSight ==
    ASSUME QueueInv, InSight, Wait
    PROVE  InSight'
<1> DEFINE i == row[Top]
<1>1. /\ at[Top] = "wait" /\ UNCHANGED <<around, disk, stage, loaded, runs>> /\ Top \in Batches /\ Typed
    BY Children3 DEF Wait, QueueInv
<1>2. PICK p : at' = [at EXCEPT ![Top] = p]
    BY DEF Wait
<1>3. PICK w, o : mem' = [mem EXCEPT ![Top].runs = w, ![Top].stages["parallel"] = o]
  <2>1. mem' = [mem EXCEPT ![Top].runs = @ \cup disk[Children[i]].runs,
                           ![Top].stages["parallel"] = IF i = 3 THEN Completed(good'[Top], 0) ELSE @]
      BY DEF Wait
  <2>2. mem' = [mem EXCEPT ![Top].runs = mem[Top].runs \cup disk[Children[i]].runs,
                           ![Top].stages["parallel"] = IF i = 3 THEN Completed(good'[Top], 0)
                                                       ELSE mem[Top].stages["parallel"]]
      BY <1>1, <2>1 DEF Typed, Records
  <2> QED
      BY <2>2
<1>4. mem[Top] \in Records /\ stage[Top] = "parallel"
    BY <1>1, AtBatch, AtWork DEF Placed
<1>5. \A t \in Generation \cup {"freeze"} : mem'[Top].stages[t] = mem[Top].stages[t]
    BY <1>1, <1>3, <1>4, StageNames DEF Typed, Records
<1>6. OthersStay(Top) /\ SameReads
    BY <1>1, <1>2, <1>3 DEF OthersStay, SameReads, Typed
<1>7. at[Top] \notin Resting /\ UNCHANGED <<world, changes>> /\ Admission # 0
    BY <1>1, AtAdmitted DEF Resting, around
<1>8. stage'[Top] \notin Generation /\ disk'[Top] = disk[Top] /\ loaded'[Top] = loaded[Top]
    BY <1>1, <1>4, StageNames
<1> QED
    BY <1>1, <1>5, <1>6, <1>7, <1>8, QuietSight

\* A step that changes no record and no process.
LEMMA StillSight ==
    ASSUME QueueInv, InSight, UNCHANGED <<world, changes, disk, at, stage, mem, loaded>>, SameReads
    PROVE  InSight'
<1>1. CASE Admission # 0
  <2>1. OthersStay(Top) /\ Top \in Batches
      BY Children3 DEF OthersStay
  <2>2. /\ disk'[Top] = disk[Top] /\ mem'[Top] = mem[Top] /\ stage'[Top] = stage[Top]
        /\ loaded'[Top] = loaded[Top] /\ at'[Top] = at[Top]
      OBVIOUS
  <2> QED
      BY <1>1, <2>1, <2>2, QuietSight
<1>2. CASE Admission = 0
    BY <1>2 DEF InSight, Unadmitted, Admission, SameReads, BatchSight, Alike, ReadSeen, Seen, Passes
<1> QED
    BY <1>1, <1>2

LEMMA LaunchSight ==
    ASSUME QueueInv, InSight, Launch
    PROVE  InSight'
<1>1. /\ at' = [at EXCEPT ![Top] = "boot"] /\ loaded' = [loaded EXCEPT ![Top] = world]
      /\ UNCHANGED <<around, disk, stage, mem, runs>> /\ Admission # 0 /\ Top \in Batches /\ Typed
    BY Children3 DEF Launch, Goto, Admission, QueueInv
<1>2. OthersStay(Top) /\ OtherReads(Top) /\ DOMAIN runs' \subseteq Keys
    BY <1>1 DEF OthersStay, OtherReads, Typed
<1>3. BatchSight(Top) /\ Seen(world)
    BY <1>1 DEF InSight
<1>4. at'[Top] = "boot" /\ loaded'[Top] = world /\ disk'[Top] = disk[Top] /\ mem'[Top] = mem[Top]
    BY <1>1 DEF Typed
<1>5. /\ Alike(Top, disk'[Top], runs') /\ Alike(Top, mem'[Top], runs') /\ ReadSeen(Top, runs')
      /\ Seen(loaded'[Top]) /\ UNCHANGED <<world, changes>>
    BY <1>1, <1>3, <1>4 DEF BatchSight, around
<1> QED
    BY <1>1, <1>2, <1>4, <1>5, SightStep

\* The batch is admitted with the candidate as it is.
LEMMA PrepareSight ==
    ASSUME QueueInv, InSight, Prepare
    PROVE  InSight'
<1> DEFINE e == [NoRecord EXCEPT !.admission = world]
<1>1. /\ Admission = 0 /\ Unadmitted /\ disk' = [disk EXCEPT ![Top] = e]
      /\ UNCHANGED <<world, changes, at, stage, mem, loaded, runs>> /\ Top \in Batches /\ Typed
    BY Children3 DEF Prepare, process, around, Admission, InSight, QueueInv
<1>2. world # 0 /\ e.admission = world /\ e.stages = NoRecord.stages
    BY <1>1, VersionsAssumption DEF Typed, NoRecord
<1>3. /\ disk'[Top] = e /\ DOMAIN runs = {}
      /\ \A b \in Batches : mem[b] = NoRecord /\ at[b] = "idle" /\ disk'[b] \in {e, NoRecord}
    BY <1>1 DEF Unadmitted, Typed
<1> HIDE DEF e
<1>4. Admission' = world /\ Seen(world)'
    BY <1>1, <1>2, <1>3 DEF Admission, Seen
<1>5. \A t \in Generation \cup {"freeze"} : ~Passes(e, t) /\ ~Passes(NoRecord, t)
    BY <1>2, NoRecordFacts, StageNames DEF Passes
<1>6. ASSUME NEW b \in Batches PROVE BatchSight(b)'
  <2>1. disk'[b].admission \in {0, Admission'}
      BY <1>2, <1>3, <1>4, NoRecordFacts
  <2>2. Alike(b, disk[b], runs)' /\ Alike(b, mem[b], runs)'
      BY <1>1, <1>3, <1>5 DEF Alike, Passes
  <2>3. ReadSeen(b, runs)' /\ at'[b] \in Resting
      BY <1>1, <1>3 DEF ReadSeen, Resting
  <2> QED
      BY <2>1, <2>2, <2>3 DEF BatchSight
<1> QED
    BY <1>2, <1>4, <1>6 DEF InSight

\* A child has the record of the batch, with the candidate and no sample.
LEMMA SpawnSight ==
    ASSUME QueueInv, InSight, Spawn
    PROVE  InSight'
<1> DEFINE c == Children[row[Top]]
           d == Inherited(mem[Top])
           a == IF row[Top] = 3 THEN "wait" ELSE "spawn"
<1>1. /\ at[Top] = "spawn" /\ disk' = [disk EXCEPT ![c] = d]
      /\ at' = [at EXCEPT ![c] = "boot", ![Top] = a]
      /\ loaded' = [loaded EXCEPT ![c] = world]
      /\ UNCHANGED <<world, changes, stage, mem, runs>> /\ Typed /\ Top \in Batches
    BY Children3 DEF Spawn, around, QueueInv
<1>2. row[Top] \in 1..3
    BY <1>1 DEF QueueInv, Family
<1>3. c \in Batches /\ c # Top
    BY <1>2, Children3
<1>4. mem[Top].admission = disk[Top].admission /\ mem[Top] \in Records
    BY <1>1, AtBatch, AtWork DEF Copied
<1>5. /\ d.admission = disk[Top].admission
      /\ \A t \in Generation : d.stages[t] = NotAttempted
      /\ d.stages["freeze"] = mem[Top].stages["freeze"]
    BY <1>4, StageNames DEF Inherited, Records
<1> HIDE DEF c, d
<1>6. /\ disk'[c] = d /\ at'[c] = "boot" /\ loaded'[c] = world
      /\ \A b \in Batches \ {c} : disk'[b] = disk[b] /\ loaded'[b] = loaded[b]
      /\ \A b \in Batches \ {c} : at'[b] \in Resting \cup {"boot"} => at'[b] = at[b]
      /\ \A b \in Batches \ {c} : at'[b] = at[b] \/ b = Top
    BY <1>1, <1>3 DEF Typed, Resting
<1>7. Admission' = Admission /\ Admission # 0 /\ Seen(world) /\ \A v : Seen(v)' <=> Seen(v)
    BY <1>1, <1>3, <1>6, AtAdmitted DEF Admission, Seen
<1>8. BatchSight(Top)
    BY <1>1 DEF InSight
<1>9. ASSUME NEW b \in Batches PROVE BatchSight(b)'
  <2>1. BatchSight(b) /\ runs' = runs /\ mem'[b] = mem[b] /\ stage'[b] = stage[b]
      BY <1>1 DEF InSight
  <2>2. CASE b = c
    <3>1. Alike(c, d, runs)
        BY <1>5, <1>8, OutcomeFacts DEF BatchSight, Alike, Passes
    <3>2. d.admission = Admission
        BY <1>5 DEF Admission
    <3> QED
        BY <1>1, <1>6, <1>7, <2>1, <2>2, <3>1, <3>2, SightCarried DEF BatchSight
  <2>3. CASE b # c
    <3>1. disk'[b] = disk[b] /\ loaded'[b] = loaded[b]
        BY <1>6, <2>3
    <3>2. at'[b] \in Resting \cup {"boot"} \/ at'[b] = at[b] \/ at[b] \notin Resting \cup {"boot"}
        BY <1>1, <1>6, <2>3 DEF Resting
    <3>3. at'[b] \in Resting \/ Seen(loaded'[b])
        BY <1>1, <1>6, <2>1, <2>3, <3>1 DEF BatchSight, Resting
    <3>4. at'[b] \in Resting \cup {"boot"} \/ stage'[b] \notin Generation
              \/ mem'[b].stages["freeze"].candidate = Admission
        BY <1>6, <2>1, <2>3, <3>2 DEF BatchSight
    <3> QED
        BY <1>1, <1>7, <2>1, <3>1, <3>3, <3>4, SightCarried DEF BatchSight
  <2> QED
      BY <2>2, <2>3
<1>10. Seen(world)' /\ Admission' # 0
    BY <1>1, <1>7 DEF Seen
<1> QED
    BY <1>9, <1>10 DEF InSight

\* A person changes the candidate for the first time.
LEMMA ChangeSight ==
    ASSUME QueueInv, InSight, ChangeCandidate, changes = 0
    PROVE  InSight'
<1>1. /\ changes' = 1 /\ UNCHANGED <<disk, at, stage, mem, loaded, runs>> /\ Admission' = Admission
    BY DEF ChangeCandidate, process, Admission
<1>2. Seen(world)' /\ \A v : Seen(v) => v = Admission
    BY <1>1 DEF Seen
<1>3. CASE Admission = 0
  <2>1. Unadmitted' /\ Admission' = 0
      BY <1>1, <1>3 DEF InSight, Unadmitted
  <2>2. ASSUME NEW b \in Batches PROVE BatchSight(b)'
    <3>1. BatchSight(b) /\ mem[b] = NoRecord /\ disk[b] = NoRecord /\ at[b] = "idle" /\ DOMAIN runs = {}
        BY <1>3 DEF InSight, Unadmitted
    <3>2. \A t \in Generation \cup {"freeze"} : ~Passes(NoRecord, t)
        BY NoRecordFacts, StageNames
    <3>3. Alike(b, disk[b], runs)' /\ Alike(b, mem[b], runs)' /\ ReadSeen(b, runs)'
        BY <1>1, <3>1, <3>2 DEF Alike, ReadSeen, Passes
    <3> QED
        BY <1>1, <3>1, <3>3 DEF BatchSight, Resting
  <2> QED
      BY <2>1, <2>2 DEF InSight
<1>4. CASE Admission # 0
  <2>1. ASSUME NEW b \in Batches PROVE BatchSight(b)'
    <3>1. BatchSight(b)
        BY DEF InSight
    <3>2. \A v : Seen(v) => Seen(v)'
        BY <1>1, <1>2 DEF Seen
    <3>3. \A v : v = Admission => Seen(v)'
        BY <1>1 DEF Seen
    <3>4. Alike(b, disk[b], runs)'
      <4>1. Passes(disk[b], "freeze") => disk[b].stages["freeze"].candidate = Admission
          BY <1>2, <3>1 DEF BatchSight, Alike
      <4> QED
          BY <1>1, <3>1, <4>1 DEF BatchSight, Alike, Passes, Seen
    <3>5. Alike(b, mem[b], runs)'
      <4>1. Passes(mem[b], "freeze") => mem[b].stages["freeze"].candidate = Admission
          BY <1>2, <3>1 DEF BatchSight, Alike
      <4> QED
          BY <1>1, <3>1, <4>1 DEF BatchSight, Alike, Passes, Seen
    <3>6. ReadSeen(b, runs)'
      <4>1. \A k \in DOMAIN runs : k.batch = b =>
                /\ \A v \in runs[k].used : v = Admission
                /\ k.stage \in Generation => runs[k].made \in runs[k].used
          BY <1>2, <3>1 DEF BatchSight, ReadSeen
      <4> QED
          BY <1>1, <4>1 DEF ReadSeen, Seen
    <3>7. at'[b] \in Resting \/ Seen(loaded[b])'
        BY <1>1, <1>2, <3>1 DEF BatchSight, Seen
    <3> QED
        BY <1>1, <3>1, <3>4, <3>5, <3>6, <3>7 DEF BatchSight
  <2> QED
      BY <1>1, <1>2, <1>4, <2>1 DEF InSight
<1> QED
    BY <1>3, <1>4

LEMMA EditSight ==
    ASSUME QueueInv, InSight, EditDelivery
    PROVE  InSight'
<1>1. PICK k \in DOMAIN runs, edited \in {"delivered", "edited"} :
          /\ runs' = [runs EXCEPT ![k].delivery = edited]
          /\ UNCHANGED <<world, changes, disk, process, archived>>
    BY DEF EditDelivery
<1>2. \A j \in DOMAIN runs : runs[j] \in Runs
    BY AtBatch, Children3 DEF TypedRuns
<1>3. SameReads
    BY <1>1, <1>2 DEF SameReads, Runs
<1> QED
    BY <1>1, <1>3, StillSight DEF process

\* Every step keeps what was seen, as long as no change was undone.
LEMMA InSightStep ==
    ASSUME QueueInv, InSight, Next, changes' < 2
    PROVE  InSight'
<1>1. CASE Prepare
    BY <1>1, PrepareSight
<1>2. CASE Launch
    BY <1>2, LaunchSight
<1>3. CASE Command
  <2>1. PICK s \in ByHand : /\ Goto(Top, "boot", IF s = "freeze" THEN "freeze" ELSE "pay")
                            /\ Begin(Top, s)
      BY <1>3 DEF Command
  <2>2. s \in Stages /\ Top \in Batches
      BY ByHandAssumption, Children3
  <2> QED
      BY <2>1, <2>2, BeginSight
<1>4. CASE CommandRefused
    BY <1>4, GoneSight, Children3 DEF CommandRefused
<1>5. CASE Spawn
    BY <1>5, SpawnSight
<1>6. CASE SpawnFails
    BY <1>6, FailsSight, Children3
<1>7. CASE Wait
    BY <1>7, WaitSight
<1>8. CASE CheckArchive
    BY <1>8, CheckArchiveSight
<1>9. CASE ChangeCandidate
  <2>1. changes' = changes + 1 /\ changes \in Nat
      BY <1>9, ChangesAssumption DEF ChangeCandidate, QueueInv, Typed
  <2>2. changes = 0
      BY <2>1
  <2> QED
      BY <1>9, <2>2, ChangeSight
<1>10. CASE EditDelivery
    BY <1>10, EditSight
<1>11. ASSUME NEW i \in 1..3, ChildBegins(i) PROVE InSight'
  <2>1. Children[i] \in Batches /\ ChildStage[i] \in Stages
      BY Children3, StageNames DEF ChildStage, Generation
  <2> QED
      BY <1>11, <2>1, BeginSight DEF ChildBegins
<1>12. ASSUME NEW i \in 1..3, ChildRefused(i) PROVE InSight'
    BY <1>12, GoneSight, Children3 DEF ChildRefused
<1>13. ASSUME NEW b \in Batches,
              \/ Freeze(b) \/ RecordPaid(b) \/ Save(b)
              \/ CompareCandidate(b) \/ NewRun(b) \/ NewRunFails(b) \/ ListRun(b) \/ Call(b) \/ ReadCandidate(b)
              \/ StudyRowEnds(b) \/ GenerationSucceeds(b) \/ GenerationFails(b)
              \/ Audit(b) \/ CopyDelivery(b) \/ AuditFails(b) \/ Recheck(b) \/ Archive(b)
              \/ Crash(b) \/ Interrupt(b)
       PROVE InSight'
  <2>1. CASE Freeze(b)
      BY <2>1, FreezeSight
  <2>2. CASE RecordPaid(b) \/ ListRun(b)
      BY <2>2, RecordSight
  <2>3. CASE Save(b) \/ Interrupt(b)
      BY <2>3, SaveSight
  <2>4. CASE CompareCandidate(b) \/ NewRunFails(b) \/ Audit(b) \/ AuditFails(b)
      BY <2>4, FailsSight
  <2>5. CASE NewRun(b)
      BY <2>5, NewRunSight
  <2>6. CASE Call(b) \/ ReadCandidate(b)
      BY <2>6, CallSight
  <2>7. CASE StudyRowEnds(b) \/ GenerationSucceeds(b) \/ GenerationFails(b) \/ CopyDelivery(b)
      BY <2>7, StatusSight
  <2>8. CASE Recheck(b)
      BY <2>8, RecheckSight
  <2>9. CASE Archive(b) \/ Crash(b)
      BY <2>9, GoneSight
  <2> QED
      BY <1>13, <2>1, <2>2, <2>3, <2>4, <2>5, <2>6, <2>7, <2>8, <2>9
<1> QED
    BY <1>1, <1>2, <1>3, <1>4, <1>5, <1>6, <1>7, <1>8, <1>9, <1>10, <1>11, <1>12, <1>13 DEF Next

\* Only a person changes the candidate, one change at a time.
LEMMA ChangesMove ==
    ASSUME Next
    PROVE  changes' \in {changes, changes + 1}
  BY DEF Next, Prepare, Launch, Command, CommandRefused, Refuse, Spawn, SpawnFails, Wait, CheckArchive,
         ChangeCandidate, EditDelivery, ChildBegins, ChildRefused, Begin, Freeze, RecordPaid, Save,
         CompareCandidate, NewRun, NewRunFails, ListRun, Call, ReadCandidate, StudyRowEnds,
         GenerationSucceeds, GenerationFails, Audit, CopyDelivery, AuditFails, Recheck, Archive,
         Crash, Interrupt, Down, around

LEMMA SightKept ==
    ASSUME QueueInv, Sight, [Next]_vars
    PROVE  Sight'
<1>1. CASE Next
  <2>1. changes' \in {changes, changes + 1} /\ changes \in Nat
      BY <1>1, ChangesMove, ChangesAssumption DEF QueueInv, Typed
  <2>2. changes' < 2 => changes < 2
      BY <2>1
  <2> QED
      BY <1>1, <2>2, InSightStep DEF Sight
<1>2. CASE UNCHANGED vars
  <2>1. UNCHANGED <<world, changes, disk, at, stage, mem, loaded>> /\ SameReads
      BY <1>2 DEF vars, around, process, SameReads
  <2>2. changes' < 2 => changes < 2
      BY <2>1
  <2> QED
      BY <2>1, <2>2, StillSight DEF Sight
<1> QED
    BY <1>1, <1>2

LEMMA SightInit == Init => Sight
<1> SUFFICES ASSUME Init PROVE InSight
    BY DEF Sight
<1>1. /\ disk = [b \in Batches |-> NoRecord] /\ at = [b \in Batches |-> "idle"]
      /\ mem = [b \in Batches |-> NoRecord] /\ DOMAIN runs = {} /\ Top \in Batches
    BY Children3 DEF Init
<1>2. Admission = 0 /\ Unadmitted
    BY <1>1, NoRecordFacts DEF Admission, Unadmitted
<1>3. ASSUME NEW b \in Batches PROVE BatchSight(b)
  <2>1. \A t \in Generation \cup {"freeze"} : ~Passes(NoRecord, t)
      BY NoRecordFacts, StageNames
  <2> QED
      BY <1>1, <1>2, <2>1, NoRecordFacts DEF BatchSight, Alike, ReadSeen, Resting
<1> QED
    BY <1>2, <1>3 DEF InSight

-----------------------------------------------------------------------------
(* The theorems.                                                           *)

LEMMA InvCounts == QueueInv /\ Sight => SamplesCount
<1> SUFFICES ASSUME QueueInv, Sight PROVE SamplesCount
    OBVIOUS
<1>1. TypeOK
    BY DEF QueueInv, Typed, TypeOK, Steps
<1>2. SamplesShareCandidate
  <2> SUFFICES ASSUME NEW b \in Batches, NEW s \in Generation, Passes(disk[b], s)
               PROVE  LET run == runs[RunKey(b, s, 1)] IN
                      /\ run.made = disk[b].stages["freeze"].candidate
                      /\ run.status = "success" /\ run.audited # "none"
                      /\ disk[b].stages[s].candidate = run.made
                      /\ run.used = {run.made} \/ changes >= 2
      BY DEF SamplesShareCandidate, RunKey
  <2>1. Backed(b, s, disk[b], runs)
      BY AtBatch, StageNames DEF Local
  <2>2. changes < 2 => runs[RunKey(b, s, 1)].used = {runs[RunKey(b, s, 1)].made}
      BY DEF Sight, InSight, BatchSight, Alike
  <2>3. changes < 2 \/ changes >= 2
      BY ChangesAssumption DEF QueueInv, Typed
  <2> QED
      BY <2>1, <2>2, <2>3 DEF Backed
<1>3. ArchivesAreAudited
    BY DEF QueueInv, Archives, ArchivesAreAudited
<1> QED
    BY <1>1, <1>2, <1>3 DEF SamplesCount

LEMMA InvListed == QueueInv => EveryCallIsListed
<1> SUFFICES ASSUME QueueInv, NEW k \in DOMAIN runs, runs[k].called
             PROVE  k \in disk[k.batch].runs /\ disk[k.batch].paid
    BY DEF EveryCallIsListed
<1>1. k.batch \in Batches
    BY DEF QueueInv, Typed, Keys
<1>2. Calls(k.batch, disk[k.batch], runs)
    BY <1>1, AtBatch DEF Local
<1> QED
    BY <1>2 DEF Calls

LEMMA InvWhole == QueueInv => CampaignIsWhole
<1> SUFFICES ASSUME QueueInv PROVE CampaignIsWhole
    OBVIOUS
<1>1. /\ Sound(disk[Top]) /\ (\A t \in Stages : Backed(Top, t, disk[Top], runs)) /\ Family
      /\ DOMAIN runs \subseteq Keys
    BY AtBatch, Children3 DEF Local, QueueInv, Typed
<1>2. ASSUME disk[Top].status
      PROVE  /\ \A s \in Study \cup {"freeze"} : Passes(disk[Top], s)
             /\ \A i \in 1..CapabilityRows : runs[RunKey(Top, "capability", i)].called
             /\ \/ \A s \in Generation : Passes(disk[Top], s)
                \/ \A i \in 1..3 : Passes(disk[Children[i]], ChildStage[i])
  <2>1. /\ \A t \in Study \cup {"freeze"} : Passes(disk[Top], t)
        /\ (\A t \in Generation : Passes(disk[Top], t)) \/ Passes(disk[Top], "parallel")
      BY <1>1, <1>2 DEF Sound
  <2>2. \A i \in 1..CapabilityRows : runs[RunKey(Top, "capability", i)].called
      BY <1>1, <2>1, StageNames DEF Backed
  <2>3. Passes(disk[Top], "parallel") => \A i \in 1..3 : Passes(disk[Children[i]], ChildStage[i])
      BY <1>1 DEF Family, HavePassed
  <2> QED
      BY <2>1, <2>2, <2>3
<1>3. SuccessIsWhole
    BY <1>2 DEF SuccessIsWhole, RunKey
<1>4. ASSUME disk[Top].stages["parallel"].state = "complete",
             NEW k \in DOMAIN runs, k.batch # Top, runs[k].called
      PROVE  k \in disk[Top].runs
  <2>1. k.batch \in ChildSet
      BY <1>1, <1>4, Children3 DEF Keys
  <2>2. PICK i \in 1..3 : k.batch = Children[i]
      BY <2>1, Children3
  <2>3. disk[k.batch].runs \subseteq disk[Top].runs
      BY <1>1, <1>4, <2>2 DEF Family, WaitedFor
  <2>4. k \in disk[k.batch].runs
      BY <1>4, InvListed DEF EveryCallIsListed
  <2> QED
      BY <2>3, <2>4
<1>5. ParallelListsRuns
    BY <1>4 DEF ParallelListsRuns
<1> QED
    BY <1>3, <1>5 DEF CampaignIsWhole

\* A sample that counts succeeded, was audited, and has recorded the frozen
\* candidate of its batch, wherever a person's changes fall between the reads
\* and the comparisons of the driver.  Everything that was read for it (the
\* modules, the prompts, the checker's worker) is of that candidate, unless a
\* change was undone.  An archive is of a sample that counts.
THEOREM SamplesStand == Spec => []SamplesCount
<1>1. QueueInv /\ Sight /\ [Next]_vars => (QueueInv /\ Sight)'
    BY QueueStep, SightKept
<1>2. Init => QueueInv /\ Sight
    BY QueueInit, SightInit
<1> QED
    BY <1>1, <1>2, InvCounts, PTL DEF Spec

\* What was attempted stays as it ended, and every run that may have spent is
\* in the record of its batch, wherever the driver died.
THEOREM AttemptsStay == Spec => AttemptsAreKept
<1>1. QueueInv /\ [Next]_vars => QueueInv' /\ [EveryCallIsListed' /\ AttemptStays]_vars
  <2> SUFFICES ASSUME QueueInv, [Next]_vars PROVE QueueInv' /\ EveryCallIsListed' /\ AttemptStays
      OBVIOUS
  <2>1. QueueInv' /\ AttemptStays
      BY QueueStep
  <2>2. QueueInv' => EveryCallIsListed'
      BY InvListed, PTL
  <2> QED
      BY <2>1, <2>2
<1> QED
    BY <1>1, QueueInit, PTL DEF Spec, AttemptsAreKept

\* A batch that reports success has passed every study stage, with a response
\* to every probe, and has the serial samples or those of all children; when
\* parallel has completed, the batch lists what its children spent on.
THEOREM WholeCampaign == Spec => []CampaignIsWhole
<1>1. QueueInv /\ [Next]_vars => QueueInv'
    BY QueueStep
<1> QED
    BY <1>1, QueueInit, InvWhole, PTL DEF Spec

-----------------------------------------------------------------------------
(***************************************************************************)
(* ActionStudy.  The place of an answer in the study determines its sample *)
(* and its mode (Turn), so that everything about pairs and orders is       *)
(* arithmetic over places.                                                 *)
(***************************************************************************)
Pair(i) == ((i - 1) \div 2) + 1
Turn(i) == Order(Pair(i))[((i - 1) % 2) + 1]

\* The answers so far are those of the first places.
InTurn == \A i \in DOMAIN rows : rows[i].sample = Pair(i) /\ rows[i].mode = Turn(i)

RowsLeft ==
    /\ Len(rows) <= 2 * Samples
    /\ studyAt = "stores" => rows = <<>>
    /\ studyAt = "format" => Len(rows) < 2 * Samples

\* How often a mode came first, and by how much the control is ahead.
Firsts(rs, m) == {i \in DOMAIN rs : i % 2 = 1 /\ rs[i].mode = m}
Ahead(n) == IF n % 4 \in {1, 2} THEN 1 ELSE 0

Balance ==
    Cardinality(Firsts(rows, "json_object")) - Cardinality(Firsts(rows, "tool_calls")) = Ahead(Len(rows))

\* A promotion stands only after the end of the study that it is about.
Judged == verdict.promote => studyAt = "idle" /\ Complete /\ Promotes

StudyInv == StudyTypeOK /\ NeverReplenished /\ InTurn /\ RowsLeft /\ Balance /\ Judged

-----------------------------------------------------------------------------
\* How many samples there are, and in which order the modes are asked.
LEMMA ModeFacts ==
    /\ Samples \in Nat \ {0} /\ Range(Modes) = {"json_object", "tool_calls"}
    /\ \A s : Order(s) = IF s % 2 = 1 THEN <<"json_object", "tool_calls">>
                                     ELSE <<"tool_calls", "json_object">>
<1>1. Samples \in Nat \ {0}
  BY CountsAssumption DEF Samples
<1>2. Range(Modes) = {"json_object", "tool_calls"}
  <2>1. DOMAIN Modes = {1, 2} /\ Modes[1] = "json_object" /\ Modes[2] = "tool_calls"
    BY DEF Modes
  <2> QED BY <2>1 DEF Range
<1>3. Reverse(Modes) = <<"tool_calls", "json_object">>
  BY DEF Modes, Reverse
<1> QED BY <1>1, <1>2, <1>3 DEF Order, Modes

\* The two places of a sample.
LEMMA PairFacts ==
    ASSUME NEW s \in Nat \ {0}
    PROVE  /\ Pair(2 * s - 1) = s /\ Pair(2 * s) = s
           /\ Turn(2 * s - 1) = Order(s)[1] /\ Turn(2 * s) = Order(s)[2]
<1>1. Pair(2 * s - 1) = s /\ (2 * s - 1 - 1) % 2 = 0
  BY DEF Pair
<1>2. Pair(2 * s) = s /\ (2 * s - 1) % 2 = 1
  BY DEF Pair
<1> QED BY <1>1, <1>2 DEF Turn

LEMMA PlaceFacts ==
    ASSUME NEW i \in Nat \ {0}
    PROVE  /\ Pair(i) \in Nat \ {0} /\ (i = 2 * Pair(i) - 1 \/ i = 2 * Pair(i))
           /\ Turn(i) \in {"json_object", "tool_calls"}
           /\ i % 2 = 0 => Pair(i) = Pair(i - 1) /\ i = 2 * Pair(i)
           /\ i % 2 = 1 => Turn(i) = IF i % 4 = 1 THEN "json_object" ELSE "tool_calls"
<1>1. Pair(i) \in Nat \ {0} /\ (i = 2 * Pair(i) - 1 \/ i = 2 * Pair(i))
  BY DEF Pair
<1>2. Turn(i) \in {"json_object", "tool_calls"}
  BY <1>1, PairFacts, ModeFacts
<1>3. i % 2 = 0 => Pair(i) = Pair(i - 1) /\ i = 2 * Pair(i)
  BY DEF Pair
<1>4. ASSUME i % 2 = 1 PROVE Turn(i) = IF i % 4 = 1 THEN "json_object" ELSE "tool_calls"
  <2>1. i = 2 * Pair(i) - 1
    BY <1>1, <1>4
  <2>2. Turn(i) = Order(Pair(i))[1]
    BY <1>1, <2>1, PairFacts
  <2>3. (i % 4 = 1) <=> (Pair(i) % 2 = 1)
    BY <1>1, <2>1
  <2> QED BY <2>2, <2>3, ModeFacts
<1> QED BY <1>1, <1>2, <1>3, <1>4

-----------------------------------------------------------------------------
(* Pairs and orders.                                                       *)

LEMMA InvOrders == StudyInv => OrdersAreBalanced
<1> SUFFICES ASSUME StudyInv PROVE OrdersAreBalanced
  OBVIOUS
<1> USE DEF StudyInv
<1>1. Cardinality(Firsts(rows, "json_object")) - Cardinality(Firsts(rows, "tool_calls")) \in {-1, 0, 1}
  BY DEF Balance, Ahead
<1>2. ASSUME NEW i \in DOMAIN rows, i % 2 = 0
      PROVE  rows[i].sample = rows[i - 1].sample /\ rows[i].mode # rows[i - 1].mode
  <2>1. DOMAIN rows = 1..Len(rows) /\ Len(rows) \in Nat
    BY DEF StudyTypeOK
  <2>2. i \in Nat \ {0} /\ i - 1 \in Nat \ {0} /\ i - 1 \in DOMAIN rows
    BY <1>2, <2>1
  <2>3. PICK s \in Nat \ {0} : i = 2 * s /\ Pair(i) = s /\ Pair(i - 1) = s
    BY <1>2, <2>2, PlaceFacts
  <2>4. Turn(i) = Order(s)[2] /\ Turn(i - 1) = Order(s)[1]
    BY <2>3, PairFacts
  <2>5. Turn(i) # Turn(i - 1)
    BY <2>4, ModeFacts
  <2> QED BY <2>2, <2>3, <2>5 DEF InTurn
<1> QED BY <1>1, <1>2 DEF OrdersAreBalanced, Firsts

\* In whole pairs every sample has one place in each mode.
LEMMA ModePlaces ==
    ASSUME StudyInv, FormatDone, NEW m \in {"json_object", "tool_calls"}
    PROVE  /\ Of(m, {"flash", "pro"}) = {i \in 1..(2 * Samples) : Turn(i) = m}
           /\ IsFiniteSet(Of(m, {"flash", "pro"}))
           /\ Cardinality(Of(m, {"flash", "pro"})) = Samples
           /\ Asked(m) = 1..Samples
<1> USE DEF StudyInv
<1> DEFINE Mine == {i \in 1..(2 * Samples) : Turn(i) = m}
           Place == [s \in 1..Samples |-> IF Order(s)[1] = m THEN 2 * s - 1 ELSE 2 * s]
<1>1. DOMAIN rows = 1..(2 * Samples) /\ Samples \in Nat \ {0}
  BY ModeFacts DEF StudyTypeOK, FormatDone
<1>2. Of(m, {"flash", "pro"}) = Mine
  <2>1. \A i \in DOMAIN rows : rows[i].mode = Turn(i)
    BY DEF InTurn
  <2>2. \A i \in DOMAIN rows : Model(rows[i].sample) \in {"flash", "pro"}
    BY DEF Model
  <2> QED BY <1>1, <2>1, <2>2 DEF Of
<1>3. ASSUME NEW s \in 1..Samples
      PROVE  Place[s] \in Mine /\ Pair(Place[s]) = s
  <2>1. s \in Nat \ {0} /\ 2 * s \in 1..(2 * Samples) /\ 2 * s - 1 \in 1..(2 * Samples)
    BY <1>1
  <2>2. Order(s)[1] = m \/ Order(s)[2] = m
    BY ModeFacts
  <2> QED BY <2>1, <2>2, PairFacts
<1>4. ASSUME NEW i \in Mine PROVE Pair(i) \in 1..Samples /\ Place[Pair(i)] = i
  <2>1. i \in Nat \ {0} /\ i <= 2 * Samples /\ Turn(i) = m
    BY <1>1
  <2>2. PICK s \in Nat \ {0} : Pair(i) = s /\ (i = 2 * s - 1 \/ i = 2 * s)
    BY <2>1, PlaceFacts
  <2>3. s \in 1..Samples
    BY <2>1, <2>2, <1>1
  <2>4. CASE i = 2 * s - 1
    BY <2>1, <2>2, <2>3, <2>4, PairFacts
  <2>5. CASE i = 2 * s
    <3>1. Order(s)[2] = m
      BY <2>1, <2>5, PairFacts
    <3>2. Order(s)[1] # m
      BY <3>1, ModeFacts
    <3> QED BY <2>2, <2>3, <2>5, <3>2
  <2> QED BY <2>2, <2>4, <2>5
<1>5. Place \in Bijection(1..Samples, Mine)
  <2>1. Place \in [1..Samples -> Mine]
    BY <1>3
  <2>2. \A s, t \in 1..Samples : Place[s] = Place[t] => s = t
    BY <1>3
  <2>3. \A i \in Mine : \E s \in 1..Samples : Place[s] = i
    BY <1>4
  <2> HIDE DEF Place, Mine
  <2> QED BY <2>1, <2>2, <2>3, Fun_IsBij
<1>6. IsFiniteSet(Mine) /\ Cardinality(Mine) = Samples
  <2>1. IsFiniteSet(1..Samples) /\ Cardinality(1..Samples) = Samples
    BY <1>1, FS_Interval
  <2>2. ExistsBijection(1..Samples, Mine)
    BY <1>5 DEF ExistsBijection
  <2> HIDE DEF Mine
  <2> QED BY <2>1, <2>2, FS_Bijection
<1>7. Asked(m) = 1..Samples
  <2>1. \A i \in Mine : rows[i].sample = Pair(i)
    BY <1>1 DEF InTurn
  <2>2. \A i \in Mine : rows[i].sample \in 1..Samples
    BY <2>1, <1>4
  <2>3. \A s \in 1..Samples : Place[s] \in Mine /\ rows[Place[s]].sample = s
    BY <1>3, <2>1
  <2> HIDE DEF Mine, Place
  <2> QED BY <1>2, <2>2, <2>3 DEF Asked
<1> QED BY <1>2, <1>6, <1>7

-----------------------------------------------------------------------------
(* The answers of both models are those of the one and those of the other. *)

LEMMA DisjointUnion ==
    ASSUME NEW S, NEW T, IsFiniteSet(S), IsFiniteSet(T), S \cap T = {}
    PROVE  Cardinality(S \cup T) = Cardinality(S) + Cardinality(T)
<1>1. Cardinality(S \cup T) = Cardinality(S) + Cardinality(T) - Cardinality(S \cap T)
  BY FS_Union
<1>2. Cardinality(S \cap T) = 0
  BY FS_EmptySet
<1>3. Cardinality(S) \in Nat /\ Cardinality(T) \in Nat
  BY FS_CardinalityType
<1> QED BY <1>1, <1>2, <1>3

LEMMA BothModels ==
    ASSUME NEW m, IsFiniteSet(Of(m, {"flash", "pro"}))
    PROVE  /\ Invalid(Of(m, {"flash", "pro"})) = Invalid(Of(m, {"flash"})) + Invalid(Of(m, {"pro"}))
           /\ Invalid(Of(m, {"flash"})) \in Nat /\ Invalid(Of(m, {"pro"})) \in Nat
<1> DEFINE both == Of(m, {"flash", "pro"})
           flash == Of(m, {"flash"})
           pro == Of(m, {"pro"})
           V(is) == {i \in is : rows[i].valid}
<1>1. both = flash \cup pro /\ flash \cap pro = {}
  BY DEF Of
<1>2. V(both) = V(flash) \cup V(pro) /\ V(flash) \cap V(pro) = {}
  BY <1>1
<1>3. IsFiniteSet(flash) /\ IsFiniteSet(pro)
  BY <1>1, FS_Subset
<1>4. /\ IsFiniteSet(V(flash)) /\ Cardinality(V(flash)) <= Cardinality(flash)
      /\ IsFiniteSet(V(pro)) /\ Cardinality(V(pro)) <= Cardinality(pro)
  BY <1>3, FS_Subset
<1> DEFINE a == Cardinality(flash)
           b == Cardinality(pro)
           c == Cardinality(V(flash))
           d == Cardinality(V(pro))
<1>5. a \in Nat /\ b \in Nat /\ c \in Nat /\ d \in Nat
  BY <1>3, <1>4, FS_CardinalityType
<1>6. Cardinality(both) = a + b
  BY <1>1, <1>3, DisjointUnion
<1>7. Cardinality(V(both)) = c + d
  <2> HIDE DEF V
  <2> QED BY <1>2, <1>4, DisjointUnion
<1>8. /\ Invalid(both) = (a + b) - (c + d)
      /\ Invalid(flash) = a - c /\ Invalid(pro) = b - d
  BY <1>6, <1>7 DEF Invalid, Valid
<1>9. c <= a /\ d <= b
  BY <1>4
<1> HIDE DEF a, b, c, d, both, flash, pro
<1>10. (a + b) - (c + d) = (a - c) + (b - d) /\ a - c \in Nat /\ b - d \in Nat
  BY <1>5, <1>9
<1> QED BY <1>8, <1>10 DEF both, flash, pro

LEMMA InvPaired == StudyInv => PromotionIsPaired
<1> SUFFICES ASSUME StudyInv, verdict.promote
             PROVE  /\ \A m \in Range(Modes) :
                          Asked(m) = 1..Samples /\ Cardinality(Of(m, {"flash", "pro"})) = Samples
                    /\ Len(sessions) = 2 * Fixtures /\ \A i \in DOMAIN sessions : sessions[i]
                    /\ Invalid(Of("tool_calls", {"flash", "pro"})) < Invalid(Of("json_object", {"flash", "pro"}))
  BY DEF PromotionIsPaired
<1>1. FormatDone /\ SessionsDone /\ Promotes
  BY DEF StudyInv, Judged, Complete
<1>2. \A m \in {"json_object", "tool_calls"} :
        /\ Asked(m) = 1..Samples /\ Cardinality(Of(m, {"flash", "pro"})) = Samples
        /\ IsFiniteSet(Of(m, {"flash", "pro"}))
  BY <1>1, ModePlaces
<1>3. Len(sessions) = 2 * Fixtures /\ \A i \in DOMAIN sessions : sessions[i]
  BY <1>1 DEF SessionsDone, Promotes
<1>4. Invalid(Of("tool_calls", {"flash", "pro"})) < Invalid(Of("json_object", {"flash", "pro"}))
  <2> DEFINE nf == Invalid(Of("tool_calls", {"flash"}))
             np == Invalid(Of("tool_calls", {"pro"}))
             cf == Invalid(Of("json_object", {"flash"}))
             cp == Invalid(Of("json_object", {"pro"}))
  <2>1. cf > 0 /\ 2 * nf <= cf /\ np <= cp
    BY <1>1 DEF Promotes
  <2>2. nf \in Nat /\ np \in Nat /\ cf \in Nat /\ cp \in Nat
    BY <1>2, BothModels
  <2>3. /\ Invalid(Of("tool_calls", {"flash", "pro"})) = nf + np
        /\ Invalid(Of("json_object", {"flash", "pro"})) = cf + cp
    BY <1>2, BothModels
  <2> HIDE DEF nf, np, cf, cp
  <2> QED BY <2>1, <2>2, <2>3
<1> QED BY <1>2, <1>3, <1>4, ModeFacts

-----------------------------------------------------------------------------
(* The steps.                                                              *)

LEMMA BalanceOfAppend ==
    ASSUME StudyInv, NEW r \in StudyRows, r.mode = Turn(Len(rows) + 1)
    PROVE  Cardinality(Firsts(Append(rows, r), "json_object"))
             - Cardinality(Firsts(Append(rows, r), "tool_calls")) = Ahead(Len(rows) + 1)
<1> DEFINE n == Len(rows)
           q == Append(rows, r)
<1>1. /\ n \in Nat /\ DOMAIN rows = 1..n /\ DOMAIN q = 1..(n + 1)
      /\ q[n + 1] = r /\ \A i \in 1..n : q[i] = rows[i]
  BY DEF StudyInv, StudyTypeOK
<1>2. ASSUME NEW m
      PROVE  /\ IsFiniteSet(Firsts(rows, m)) /\ Cardinality(Firsts(rows, m)) \in Nat
             /\ Cardinality(Firsts(q, m)) = Cardinality(Firsts(rows, m))
                    + (IF (n + 1) % 2 = 1 /\ Turn(n + 1) = m THEN 1 ELSE 0)
  <2>1. IsFiniteSet(1..n) /\ Firsts(rows, m) \in SUBSET (1..n)
    <3>1. IsFiniteSet(1..n)
      <4>1. n \in Int /\ 1 \in Int
        BY <1>1
      <4> HIDE DEF n
      <4> QED BY <4>1, FS_Interval
    <3>2. Firsts(rows, m) \in SUBSET (1..n)
      BY <1>1 DEF Firsts
    <3> QED BY <3>1, <3>2
  <2>2. IsFiniteSet(Firsts(rows, m)) /\ Cardinality(Firsts(rows, m)) \in Nat
    BY <2>1, FS_Subset, FS_CardinalityType
  <2>3. CASE (n + 1) % 2 = 1 /\ Turn(n + 1) = m
    <3>1. Firsts(q, m) = Firsts(rows, m) \cup {n + 1}
      BY <1>1, <2>3 DEF Firsts
    <3>2. n + 1 \notin Firsts(rows, m)
      BY <1>1 DEF Firsts
    <3> HIDE DEF n, q
    <3> QED BY <2>2, <2>3, <3>1, <3>2, FS_AddElement
  <2>4. CASE ~((n + 1) % 2 = 1 /\ Turn(n + 1) = m)
    <3>1. Firsts(q, m) = Firsts(rows, m)
      BY <1>1, <2>4 DEF Firsts
    <3> HIDE DEF n, q
    <3> QED BY <2>2, <2>4, <3>1
  <2> QED BY <2>2, <2>3, <2>4
<1> DEFINE j == Cardinality(Firsts(rows, "json_object"))
           t == Cardinality(Firsts(rows, "tool_calls"))
<1>3. j \in Nat /\ t \in Nat /\ j - t = Ahead(n)
  BY <1>2 DEF StudyInv, Balance
<1>4. (n + 1) % 2 = 1 => Turn(n + 1) = IF (n + 1) % 4 = 1 THEN "json_object" ELSE "tool_calls"
  <2>1. n + 1 \in Nat \ {0}
    BY <1>1
  <2> HIDE DEF n
  <2> QED BY <2>1, PlaceFacts
<1>5. /\ Cardinality(Firsts(q, "json_object")) = j + (IF (n + 1) % 4 = 1 THEN 1 ELSE 0)
      /\ Cardinality(Firsts(q, "tool_calls")) = t + (IF (n + 1) % 4 = 3 THEN 1 ELSE 0)
  <2>1. ((n + 1) % 4 = 1 \/ (n + 1) % 4 = 3) <=> (n + 1) % 2 = 1
    BY <1>1
  <2> HIDE DEF n, q
  <2> QED BY <1>2, <1>4, <2>1
<1>6. Ahead(n + 1) = Ahead(n) + (IF (n + 1) % 4 = 1 THEN 1 ELSE 0) - (IF (n + 1) % 4 = 3 THEN 1 ELSE 0)
  <2> HIDE DEF n
  <2> QED BY <1>1 DEF Ahead
<1>7. Ahead(n) \in Int
  BY DEF Ahead
<1> HIDE DEF n, q, j, t
<1>8. Cardinality(Firsts(q, "json_object")) - Cardinality(Firsts(q, "tool_calls")) = Ahead(n + 1)
  BY <1>3, <1>5, <1>6, <1>7
<1> QED BY <1>8 DEF n, q

LEMMA AnswerStep == StudyInv /\ Answer => StudyInv'
<1> SUFFICES ASSUME StudyInv, Answer PROVE StudyInv'
  OBVIOUS
<1> USE DEF StudyInv
<1>1. PICK cost \in Prices, time \in Times, valid \in BOOLEAN :
        /\ spent' = spent + cost
        /\ rows' = Append(rows, [sample |-> NextRow.sample, mode |-> NextRow.mode,
                                 valid |-> valid, cost |-> cost, time |-> time])
  BY DEF Answer
<1> DEFINE n == Len(rows)
           r == [sample |-> Pair(n + 1), mode |-> Turn(n + 1),
                 valid |-> valid, cost |-> cost, time |-> time]
<1>2. n \in Nat /\ n < 2 * Samples /\ DOMAIN rows = 1..n
  BY DEF StudyTypeOK, RowsLeft, Answer
<1>3. NextRow.sample = Pair(n + 1) /\ NextRow.mode = Turn(n + 1)
  <2>1. (n + 1) - 1 = n
    BY <1>2
  <2> HIDE DEF n
  <2>2. Pair(n + 1) = (n \div 2) + 1 /\ Turn(n + 1) = Order((n \div 2) + 1)[(n % 2) + 1]
    BY <2>1 DEF Pair, Turn
  <2> QED BY <2>2 DEF NextRow, n
<1>4. r \in StudyRows
  <2>1. n + 1 \in Nat \ {0} /\ n + 1 <= 2 * Samples /\ Samples \in Nat \ {0}
    BY <1>2, ModeFacts
  <2> HIDE DEF n
  <2>2. Pair(n + 1) \in 1..Samples
    BY <2>1, PlaceFacts
  <2>3. Turn(n + 1) \in Range(Modes)
    BY <2>1, PlaceFacts, ModeFacts
  <2> QED BY <2>2, <2>3 DEF StudyRows
<1>5. rows' = Append(rows, r)
  BY <1>1, <1>3
<1> HIDE DEF r
<1>6. /\ rows' \in Seq(StudyRows) /\ Len(rows') = n + 1 /\ DOMAIN rows' = 1..(n + 1)
      /\ rows'[n + 1] = r /\ \A i \in 1..n : rows'[i] = rows[i]
  BY <1>2, <1>4, <1>5 DEF StudyTypeOK
<1>7. cost \in Nat /\ cost <= Reservation /\ Reservation \in Nat /\ pending = Reservation
  BY PricesAssumption DEF Answer, StudyTypeOK
<1>8. StudyTypeOK'
  <2>1. studyAt' \in {"format", "fixture"}
    BY DEF Answer
  <2> QED BY <1>1, <1>6, <1>7, <2>1 DEF StudyTypeOK, Answer
<1>9. NeverReplenished'
  BY <1>1, <1>7, CountsAssumption DEF NeverReplenished, Answer, StudyTypeOK
<1>10. InTurn'
  <2>1. r.sample = Pair(n + 1) /\ r.mode = Turn(n + 1)
    BY DEF r
  <2> SUFFICES ASSUME NEW i \in DOMAIN rows'
               PROVE  rows'[i].sample = Pair(i) /\ rows'[i].mode = Turn(i)
    BY DEF InTurn
  <2> HIDE DEF n
  <2>2. i = n + 1 \/ i \in 1..n
    BY <1>2, <1>6
  <2> QED BY <1>2, <1>6, <2>1, <2>2 DEF InTurn
<1>11. RowsLeft'
  <2>1. studyAt' = IF Len(rows') < 2 * Samples THEN "format" ELSE "fixture"
    BY DEF Answer
  <2> QED BY <1>2, <1>6, <2>1, ModeFacts DEF RowsLeft
<1>12. Balance'
  <2>1. r.mode = Turn(Len(rows) + 1)
    BY DEF r
  <2>2. Cardinality(Firsts(rows', "json_object")) - Cardinality(Firsts(rows', "tool_calls")) = Ahead(Len(rows'))
    BY <1>4, <1>5, <1>6, <2>1, BalanceOfAppend
  <2> QED BY <2>2 DEF Balance
<1>13. Judged'
  BY DEF Judged, Answer
<1> QED BY <1>8, <1>9, <1>10, <1>11, <1>12, <1>13

\* A step that leaves the answers as they are.
LEMMA SameRows ==
    ASSUME StudyInv, rows' = rows,
           studyAt' \in {"stores", "format"} => studyAt' = studyAt \/ (studyAt' = "format" /\ rows = <<>>)
    PROVE  InTurn' /\ RowsLeft' /\ Balance'
<1>1. rows = <<>> => Len(rows) = 0 /\ 0 < 2 * Samples
  BY ModeFacts
<1> QED BY <1>1 DEF StudyInv, InTurn, RowsLeft, Balance

LEMMA StartStep == StudyInv /\ Start => StudyInv'
<1> SUFFICES ASSUME StudyInv, Start PROVE StudyInv'
  OBVIOUS
<1> USE DEF StudyInv, Start, Advance
<1>1. rows' = <<>> /\ Len(rows') = 0 /\ DOMAIN rows' = {}
  OBVIOUS
<1>2. StudyTypeOK'
  BY DEF StudyTypeOK, NoVerdict
<1>3. InTurn' /\ RowsLeft'
  BY <1>1, ModeFacts DEF InTurn, RowsLeft
<1>4. Balance'
  <2>1. Firsts(rows', "json_object") = {} /\ Firsts(rows', "tool_calls") = {}
    BY <1>1 DEF Firsts
  <2>2. Ahead(0) = 0
    BY DEF Ahead
  <2>3. Cardinality({}) - Cardinality({}) = 0
    BY FS_EmptySet
  <2> QED BY <1>1, <2>1, <2>2, <2>3 DEF Balance
<1>5. NeverReplenished' /\ Judged'
  BY DEF NeverReplenished, Judged, NoVerdict
<1> QED BY <1>2, <1>3, <1>4, <1>5

LEMMA CloseStep == StudyInv /\ Close => StudyInv'
<1> SUFFICES ASSUME StudyInv, Close PROVE StudyInv'
  OBVIOUS
<1> USE DEF StudyInv, Close, Advance
<1>1. StudyTypeOK'
  <2>1. stores' \in Seq({"running", "failed"})
    BY DEF StudyTypeOK
  <2>2. Complete \in BOOLEAN /\ (Complete /\ Promotes) \in BOOLEAN
    BY DEF Complete
  <2> QED BY <2>1, <2>2 DEF StudyTypeOK
<1>2. InTurn' /\ RowsLeft' /\ Balance'
  BY SameRows
<1>3. NeverReplenished'
  BY DEF NeverReplenished
<1>4. Judged'
  <2>1. verdict'.promote => Complete /\ Promotes
    OBVIOUS
  <2>2. Complete /\ Promotes => Complete' /\ Promotes'
    BY DEF Complete, FormatDone, SessionsDone, Promotes, Within110, Invalid, Valid, Of
  <2> QED BY <2>1, <2>2 DEF Judged
<1> QED BY <1>1, <1>2, <1>3, <1>4

\* Every other step leaves the answers and the verdict as they are, and may
\* charge no more than what is reserved.
LEMMA QuietStep ==
    ASSUME StudyInv, rows' = rows, verdict' = verdict, StudyTypeOK',
           studyAt # "idle", NeverReplenished',
           studyAt' \in {"stores", "format"} => studyAt' = studyAt \/ (studyAt' = "format" /\ rows = <<>>)
    PROVE  StudyInv'
<1>1. InTurn' /\ RowsLeft' /\ Balance'
  BY SameRows
<1>2. Judged'
  BY DEF StudyInv, Judged
<1> QED BY <1>1, <1>2 DEF StudyInv

LEMMA Charged ==
    ASSUME StudyInv, pending' = 0, NEW cost \in Nat, spent' = spent + cost, cost <= pending
    PROVE  NeverReplenished' /\ spent' \in Nat /\ pending' \in {0, Reservation}
  BY PricesAssumption, CountsAssumption DEF StudyInv, StudyTypeOK, NeverReplenished

LEMMA PaidStep == StudyInv /\ (Session \/ Probe) => StudyInv'
<1>1. ASSUME StudyInv, Session PROVE StudyInv'
  <2>1. PICK cost \in Prices, passed \in BOOLEAN :
          spent' = spent + cost /\ sessions' = Append(sessions, passed)
    BY <1>1 DEF Session
  <2>2. cost \in Nat /\ cost <= pending /\ pending' = 0
    BY <1>1, PricesAssumption DEF StudyInv, StudyTypeOK, Session
  <2>3. NeverReplenished' /\ spent' \in Nat /\ pending' \in {0, Reservation}
    BY <1>1, <2>1, <2>2, Charged
  <2>4. studyAt' \in {"fixture", "strict"}
    BY <1>1 DEF Session
  <2>5. StudyTypeOK'
    BY <1>1, <2>1, <2>3, <2>4 DEF StudyInv, StudyTypeOK, Session
  <2> QED BY <1>1, <2>3, <2>4, <2>5, QuietStep DEF Session
<1>2. ASSUME StudyInv, Probe PROVE StudyInv'
  <2>1. PICK cost \in Prices \cup {Reservation} : spent' = spent + cost
    BY <1>2 DEF Probe
  <2>2. cost \in Nat /\ cost <= pending /\ pending' = 0
    BY <1>2, PricesAssumption DEF StudyInv, StudyTypeOK, Probe
  <2>3. NeverReplenished' /\ spent' \in Nat /\ pending' \in {0, Reservation}
    BY <1>2, <2>1, <2>2, Charged
  <2>4. StudyTypeOK'
    BY <1>2, <2>3 DEF StudyInv, StudyTypeOK, Probe, Advance
  <2> QED BY <1>2, <2>3, <2>4, QuietStep DEF Probe, Advance
<1> QED BY <1>1, <1>2

LEMMA EndingStep == StudyInv /\ (RetryCall \/ Raise \/ StudyInterrupted \/ StudyDies) => StudyInv'
<1> SUFFICES ASSUME StudyInv, RetryCall \/ Raise \/ StudyInterrupted \/ StudyDies PROVE StudyInv'
  OBVIOUS
<1> USE DEF RetryCall, Raise, StudyInterrupted, StudyDies
<1>1. /\ pending' = 0 /\ spent' = spent + pending /\ rows' = rows /\ verdict' = verdict
      /\ studyAt # "idle" /\ studyAt' \in {studyAt, "idle", "close"}
  OBVIOUS
<1>2. pending \in Nat
  BY PricesAssumption DEF StudyInv, StudyTypeOK
<1>3. NeverReplenished' /\ spent' \in Nat /\ pending' \in {0, Reservation}
  BY <1>1, <1>2, Charged
<1>4. StudyTypeOK'
  BY <1>1, <1>3 DEF StudyInv, StudyTypeOK
<1> QED BY <1>1, <1>3, <1>4, QuietStep

LEMMA StoreStep == StudyInv /\ (FormatStores \/ SessionStore \/ ProbeStore \/ Reserve) => StudyInv'
<1> SUFFICES ASSUME StudyInv, FormatStores \/ SessionStore \/ ProbeStore \/ Reserve PROVE StudyInv'
  OBVIOUS
<1> USE DEF FormatStores, SessionStore, ProbeStore, Reserve, NewStore, Advance
<1>1. /\ rows' = rows /\ verdict' = verdict /\ studyAt # "idle" /\ spent' = spent
      /\ studyAt' \in {"stores", "format", "session", "probe"}
      /\ studyAt' \in {"stores", "format"} => studyAt' = studyAt \/ (studyAt' = "format" /\ rows = <<>>)
  BY DEF StudyInv, RowsLeft
<1>2. StudyTypeOK'
  <2>1. stores' \in Seq({"running", "failed"})
    <3>1. stores \in Seq({"running", "failed"})
      BY DEF StudyInv, StudyTypeOK
    <3>2. stores' = stores \/ stores' = Append(stores, "running")
      OBVIOUS
    <3> QED BY ONLY <3>1, <3>2
  <2>2. pending' \in {0, Reservation}
    BY DEF StudyInv, StudyTypeOK
  <2> QED BY <1>1, <2>1, <2>2 DEF StudyInv, StudyTypeOK
<1>3. NeverReplenished'
  BY <1>1 DEF StudyInv, NeverReplenished, Allocation
<1> QED BY <1>1, <1>2, <1>3, QuietStep

LEMMA StudyBegins == StudyInit => StudyInv
<1> SUFFICES ASSUME StudyInit PROVE StudyInv
  OBVIOUS
<1> USE DEF StudyInit
<1>1. rows = <<>> /\ Len(rows) = 0 /\ DOMAIN rows = {}
  OBVIOUS
<1>2. StudyTypeOK
  BY DEF StudyTypeOK, NoVerdict
<1>3. InTurn /\ RowsLeft
  BY <1>1, ModeFacts DEF InTurn, RowsLeft
<1>4. Balance
  <2>1. Firsts(rows, "json_object") = {} /\ Firsts(rows, "tool_calls") = {}
    BY <1>1 DEF Firsts
  <2>2. Ahead(0) = 0
    BY DEF Ahead
  <2>3. Cardinality({}) - Cardinality({}) = 0
    BY FS_EmptySet
  <2> QED BY <1>1, <2>1, <2>2, <2>3 DEF Balance
<1>5. NeverReplenished /\ Judged
  BY CountsAssumption DEF NeverReplenished, Judged, NoVerdict
<1> QED BY <1>2, <1>3, <1>4, <1>5 DEF StudyInv

LEMMA StudyStutters == StudyInv /\ UNCHANGED studyVars => StudyInv'
<1> SUFFICES ASSUME StudyInv, UNCHANGED studyVars PROVE StudyInv'
  OBVIOUS
<1>1. StudyTypeOK' /\ NeverReplenished' /\ InTurn' /\ RowsLeft' /\ Balance'
  BY DEF StudyInv, studyVars, StudyTypeOK, NeverReplenished, InTurn, RowsLeft, Balance
<1>2. Judged'
  BY DEF StudyInv, studyVars, Judged, Complete, FormatDone, SessionsDone, Promotes, Within110,
         Invalid, Valid, Of
<1> QED BY <1>1, <1>2 DEF StudyInv

\* A promotion rests on whole pairs whose modes took turns, every session and
\* fewer invalid answers, and all studies together stay within the allocation:
\* for every number of samples and sessions, wherever studies fail or die.
THEOREM PromotesSoundly == StudySpec => []PromotionIsSound
<1>1. StudyInv /\ [StudyNext]_studyVars => StudyInv'
  BY AnswerStep, StartStep, CloseStep, PaidStep, EndingStep, StoreStep, StudyStutters DEF StudyNext
<1>2. StudyInv => PromotionIsSound
  BY InvOrders, InvPaired DEF StudyInv, PromotionIsSound
<1> QED BY <1>1, <1>2, StudyBegins, PTL DEF StudySpec

-----------------------------------------------------------------------------
(***************************************************************************)
(* StreamedCall.  The parser's state is related to the events that came,   *)
(* as long as none of them was refused: s are these events, p is what has  *)
(* been made of them.                                                      *)
(***************************************************************************)
\* The fragments of the tool call at an index.
Fragments(s, k) == {i \in DOMAIN s : s[i].kind = "tool" /\ s[i].index = k}

\* h are the parts at these places, one after the other; of three parts or
\* more only that they are longer than a whole text.
Joined(s, h, places) ==
    \/ places = {} /\ h = <<>>
    \/ \E i \in places : places = {i} /\ h = s[i].part
    \/ \E i, j \in places : i < j /\ places = {i, j} /\ h = s[i].part \o s[j].part
    \/ Len(h) >= 3

\* The ids that the fragments name.
Ids(s, k) == {s[i].id : i \in Fragments(s, k)} \ {"none"}

LastFinish(s, reason) ==
    \E i \in Places(s, "finish") : s[i].reason = reason /\ \A j \in Places(s, "finish") : j <= i

ToolRead(s, tool, k) ==
    /\ ~tool.seen => Fragments(s, k) = {}
    /\ Joined(s, tool.halves, Fragments(s, k))
    /\ Ids(s, k) = {tool.id} \ {"none"}

EndedByDone(s, p) == p.done => Len(s) \in Places(s, "done")
Accepted(s) == Places(s, "malformed") = {} /\ Places(s, "renamed") = {}
Closing(s, p) ==
    /\ p.finish # "none" => LastFinish(s, p.finish)
    /\ p.usage # "none" => Places(s, "usage") # {}
Contents(s, p) ==
    /\ Joined(s, p.text, Places(s, "text"))
    /\ \A k \in 0..1 : ToolRead(s, p.tools[k], k)

Understood(s, p) ==
    p.error = "none" => EndedByDone(s, p) /\ Accepted(s) /\ Closing(s, p) /\ Contents(s, p)

\* Once the stream has ended: it was complete when it is priced and decoded.
Received ==
    /\ callAt \in {"parse", "price", "settle", "decode"} => ending \in {"closed", "cut"}
    /\ callAt \in {"price", "settle", "decode"} => StreamError(Parsed) = "none"

\* The attempts before the current one have failed with all that was seen.
Gone(i) == calls[i].state = "failed" /\ calls[i].kept

States == [state : {"pending", "settled", "failed"}, kept : BOOLEAN]

Attempts ==
    /\ Len(calls) <= 3
    /\ callAt # "end" => outcome = "none"
    /\ callAt \in {"reserve", "sleep"} => Len(calls) < 3 /\ \A i \in DOMAIN calls : Gone(i)
    /\ callAt \in {"try", "stream", "parse", "price", "settle"} =>
         /\ Len(calls) > 0 /\ calls[Len(calls)].state = "pending"
         /\ \A i \in DOMAIN calls : i < Len(calls) => Gone(i)
    /\ callAt = "decode" =>
         /\ Len(calls) > 0 /\ calls[Len(calls)].state = "settled" /\ calls[Len(calls)].kept
         /\ \A i \in DOMAIN calls : i < Len(calls) => Gone(i)

CallInv ==
    CallTypeOK /\ Understood(sent, parsed) /\ Received /\ Attempts /\ ExecutedAsSent /\ AttemptsAreClosed

-----------------------------------------------------------------------------
(* Events and their parts.                                                 *)

LEMMA PartFacts ==
    \A part \in Parts : part \in Seq(Halves) /\ Len(part) \in Nat /\ Len(part) >= 1
<1>1. /\ <<"first">> \in Seq(Halves) /\ Len(<<"first">>) = 1
      /\ <<"second">> \in Seq(Halves) /\ Len(<<"second">>) = 1
      /\ <<"first", "second">> \in Seq(Halves) /\ Len(<<"first", "second">>) = 2
  BY DEF Halves
<1>2. Parts = {<<"first">>, <<"second">>, <<"first", "second">>}
  BY DEF Parts, Whole
<1> SUFFICES ASSUME NEW part \in Parts
             PROVE  part \in Seq(Halves) /\ Len(part) \in Nat /\ Len(part) >= 1
  OBVIOUS
<1>3. CASE part = <<"first">>
  BY <1>1, <1>3
<1>4. CASE part = <<"second">>
  BY <1>1, <1>4
<1>5. CASE part = <<"first", "second">>
  BY <1>1, <1>5
<1> QED BY <1>2, <1>3, <1>4, <1>5

LEMMA EventFacts ==
    ASSUME NEW e \in Events
    PROVE  /\ e.kind \in {"tool", "text", "finish", "usage", "malformed", "renamed", "done"}
           /\ e.kind = "tool" => e.index \in 0..1 /\ e.id \in {"none", "a", "b"} /\ e.part \in Parts
           /\ e.kind = "text" => e.part \in Parts
           /\ e.kind = "finish" => e.reason \in {"stop", "length"}
           /\ e.kind = "usage" => e.usage \in {"ok", "bad", "beyond"}
<1>1. ASSUME e \in Deltas
      PROVE  e.kind = "tool" /\ e.index \in 0..1 /\ e.id \in {"none", "a", "b"} /\ e.part \in Parts
  BY <1>1 DEF Deltas, Parts, Whole
<1>2. ASSUME e \in Texts PROVE e.kind = "text" /\ e.part \in Parts
  BY <1>2 DEF Texts
<1>3. ASSUME e \in Finishes PROVE e.kind = "finish" /\ e.reason \in {"stop", "length"}
  BY <1>3 DEF Finishes
<1>4. ASSUME e \in Usages PROVE e.kind = "usage" /\ e.usage \in {"ok", "bad", "beyond"}
  BY <1>4 DEF Usages
<1>5. ASSUME e \in Others PROVE e.kind \in {"malformed", "renamed", "done"}
  BY <1>5 DEF Others
<1>6. e \in Deltas \/ e \in Texts \/ e \in Finishes \/ e \in Usages \/ e \in Others
  BY DEF Events, Common
<1> QED BY <1>1, <1>2, <1>3, <1>4, <1>5, <1>6

\* Where the events of a kind are after another one.
LEMMA AppendFacts ==
    ASSUME NEW s \in Seq(Events), NEW e \in Events, NEW q, q = Append(s, e)
    PROVE  /\ q \in Seq(Events) /\ Len(q) = Len(s) + 1 /\ Len(s) + 1 \in DOMAIN q
           /\ q[Len(s) + 1] = e /\ \A i \in DOMAIN s : i \in Nat /\ i <= Len(s) /\ q[i] = s[i]
  OBVIOUS

LEMMA AppendAt ==
    ASSUME NEW s \in Seq(Events), NEW e \in Events, NEW kind
    PROVE  Places(Append(s, e), kind) =
             IF e.kind = kind THEN Places(s, kind) \cup {Len(s) + 1} ELSE Places(s, kind)
<1>1. PICK n \in Nat : n = Len(s) + 1
  OBVIOUS
<1>2. PICK q : q = Append(s, e)
  OBVIOUS
<1>3. DOMAIN q = (DOMAIN s) \cup {n} /\ n \notin DOMAIN s /\ q[n] = e /\ \A i \in DOMAIN s : q[i] = s[i]
  BY <1>1, <1>2
<1>4. Places(q, kind) = IF e.kind = kind THEN Places(s, kind) \cup {n} ELSE Places(s, kind)
  BY <1>3 DEF Places
<1> QED BY <1>1, <1>2, <1>4

LEMMA AppendFragments ==
    ASSUME NEW s \in Seq(Events), NEW e \in Events, NEW k
    PROVE  Fragments(Append(s, e), k) =
             IF e.kind = "tool" /\ e.index = k THEN Fragments(s, k) \cup {Len(s) + 1} ELSE Fragments(s, k)
<1>1. PICK n \in Nat : n = Len(s) + 1
  OBVIOUS
<1>2. PICK q : q = Append(s, e)
  OBVIOUS
<1>3. DOMAIN q = (DOMAIN s) \cup {n} /\ n \notin DOMAIN s /\ q[n] = e /\ \A i \in DOMAIN s : q[i] = s[i]
  BY <1>1, <1>2
<1>4. Fragments(q, k) = IF e.kind = "tool" /\ e.index = k THEN Fragments(s, k) \cup {n} ELSE Fragments(s, k)
  BY <1>3 DEF Fragments
<1> QED BY <1>1, <1>2, <1>4

\* Parts of an event list at places where it is as before.
LEMMA JoinedSame ==
    ASSUME NEW s, NEW q, NEW h, NEW places, \A i \in places : q[i] = s[i], Joined(s, h, places)
    PROVE  Joined(q, h, places)
  BY DEF Joined

LEMMA JoinedMore ==
    ASSUME NEW s, NEW q, NEW places, NEW h \in Seq(Halves), NEW n \in Nat,
           \A i \in places : i \in Nat /\ i < n /\ q[i] = s[i] /\ s[i].part \in Parts,
           q[n].part \in Parts, Joined(s, h, places)
    PROVE  Joined(q, h \o q[n].part, places \cup {n})
<1> DEFINE p == q[n].part
<1>0. /\ p \in Seq(Halves) /\ Len(p) >= 1 /\ Len(p) \in Nat
      /\ \A i \in places : s[i].part \in Seq(Halves) /\ Len(s[i].part) >= 1 /\ Len(s[i].part) \in Nat
  <2>2. p \in Parts /\ \A i \in places : s[i].part \in Parts
    OBVIOUS
  <2> HIDE DEF p
  <2> QED BY <2>2, PartFacts
<1> HIDE DEF p
<1>1. CASE places = {} /\ h = <<>>
  <2>1. h \o p = p /\ places \cup {n} = {n}
    BY <1>0, <1>1
  <2> QED BY <2>1 DEF Joined, p
<1>2. CASE \E i \in places : places = {i} /\ h = s[i].part
  <2>1. PICK i \in places : places = {i} /\ h = s[i].part
    BY <1>2
  <2>2. i < n /\ places \cup {n} = {i, n} /\ h \o p = q[i].part \o q[n].part
    BY <2>1 DEF p
  <2> QED BY <2>2 DEF Joined, p
<1>3. CASE \E i, j \in places : i < j /\ places = {i, j} /\ h = s[i].part \o s[j].part
  <2>1. PICK i, j \in places : h = s[i].part \o s[j].part
    BY <1>3
  <2>2. Len(h) = Len(s[i].part) + Len(s[j].part)
    BY <1>0, <2>1
  <2>3. Len(h \o p) = Len(h) + Len(p)
    BY <1>0
  <2>4. Len(h \o p) >= 3
    <3> DEFINE a == Len(s[i].part)
               b == Len(s[j].part)
               c == Len(p)
    <3>1. a \in Nat /\ a >= 1 /\ b \in Nat /\ b >= 1 /\ c \in Nat /\ c >= 1
      BY <1>0
    <3>2. Len(h \o p) = a + b + c
      BY <2>2, <2>3
    <3> HIDE DEF a, b, c
    <3> QED BY <3>1, <3>2
  <2> QED BY <2>4 DEF Joined, p
<1>4. CASE Len(h) >= 3
  <2>1. Len(h \o p) = Len(h) + Len(p) /\ Len(h) \in Nat
    BY <1>0
  <2>2. Len(h \o p) >= 3
    BY <1>0, <1>4, <2>1
  <2> QED BY <2>2 DEF Joined, p
<1> QED BY <1>1, <1>2, <1>3, <1>4 DEF Joined

LEMMA JoinedWhole ==
    ASSUME NEW places, Joined(sent, Whole, places)
    PROVE  JoinToWhole(sent, places)
<1>1. Whole # <<>> /\ ~(Len(Whole) >= 3)
  BY DEF Whole
<1> QED BY <1>1 DEF Joined, JoinToWhole

-----------------------------------------------------------------------------
(* One event more.                                                         *)

LEMMA ResultFacts ==
    ASSUME NEW p \in Results
    PROVE  /\ p.error \in {"none", "malformed_stream", "identity", "usage"} /\ p.done \in BOOLEAN
           /\ p.finish \in {"none", "stop", "length"} /\ p.usage \in {"none", "ok", "beyond"}
           /\ p.text \in Seq(Halves) /\ p.tools \in [0..1 -> Tools]
           /\ \A k \in 0..1 : /\ p.tools[k].seen \in BOOLEAN /\ p.tools[k].id \in {"none", "a", "b"}
                              /\ p.tools[k].halves \in Seq(Halves)
<1>1. p.tools \in [0..1 -> Tools]
  BY DEF Results
<1>2. \A k \in 0..1 : p.tools[k] \in Tools
  BY <1>1
<1> QED BY <1>1, <1>2 DEF Results, Tools

LEMMA JoinHalves ==
    ASSUME NEW h \in Seq(Halves), NEW part \in Parts
    PROVE  h \o part \in Seq(Halves)
  BY PartFacts

\* What a fragment makes of its tool call.
Extended(tool, e) ==
    [seen |-> TRUE, id |-> IF e.id = "none" THEN tool.id ELSE e.id, halves |-> tool.halves \o e.part]

Clashes(tool, e) == e.id # "none" /\ tool.id # "none" /\ e.id # tool.id

\* What an event changes of what has been made of the events before.
LEMMA EventEffect ==
    ASSUME NEW p \in Results, NEW e \in Events, NEW r, r = WithEvent(p, e),
           p.error = "none", ~p.done
    PROVE  /\ r \in Results
           /\ r.error = "none" =>
                /\ e.kind \notin {"malformed", "renamed"}
                /\ r.done <=> e.kind = "done"
                /\ r.text = IF e.kind = "text" THEN p.text \o e.part ELSE p.text
                /\ r.finish = IF e.kind = "finish" THEN e.reason ELSE p.finish
                /\ r.usage = IF e.kind = "usage" THEN e.usage ELSE p.usage
                /\ \A k \in 0..1 : r.tools[k] = IF e.kind = "tool" /\ e.index = k
                                                THEN Extended(p.tools[k], e) ELSE p.tools[k]
                /\ e.kind = "tool" => ~Clashes(p.tools[e.index], e)
<1> DEFINE q == r
<1>0. e.kind \in {"tool", "text", "finish", "usage", "malformed", "renamed", "done"}
  BY EventFacts
<1>1. CASE e.kind = "done"
  <2>1. r = [p EXCEPT !.done = TRUE]
    BY <1>1 DEF WithEvent
  <2> QED BY <1>1, <2>1 DEF Results
<1>2. CASE e.kind = "malformed"
  <2>1. r = [p EXCEPT !.error = "malformed_stream"]
    BY <1>2 DEF WithEvent
  <2> QED BY <1>2, <2>1 DEF Results
<1>3. CASE e.kind = "renamed"
  <2>1. r = [p EXCEPT !.error = "identity"]
    BY <1>3 DEF WithEvent
  <2> QED BY <1>3, <2>1 DEF Results
<1>4. CASE e.kind = "text"
  <2>1. r = [p EXCEPT !.text = p.text \o e.part]
    BY <1>4 DEF WithEvent
  <2>2. p.text \o e.part \in Seq(Halves)
    BY <1>4, EventFacts, ResultFacts, JoinHalves
  <2> QED BY <1>4, <2>1, <2>2 DEF Results
<1>5. CASE e.kind = "finish"
  <2>1. r = [p EXCEPT !.finish = e.reason]
    BY <1>5 DEF WithEvent
  <2>2. e.reason \in {"stop", "length"}
    BY <1>5, EventFacts
  <2> QED BY <1>5, <2>1, <2>2 DEF Results
<1>6. CASE e.kind = "usage"
  <2>1. r = IF e.usage = "bad" THEN [p EXCEPT !.error = "usage"] ELSE [p EXCEPT !.usage = e.usage]
    BY <1>6 DEF WithEvent, WithUsage
  <2>2. e.usage \in {"ok", "bad", "beyond"}
    BY <1>6, EventFacts
  <2> QED BY <1>6, <2>1, <2>2 DEF Results
<1>7. CASE e.kind = "tool"
  <2> DEFINE k == e.index
             tool == p.tools[k]
             longer == Extended(tool, e)
  <2>1. k \in 0..1 /\ e.id \in {"none", "a", "b"} /\ e.part \in Parts
    BY <1>7, EventFacts
  <2>2. /\ tool.id \in {"none", "a", "b"} /\ tool.halves \in Seq(Halves)
        /\ p.tools \in [0..1 -> Tools]
    BY <2>1, ResultFacts
  <2>3. r = IF Clashes(tool, e) THEN [p EXCEPT !.error = "malformed_stream"]
            ELSE [p EXCEPT !.tools[k] = longer]
    BY <1>7 DEF WithEvent, WithTool, Clashes, Extended
  <2>4. longer \in Tools
    <3>1. tool.halves \o e.part \in Seq(Halves)
      BY <2>1, <2>2, JoinHalves
    <3> QED BY <2>1, <2>2, <3>1 DEF Extended, Tools
  <2> HIDE DEF k, tool, longer
  <2>5. CASE Clashes(tool, e)
    <3>1. r = [p EXCEPT !.error = "malformed_stream"]
      BY <2>3, <2>5
    <3> QED BY <3>1 DEF Results
  <2>6. CASE ~Clashes(tool, e)
    <3>1. r = [p EXCEPT !.tools = [p.tools EXCEPT ![k] = longer]]
      BY <2>3, <2>6 DEF Results
    <3>2. [p.tools EXCEPT ![k] = longer] \in [0..1 -> Tools]
      BY <2>1, <2>2, <2>4
    <3>3. r \in Results /\ r.tools = [p.tools EXCEPT ![k] = longer]
      BY <3>1, <3>2 DEF Results
    <3>4. r.done = p.done /\ r.text = p.text /\ r.finish = p.finish /\ r.usage = p.usage
      BY <3>1 DEF Results
    <3>5. \A i \in 0..1 : r.tools[i] = IF k = i THEN longer ELSE p.tools[i]
      BY <2>2, <3>3
    <3>6. \A i \in 0..1 : r.tools[i] = IF e.index = i THEN Extended(p.tools[i], e) ELSE p.tools[i]
      BY <3>5 DEF k, tool, longer
    <3> QED BY <1>7, <2>6, <3>3, <3>4, <3>6 DEF k, tool
  <2> QED BY <2>5, <2>6
<1> QED BY <1>0, <1>1, <1>2, <1>3, <1>4, <1>5, <1>6, <1>7

LEMMA FieldsMore ==
    ASSUME NEW s, NEW q, NEW places, NEW n, NEW id, q[n].id = id, \A i \in places : q[i].id = s[i].id
    PROVE  {q[i].id : i \in places \cup {n}} = {s[i].id : i \in places} \cup {id}
  OBVIOUS

LEMMA UnderstoodMore ==
    ASSUME NEW s \in Seq(Events), NEW e \in Events, NEW p \in Results,
           p.error = "none", ~p.done, Understood(s, p)
    PROVE  Understood(Append(s, e), WithEvent(p, e))
<1> SUFFICES ASSUME NEW q, q = Append(s, e), NEW r, r = WithEvent(p, e), r.error = "none"
             PROVE  EndedByDone(q, r) /\ Accepted(q) /\ Closing(q, r) /\ Contents(q, r)
  BY DEF Understood
<1> DEFINE n == Len(s)
<1>1. /\ e.kind \notin {"malformed", "renamed"}
      /\ r.done <=> e.kind = "done"
      /\ r.text = IF e.kind = "text" THEN p.text \o e.part ELSE p.text
      /\ r.finish = IF e.kind = "finish" THEN e.reason ELSE p.finish
      /\ r.usage = IF e.kind = "usage" THEN e.usage ELSE p.usage
      /\ \A k \in 0..1 : r.tools[k] = IF e.kind = "tool" /\ e.index = k
                                      THEN Extended(p.tools[k], e) ELSE p.tools[k]
      /\ e.kind = "tool" => ~Clashes(p.tools[e.index], e)
  BY EventEffect
<1>2. /\ n \in Nat /\ Len(q) = n + 1 /\ n + 1 \in DOMAIN q /\ n + 1 \in Nat
      /\ q[n + 1] = e /\ \A i \in DOMAIN s : i \in Nat /\ i < n + 1 /\ q[i] = s[i] /\ s[i] \in Events
  BY AppendFacts
<1>3. \A kind : Places(q, kind) = IF e.kind = kind THEN Places(s, kind) \cup {n + 1} ELSE Places(s, kind)
  <2> SUFFICES ASSUME NEW kind
               PROVE  Places(q, kind) = IF e.kind = kind THEN Places(s, kind) \cup {n + 1} ELSE Places(s, kind)
    OBVIOUS
  <2> QED BY AppendAt
<1>4. \A k : Fragments(q, k) = IF e.kind = "tool" /\ e.index = k
                               THEN Fragments(s, k) \cup {n + 1} ELSE Fragments(s, k)
  <2> SUFFICES ASSUME NEW k
               PROVE  Fragments(q, k) = IF e.kind = "tool" /\ e.index = k
                                        THEN Fragments(s, k) \cup {n + 1} ELSE Fragments(s, k)
    OBVIOUS
  <2> QED BY AppendFragments
<1> HIDE DEF n
<1>5. EndedByDone(q, r)
  BY <1>1, <1>2, <1>3 DEF EndedByDone
<1>6. Accepted(q)
  BY <1>1, <1>3 DEF Accepted, Understood
<1>7. Closing(q, r)
  <2>1. CASE e.kind = "finish"
    <3>1. Places(q, "finish") = Places(s, "finish") \cup {n + 1} /\ Places(q, "usage") = Places(s, "usage")
      BY <1>3, <2>1
    <3>2. \A j \in Places(q, "finish") : j <= n + 1
      BY <1>2, <3>1 DEF Places
    <3>3. r.finish = e.reason /\ r.usage = p.usage
      BY <1>1, <2>1
    <3> QED BY <1>2, <3>1, <3>2, <3>3 DEF Closing, LastFinish, Understood
  <2>2. CASE e.kind # "finish"
    <3>1. Places(q, "finish") = Places(s, "finish") /\ r.finish = p.finish
      BY <1>1, <1>3, <2>2
    <3>2. \A i \in Places(s, "finish") : q[i] = s[i]
      BY <1>2 DEF Places
    <3>3. r.finish # "none" => LastFinish(q, r.finish)
      BY <3>1, <3>2 DEF Closing, LastFinish, Understood
    <3>4. r.usage # "none" => Places(q, "usage") # {}
      BY <1>1, <1>3 DEF Closing, Understood
    <3> QED BY <3>3, <3>4 DEF Closing
  <2> QED BY <2>1, <2>2
<1>8. Joined(q, r.text, Places(q, "text"))
  <2>1. Joined(s, p.text, Places(s, "text")) /\ p.text \in Seq(Halves)
    BY ResultFacts DEF Understood, Contents
  <2>2. \A i \in Places(s, "text") : i \in Nat /\ i < n + 1 /\ q[i] = s[i] /\ s[i].part \in Parts
    BY <1>2, EventFacts DEF Places
  <2>3. CASE e.kind = "text"
    <3>1. q[n + 1].part \in Parts
      BY <1>2, <2>3, EventFacts
    <3>2. Joined(q, p.text \o q[n + 1].part, Places(s, "text") \cup {n + 1})
      BY <1>2, <2>1, <2>2, <3>1, JoinedMore
    <3> QED BY <1>1, <1>2, <1>3, <2>3, <3>2
  <2>4. CASE e.kind # "text"
    <3>1. Joined(q, p.text, Places(s, "text"))
      BY <2>1, <2>2, JoinedSame
    <3> QED BY <1>1, <1>3, <2>4, <3>1
  <2> QED BY <2>3, <2>4
<1>9. ASSUME NEW k \in 0..1
      PROVE  ToolRead(q, r.tools[k], k)
  <2> DEFINE tool == p.tools[k]
             new == r.tools[k]
  <2>1. ToolRead(s, tool, k)
    BY DEF Understood, Contents
  <2>2. tool.seen \in BOOLEAN /\ tool.id \in {"none", "a", "b"} /\ tool.halves \in Seq(Halves)
    BY ResultFacts
  <2>3. \A i \in Fragments(s, k) : i \in Nat /\ i < n + 1 /\ q[i] = s[i] /\ s[i].part \in Parts
    BY <1>2, EventFacts DEF Fragments
  <2> HIDE DEF tool, new
  <2>4. CASE e.kind = "tool" /\ e.index = k
    <3>1. new = Extended(tool, e) /\ Fragments(q, k) = Fragments(s, k) \cup {n + 1}
      BY <1>1, <1>4, <2>4 DEF tool, new
    <3>2. e.part \in Parts /\ e.id \in {"none", "a", "b"}
      BY <2>4, EventFacts
    <3>3. ~Clashes(tool, e)
      BY <1>1, <2>4 DEF tool
    <3>4. /\ new.seen = TRUE /\ new.id = (IF e.id = "none" THEN tool.id ELSE e.id)
          /\ new.halves = tool.halves \o e.part
      BY <3>1 DEF Extended
    <3>5. Joined(q, new.halves, Fragments(q, k))
      <4>1. Joined(s, tool.halves, Fragments(s, k))
        BY <2>1 DEF ToolRead
      <4>2. Joined(q, tool.halves \o q[n + 1].part, Fragments(s, k) \cup {n + 1})
        BY <1>2, <2>2, <2>3, <3>2, <4>1, JoinedMore
      <4>3. new.halves = tool.halves \o q[n + 1].part
        BY <1>2, <3>4
      <4> QED BY <3>1, <4>2, <4>3
    <3>6. Ids(q, k) = (Ids(s, k) \cup {e.id}) \ {"none"}
      <4>1. q[n + 1].id = e.id /\ \A i \in Fragments(s, k) : q[i].id = s[i].id
        BY <1>2, <2>3
      <4>2. {q[i].id : i \in Fragments(q, k)} = {s[i].id : i \in Fragments(s, k)} \cup {e.id}
        <5>1. {q[i].id : i \in Fragments(s, k) \cup {n + 1}} = {s[i].id : i \in Fragments(s, k)} \cup {e.id}
          BY <4>1, FieldsMore
        <5> QED BY <3>1, <5>1
      <4> QED BY <4>2 DEF Ids
    <3>7. Ids(s, k) = {tool.id} \ {"none"}
      BY <2>1 DEF ToolRead
    <3>8. Ids(q, k) = {new.id} \ {"none"}
      BY <3>3, <3>4, <3>6, <3>7 DEF Clashes
    <3> QED BY <3>4, <3>5, <3>8 DEF ToolRead, new
  <2>5. CASE ~(e.kind = "tool" /\ e.index = k)
    <3>1. new = tool /\ Fragments(q, k) = Fragments(s, k)
      BY <1>1, <1>4, <2>5 DEF tool, new
    <3>2. Joined(q, tool.halves, Fragments(s, k))
      BY <2>1, <2>3, JoinedSame DEF ToolRead
    <3>3. Ids(q, k) = Ids(s, k)
      BY <2>3, <3>1 DEF Ids
    <3> QED BY <2>1, <3>1, <3>2, <3>3 DEF ToolRead, new
  <2> QED BY <2>4, <2>5
<1>10. Contents(q, r)
  BY <1>8, <1>9 DEF Contents
<1> QED BY <1>5, <1>6, <1>7, <1>10

\* What ExecutedAsSent says of an action, as a relation between values.
Genuine(f, s, e, m, a) ==
    /\ e \in {"closed", "cut"} /\ Len(s) \in Places(s, "done")
    /\ \E i \in Places(s, "finish") : s[i].reason # "length" /\ \A j \in Places(s, "finish") : j <= i
    /\ Places(s, "usage") # {} /\ Places(s, "malformed") = {}
    /\ m = "asked" /\ Places(s, "renamed") = {}
    /\ LET fragments == Places(s, IF f = "json_object" THEN "text" ELSE "tool") IN
       /\ a = Whole /\ JoinToWhole(s, fragments)
       /\ f = "tool_calls" =>
            /\ \A i, j \in fragments : s[i].index = s[j].index
            /\ \E id \in {"a", "b"} : {s[i].id : i \in fragments} \ {"none"} = {id}

LEMMA ExecutedGenuine ==
    /\ ExecutedAsSent <=> (outcome = "action" => Genuine(format, sent, ending, serves, action))
    /\ ExecutedAsSent' <=> (outcome' = "action" => Genuine(format', sent', ending', serves', action'))
  BY DEF ExecutedAsSent, Genuine

LEMMA NothingUnderstood == NothingParsed \in Results /\ Understood(<<>>, NothingParsed)
<1> DEFINE p == NothingParsed
<1>1. /\ p.error = "none" /\ p.done = FALSE /\ p.finish = "none" /\ p.usage = "none" /\ p.text = <<>>
      /\ p.tools = [i \in 0..1 |-> NoTool]
  BY DEF NothingParsed
<1>2. NoTool \in Tools /\ NoTool.seen = FALSE /\ NoTool.id = "none" /\ NoTool.halves = <<>>
  BY DEF NoTool, Tools
<1>3. p \in Results
  <2>1. [i \in 0..1 |-> NoTool] \in [0..1 -> Tools] /\ <<>> \in Seq(Halves)
    BY <1>2
  <2> QED BY <2>1 DEF NothingParsed, Results
<1>4. \A kind : Places(<<>>, kind) = {}
  BY DEF Places
<1>5. \A k : Fragments(<<>>, k) = {} /\ Ids(<<>>, k) = {}
  BY DEF Fragments, Ids
<1>6. EndedByDone(<<>>, p) /\ Accepted(<<>>) /\ Closing(<<>>, p)
  BY <1>1, <1>4 DEF EndedByDone, Accepted, Closing
<1>7. Contents(<<>>, p)
  <2>1. \A k \in 0..1 : p.tools[k] = NoTool
    BY <1>1
  <2> HIDE DEF p
  <2> QED BY <1>1, <1>2, <1>4, <1>5, <2>1 DEF Contents, ToolRead, Joined
<1> QED BY <1>3, <1>6, <1>7 DEF Understood

-----------------------------------------------------------------------------
(* The steps.                                                              *)

LEMMA SendStep == CallInv /\ SendEvent => CallInv'
<1> SUFFICES ASSUME CallInv, SendEvent PROVE CallInv'
  OBVIOUS
<1>1. PICK e \in Answers : sent' = Append(sent, e) /\ parsed' = WithEvent(parsed, e)
  BY DEF SendEvent
<1>2. e \in Events
  BY DEF Answers, Events
<1>3. /\ sent \in Seq(Events) /\ parsed \in Results /\ parsed.error = "none" /\ ~parsed.done
      /\ Understood(sent, parsed)
  BY DEF CallInv, CallTypeOK, SendEvent
<1>4. sent' \in Seq(Events) /\ parsed' \in Results
  BY <1>1, <1>2, <1>3, EventEffect
<1>5. Understood(sent', parsed')
  BY <1>1, <1>2, <1>3, UnderstoodMore
<1>6. /\ UNCHANGED <<format, serves, ending, calls, failure, outcome, action, callAt>>
      /\ callAt = "stream" /\ outcome = "none"
  BY DEF SendEvent, CallInv, Attempts
<1>7. CallTypeOK'
  BY <1>4, <1>6 DEF CallInv, CallTypeOK
<1>8. Received' /\ Attempts' /\ AttemptsAreClosed'
  BY <1>6 DEF CallInv, Received, Attempts, AttemptsAreClosed, Gone
<1>9. ExecutedAsSent'
  BY <1>6 DEF ExecutedAsSent
<1> QED BY <1>5, <1>7, <1>8, <1>9 DEF CallInv

LEMMA ClosedFacts ==
    ASSUME NEW s \in Seq(States), Len(s) > 0, NEW x \in States, NEW t, t = [s EXCEPT ![Len(s)] = x]
    PROVE  /\ t \in Seq(States) /\ Len(t) = Len(s) /\ DOMAIN t = 1..Len(s) /\ t[Len(s)] = x
           /\ \A i \in 1..Len(s) : i # Len(s) => t[i] = s[i]
  OBVIOUS

\* An attempt fails: it is closed, and tried again or the last one.
LEMMA AttemptFails ==
    ASSUME CallInv, callAt \in {"stream", "parse", "price"}, NEW class, NEW kept \in BOOLEAN,
           class \in {"transport", "server", "http_request", "malformed_stream", "identity",
                      "usage", "stopped", "late"},
           kept \/ class = "late",
           ending' \in {"open", "closed", "cut", "broken", "refused", "stopped"},
           Fail(class, kept)
    PROVE  CallInv'
<1> DEFINE n == Len(calls)
           failed == [state |-> "failed", kept |-> kept]
<1>1. calls \in Seq(States) /\ DOMAIN calls = 1..n /\ n \in Nat
  <2>1. calls \in Seq(States)
    BY DEF CallInv, CallTypeOK, States
  <2> QED BY <2>1
<1>2. /\ n > 0 /\ n <= 3 /\ outcome = "none"
      /\ \A i \in DOMAIN calls : i < n => Gone(i)
  BY DEF CallInv, Attempts
<1>3. failed \in States /\ failed.state = "failed" /\ failed.kept = kept
  BY DEF States
<1>4. calls' = [calls EXCEPT ![n] = failed]
  BY DEF Fail, CloseCall
<1> HIDE DEF n, failed
<1>5. /\ calls' \in Seq(States) /\ Len(calls') = n /\ DOMAIN calls' = 1..n
      /\ calls'[n] = failed /\ \A i \in 1..n : i # n => calls'[i] = calls[i]
  <2>1. Len(calls) = n
    BY DEF n
  <2> QED BY <1>1, <1>2, <1>3, <1>4, <2>1, ClosedFacts
<1>6. \A i \in 1..n : calls'[i].state = "failed" /\ (calls'[i].kept \/ (i = n /\ class = "late"))
  <2> SUFFICES ASSUME NEW i \in 1..n
               PROVE  calls'[i].state = "failed" /\ (calls'[i].kept \/ (i = n /\ class = "late"))
    OBVIOUS
  <2>1. CASE i = n
    BY <1>3, <1>5, <2>1
  <2>2. CASE i # n
    <3>1. i < n /\ i \in DOMAIN calls
      BY <1>1, <2>2
    <3> QED BY <1>2, <1>5, <2>2, <3>1 DEF Gone
  <2> QED BY <2>1, <2>2
<1>7. /\ sent' = <<>> /\ parsed' = NothingParsed /\ failure' = class
      /\ UNCHANGED <<format, serves, action>>
      /\ \/ callAt' = "sleep" /\ outcome' = "none" /\ n < 3 /\ class # "late"
         \/ callAt' = "end" /\ outcome' = "error"
  BY <1>2 DEF Fail, MayRetry, Retryable, n
<1>8. CallTypeOK'
  <2>1. sent' \in Seq(Events) /\ parsed' \in Results
    BY <1>7, NothingUnderstood
  <2> QED BY <1>5, <1>7, <2>1 DEF CallInv, CallTypeOK, States
<1>9. Understood(sent', parsed')
  BY <1>7, NothingUnderstood
<1>10. Received' /\ ExecutedAsSent'
  BY <1>7 DEF Received, ExecutedAsSent
<1>11. Attempts'
  BY <1>1, <1>2, <1>5, <1>6, <1>7 DEF Attempts, Gone
<1>12. AttemptsAreClosed'
  <2>1. /\ Len(calls') <= 3 /\ DOMAIN calls' = 1..n
        /\ callAt' # "decode" /\ outcome' \notin {"action", "no action"}
    BY <1>2, <1>5, <1>7
  <2> QED BY <1>5, <1>6, <1>7, <2>1 DEF AttemptsAreClosed
<1> QED BY <1>8, <1>9, <1>10, <1>11, <1>12 DEF CallInv

LEMMA BreakStep == CallInv /\ (StreamBreaks \/ Refused \/ Stopped \/ StoppedLate) => CallInv'
<1>1. ASSUME CallInv, StreamBreaks PROVE CallInv'
  BY <1>1, AttemptFails DEF StreamBreaks
<1>2. ASSUME CallInv, Refused PROVE CallInv'
  <2>1. PICK class \in {"server", "http_request"} : Fail(class, TRUE)
    BY <1>2 DEF Refused
  <2> QED BY <1>2, <2>1, AttemptFails DEF Refused
<1>3. ASSUME CallInv, Stopped PROVE CallInv'
  BY <1>3, AttemptFails DEF Stopped
<1>4. ASSUME CallInv, StoppedLate PROVE CallInv'
  BY <1>4, AttemptFails DEF StoppedLate
<1> QED BY <1>1, <1>2, <1>3, <1>4

\* A step that leaves what came and the attempts as they are.
LEMMA SameCalls ==
    ASSUME CallInv, UNCHANGED <<format, sent, parsed, calls, failure>>,
           outcome' \notin {"action"}, callAt # "end"
    PROVE  Understood(sent', parsed') /\ ExecutedAsSent'
  BY DEF CallInv, ExecutedAsSent

LEMMA ParseStep == CallInv /\ Parse => CallInv'
<1> SUFFICES ASSUME CallInv, Parse PROVE CallInv'
  OBVIOUS
<1> DEFINE fault == StreamError(Parsed)
<1>1. parsed \in Results /\ parsed.error \in {"none", "malformed_stream", "identity", "usage"}
  BY ResultFacts DEF CallInv, CallTypeOK
<1>2. Parsed.error \in {"none", "malformed_stream", "identity", "usage"}
  BY <1>1 DEF Parsed, Results
<1>3. fault \in {"none", "malformed_stream", "identity", "usage"}
  BY <1>2 DEF StreamError
<1>4. callAt = "parse" /\ ending' = ending /\ ending \in {"open", "closed", "cut", "broken", "refused", "stopped"}
  BY DEF Parse, CallInv, CallTypeOK
<1>5. CASE fault # "none"
  <2>1. Fail(fault, TRUE)
    BY <1>5 DEF Parse
  <2> HIDE DEF fault
  <2> QED BY <1>3, <1>4, <1>5, <2>1, AttemptFails
<1>6. CASE fault = "none"
  <2>1. /\ callAt' = "price"
        /\ UNCHANGED <<format, serves, sent, parsed, ending, calls, failure, outcome, action>>
    BY <1>6 DEF Parse, Proceed
  <2>2. outcome = "none"
    BY <1>4 DEF CallInv, Attempts
  <2>3. CallTypeOK'
    BY <2>1 DEF CallInv, CallTypeOK
  <2>4. Understood(sent', parsed') /\ ExecutedAsSent'
    BY <1>4, <2>1, <2>2, SameCalls
  <2>5. Received'
    BY <1>4, <1>6, <2>1 DEF CallInv, Received, StreamError, Parsed
  <2>6. Attempts' /\ AttemptsAreClosed'
    BY <1>4, <2>1, <2>2 DEF CallInv, Attempts, AttemptsAreClosed, Gone
  <2> QED BY <2>3, <2>4, <2>5, <2>6 DEF CallInv
<1> QED BY <1>5, <1>6

LEMMA PriceStep == CallInv /\ Price => CallInv'
<1> SUFFICES ASSUME CallInv, Price PROVE CallInv'
  OBVIOUS
<1>1. /\ callAt = "price" /\ ending' = ending /\ outcome = "none"
      /\ ending \in {"open", "closed", "cut", "broken", "refused", "stopped"}
  BY DEF Price, CallInv, CallTypeOK, Attempts
<1>2. CASE parsed.usage = "beyond"
  <2>1. Fail("usage", TRUE)
    BY <1>2 DEF Price
  <2> QED BY <1>1, <2>1, AttemptFails
<1>3. CASE parsed.usage # "beyond"
  <2>1. /\ callAt' = "settle"
        /\ UNCHANGED <<format, serves, sent, parsed, ending, calls, failure, outcome, action>>
    BY <1>3 DEF Price, Proceed
  <2>2. CallTypeOK'
    BY <2>1 DEF CallInv, CallTypeOK
  <2>3. Understood(sent', parsed') /\ ExecutedAsSent'
    BY <1>1, <2>1, SameCalls
  <2>4. Received'
    BY <1>1, <2>1 DEF CallInv, Received, StreamError, Parsed
  <2>5. Attempts' /\ AttemptsAreClosed'
    BY <1>1, <2>1 DEF CallInv, Attempts, AttemptsAreClosed, Gone
  <2> QED BY <2>2, <2>3, <2>4, <2>5 DEF CallInv
<1> QED BY <1>2, <1>3

LEMMA SettleStep == CallInv /\ Settle => CallInv'
<1> SUFFICES ASSUME CallInv, Settle PROVE CallInv'
  OBVIOUS
<1> DEFINE n == Len(calls)
           settled == [state |-> "settled", kept |-> TRUE]
<1>1. /\ callAt = "settle" /\ callAt' = "decode" /\ CloseCall("settled", TRUE) /\ outcome = "none"
      /\ UNCHANGED <<format, serves, sent, parsed, ending, failure, outcome, action>>
  BY DEF Settle, Proceed, CallInv, Attempts
<1>2. calls \in Seq(States) /\ n \in Nat /\ n > 0 /\ n <= 3 /\ DOMAIN calls = 1..n
  <2>1. calls \in Seq(States)
    BY DEF CallInv, CallTypeOK, States
  <2> QED BY <1>1, <2>1 DEF CallInv, Attempts
<1>3. \A i \in DOMAIN calls : i < n => Gone(i)
  BY <1>1 DEF CallInv, Attempts
<1>4. settled \in States /\ settled.state = "settled" /\ settled.kept = TRUE
  BY DEF States
<1>5. /\ calls' \in Seq(States) /\ Len(calls') = n /\ DOMAIN calls' = 1..n
      /\ calls'[n] = settled /\ \A i \in 1..n : i # n => calls'[i] = calls[i]
  <2>1. calls' = [calls EXCEPT ![n] = settled]
    BY <1>1 DEF CloseCall
  <2> HIDE DEF n, settled
  <2>2. Len(calls) = n
    BY DEF n
  <2> QED BY <1>2, <1>4, <2>1, <2>2, ClosedFacts
<1> HIDE DEF n, settled
<1>6. \A i \in 1..n : i # n => calls'[i].state = "failed" /\ calls'[i].kept
  <2> SUFFICES ASSUME NEW i \in 1..n, i # n
               PROVE  calls'[i].state = "failed" /\ calls'[i].kept
    OBVIOUS
  <2>1. i < n /\ i \in DOMAIN calls
    BY <1>2
  <2> QED BY <1>3, <1>5, <2>1 DEF Gone
<1>7. CallTypeOK'
  BY <1>1, <1>5 DEF CallInv, CallTypeOK, States
<1>8. Understood(sent', parsed') /\ ExecutedAsSent'
  BY <1>1 DEF CallInv, ExecutedAsSent
<1>9. Received'
  BY <1>1 DEF CallInv, Received, StreamError, Parsed
<1>10. Attempts'
  BY <1>1, <1>2, <1>4, <1>5, <1>6 DEF Attempts, Gone
<1>11. AttemptsAreClosed'
  BY <1>1, <1>2, <1>4, <1>5, <1>6 DEF AttemptsAreClosed
<1> QED BY <1>7, <1>8, <1>9, <1>10, <1>11 DEF CallInv

\* The stop that leaves the attempt open.
LEMMA UnclosedStep == CallInv /\ StoppedUnclosed => CallInv'
<1> SUFFICES ASSUME CallInv, StoppedUnclosed PROVE CallInv'
  OBVIOUS
<1>0. PICK kept \in BOOLEAN : CloseCall("pending", kept)
  BY DEF StoppedUnclosed
<1> DEFINE n == Len(calls)
           open == [state |-> "pending", kept |-> kept]
<1>1. /\ callAt \in {"try", "stream", "parse", "price", "settle"} /\ callAt' = "end" /\ outcome' = "error"
      /\ ending' = "stopped" /\ failure' = "unclosed" /\ sent' = <<>> /\ parsed' = NothingParsed
      /\ UNCHANGED <<format, serves, action>>
  BY DEF StoppedUnclosed
<1>2. calls \in Seq(States) /\ n \in Nat /\ n > 0 /\ n <= 3 /\ DOMAIN calls = 1..n
  <2>1. calls \in Seq(States)
    BY DEF CallInv, CallTypeOK, States
  <2> QED BY <1>1, <2>1 DEF CallInv, Attempts
<1>3. \A i \in DOMAIN calls : i < n => Gone(i)
  BY <1>1 DEF CallInv, Attempts
<1>4. open \in States /\ open.state = "pending"
  BY DEF States
<1>5. /\ calls' \in Seq(States) /\ Len(calls') = n /\ DOMAIN calls' = 1..n
      /\ calls'[n] = open /\ \A i \in 1..n : i # n => calls'[i] = calls[i]
  <2>1. calls' = [calls EXCEPT ![n] = open]
    BY <1>0 DEF CloseCall
  <2> HIDE DEF n, open
  <2>2. Len(calls) = n
    BY DEF n
  <2> QED BY <1>2, <1>4, <2>1, <2>2, ClosedFacts
<1> HIDE DEF n, open
<1>6. \A i \in 1..n : i # n => calls'[i].state = "failed" /\ calls'[i].kept
  <2> SUFFICES ASSUME NEW i \in 1..n, i # n
               PROVE  calls'[i].state = "failed" /\ calls'[i].kept
    OBVIOUS
  <2>1. i < n /\ i \in DOMAIN calls
    BY <1>2
  <2> QED BY <1>3, <1>5, <2>1 DEF Gone
<1>7. CallTypeOK'
  <2>1. sent' \in Seq(Events) /\ parsed' \in Results
    BY <1>1, NothingUnderstood
  <2> QED BY <1>1, <1>5, <2>1 DEF CallInv, CallTypeOK, States
<1>8. Understood(sent', parsed')
  BY <1>1, NothingUnderstood
<1>9. Received' /\ ExecutedAsSent'
  BY <1>1 DEF Received, ExecutedAsSent
<1>10. Attempts'
  BY <1>1, <1>2, <1>5 DEF Attempts
<1>11. AttemptsAreClosed'
  BY <1>1, <1>2, <1>4, <1>5, <1>6 DEF AttemptsAreClosed
<1> QED BY <1>7, <1>8, <1>9, <1>10, <1>11 DEF CallInv

\* What is decoded to an action was sent as a whole.
LEMMA DecodedAsSent ==
    ASSUME CallInv, callAt = "decode", Decoded(parsed) # <<>>
    PROVE  Genuine(format, sent, ending, serves, Decoded(parsed))
<1> DEFINE p == parsed
<1>1. p \in Results /\ sent \in Seq(Events) /\ format \in {"json_object", "tool_calls"}
  BY DEF CallInv, CallTypeOK
<1>2. ending \in {"closed", "cut"} /\ StreamError(Parsed) = "none"
  BY DEF CallInv, Received
<1>3. /\ Parsed.error = "none" /\ Parsed.done /\ Parsed.usage # "none" /\ Parsed.finish # "none"
      /\ serves = "asked"
  BY <1>2 DEF StreamError
<1>4. p.error = "none" /\ p.done /\ p.usage # "none" /\ p.finish # "none"
  BY <1>1, <1>3 DEF Parsed, Results
<1>5. EndedByDone(sent, p) /\ Accepted(sent) /\ Closing(sent, p) /\ Contents(sent, p)
  BY <1>4 DEF CallInv, Understood
<1>7. p.finish # "length"
  BY DEF Decoded
<1>8. /\ Len(sent) \in Places(sent, "done") /\ Places(sent, "usage") # {}
      /\ Places(sent, "malformed") = {} /\ Places(sent, "renamed") = {}
      /\ \E i \in Places(sent, "finish") : sent[i].reason # "length" /\ \A j \in Places(sent, "finish") : j <= i
  BY <1>4, <1>5, <1>7 DEF EndedByDone, Accepted, Closing, LastFinish
<1>9. CASE format = "json_object"
  <2>1. p.text = Whole /\ Decoded(p) = Whole
    BY <1>7, <1>9 DEF Decoded
  <2>2. JoinToWhole(sent, Places(sent, "text"))
    BY <1>5, <2>1, JoinedWhole DEF Contents
  <2> QED BY <1>2, <1>3, <1>8, <1>9, <2>1, <2>2 DEF Genuine
<1>10. CASE format = "tool_calls"
  <2> DEFINE tools == {i \in 0..1 : p.tools[i].seen}
  <2>1. PICK k \in tools : tools = {k} /\ p.tools[k].id # "none"
    BY <1>7, <1>10 DEF Decoded
  <2>2. (CHOOSE i \in tools : TRUE) = k
    BY <2>1
  <2>3. p.tools[k].halves = Whole /\ Decoded(p) = Whole
    <3>1. Decoded(p) = IF p.tools[k].halves = Whole THEN p.tools[k].halves ELSE <<>>
      BY <1>7, <1>10, <2>1, <2>2 DEF Decoded
    <3> QED BY <3>1
  <2>4. k \in 0..1 /\ \A i \in 0..1 : i # k => ~p.tools[i].seen
    BY <2>1
  <2> HIDE DEF tools
  <2>5. \A i \in 0..1 : ToolRead(sent, p.tools[i], i)
    BY <1>5 DEF Contents
  <2>6. \A i \in DOMAIN sent : sent[i].kind = "tool" => sent[i].index \in 0..1
    BY <1>1, EventFacts
  <2>7. Places(sent, "tool") = Fragments(sent, k)
    <3>1. \A i \in 0..1 : i # k => Fragments(sent, i) = {}
      BY <2>4, <2>5 DEF ToolRead
    <3> QED BY <2>4, <2>6, <3>1 DEF Places, Fragments
  <2>8. JoinToWhole(sent, Places(sent, "tool"))
    BY <2>3, <2>4, <2>5, <2>7, JoinedWhole DEF ToolRead
  <2>9. \A i, j \in Places(sent, "tool") : sent[i].index = sent[j].index
    BY <2>7 DEF Fragments
  <2>10. p.tools[k].id \in {"a", "b"}
    BY <1>1, <2>1, <2>4, ResultFacts
  <2>11. {sent[i].id : i \in Places(sent, "tool")} \ {"none"} = {p.tools[k].id}
    BY <2>4, <2>5, <2>7, <2>10 DEF ToolRead, Ids
  <2> QED BY <1>2, <1>3, <1>8, <1>10, <2>3, <2>8, <2>9, <2>10, <2>11 DEF Genuine
<1> QED BY <1>1, <1>9, <1>10

LEMMA DecodeStep == CallInv /\ Decode => CallInv'
<1> SUFFICES ASSUME CallInv, Decode PROVE CallInv'
  OBVIOUS
<1>1. /\ callAt = "decode" /\ callAt' = "end" /\ action' = Decoded(parsed)
      /\ outcome' = IF action' = <<>> THEN "no action" ELSE "action"
      /\ UNCHANGED <<format, serves, sent, parsed, ending, calls, failure>>
  BY DEF Decode, Proceed
<1>2. action' \in {<<>>, Whole}
  BY <1>1 DEF Decoded
<1>3. CallTypeOK'
  <2>1. <<>> \in Seq(Halves) /\ <<"first", "second">> \in Seq(Halves)
    BY DEF Halves
  <2>2. action' \in Seq(Halves)
    BY <1>2, <2>1 DEF Whole
  <2> QED BY <1>1, <2>2 DEF CallInv, CallTypeOK
<1>4. Understood(sent', parsed') /\ Received'
  BY <1>1 DEF CallInv, Received
<1>5. Attempts' /\ AttemptsAreClosed'
  BY <1>1 DEF CallInv, Attempts, AttemptsAreClosed, Gone
<1>6. ExecutedAsSent'
  <2> SUFFICES ASSUME outcome' = "action"
               PROVE  Genuine(format', sent', ending', serves', action')
    BY ExecutedGenuine
  <2>1. Decoded(parsed) # <<>>
    BY <1>1
  <2> QED BY <1>1, <2>1, DecodedAsSent
<1> QED BY <1>3, <1>4, <1>5, <1>6 DEF CallInv

LEMMA ReserveStep == CallInv /\ ReserveCall => CallInv'
<1> SUFFICES ASSUME CallInv, ReserveCall PROVE CallInv'
  OBVIOUS
<1> DEFINE n == Len(calls)
           new == [state |-> "pending", kept |-> FALSE]
<1>1. /\ callAt = "reserve" /\ callAt' = "try" /\ calls' = Append(calls, new)
      /\ sent' = <<>> /\ parsed' = NothingParsed /\ ending' = "open" /\ failure' = "none"
      /\ UNCHANGED <<format, serves, outcome, action>>
  BY DEF ReserveCall, Proceed
<1>2. calls \in Seq(States) /\ new \in States /\ new.state = "pending"
  BY DEF CallInv, CallTypeOK, States
<1>3. n < 3 /\ outcome = "none" /\ \A i \in DOMAIN calls : Gone(i)
  BY <1>1 DEF CallInv, Attempts
<1> HIDE DEF new
<1>4. /\ n \in Nat /\ calls' \in Seq(States) /\ Len(calls') = n + 1 /\ DOMAIN calls' = 1..(n + 1)
      /\ calls'[n + 1] = new /\ \A i \in 1..n : i \in DOMAIN calls /\ calls'[i] = calls[i]
  BY <1>1, <1>2
<1> HIDE DEF n
<1>5. \A i \in 1..(n + 1) : i # n + 1 => calls'[i].state = "failed" /\ calls'[i].kept
  BY <1>3, <1>4 DEF Gone
<1>6. CallTypeOK'
  <2>1. sent' \in Seq(Events) /\ parsed' \in Results
    BY <1>1, NothingUnderstood
  <2> QED BY <1>1, <1>4, <2>1 DEF CallInv, CallTypeOK, States
<1>7. Understood(sent', parsed')
  BY <1>1, NothingUnderstood
<1>8. Received' /\ ExecutedAsSent'
  BY <1>1, <1>3 DEF Received, ExecutedAsSent
<1>9. Attempts'
  BY <1>1, <1>2, <1>3, <1>4, <1>5 DEF Attempts, Gone
<1>10. AttemptsAreClosed'
  BY <1>1, <1>2, <1>3, <1>4, <1>5 DEF AttemptsAreClosed
<1> QED BY <1>6, <1>7, <1>8, <1>9, <1>10 DEF CallInv

LEMMA PauseStep == CallInv /\ (Try \/ StreamEnds \/ StoppedBetween \/ Slept) => CallInv'
<1>1. ASSUME CallInv, StreamEnds PROVE CallInv'
  <2>1. /\ callAt = "stream" /\ callAt' = "parse" /\ outcome' = outcome /\ outcome = "none"
        /\ ending' \in {"closed", "cut"} /\ serves' \in {"none", "asked", "other"}
        /\ UNCHANGED <<format, sent, parsed, calls, failure, action>>
    BY <1>1 DEF StreamEnds, Proceed, CallInv, Attempts
  <2>2. CallTypeOK'
    BY <1>1, <2>1 DEF CallInv, CallTypeOK
  <2>3. Understood(sent', parsed') /\ ExecutedAsSent'
    BY <1>1, <2>1, SameCalls
  <2>4. Received' /\ Attempts' /\ AttemptsAreClosed'
    BY <1>1, <2>1 DEF CallInv, Received, Attempts, AttemptsAreClosed, Gone
  <2> QED BY <2>2, <2>3, <2>4 DEF CallInv
<1>2. ASSUME CallInv, StoppedBetween PROVE CallInv'
  <2>1. /\ callAt \in {"reserve", "sleep", "decode"} /\ callAt' = "end" /\ outcome' = "error"
        /\ UNCHANGED <<format, serves, sent, parsed, ending, calls, failure, action>>
    BY <1>2 DEF StoppedBetween
  <2>2. CallTypeOK'
    BY <1>2, <2>1 DEF CallInv, CallTypeOK
  <2>3. Understood(sent', parsed') /\ ExecutedAsSent'
    BY <1>2, <2>1, SameCalls
  <2>4. Received' /\ Attempts' /\ AttemptsAreClosed'
    BY <1>2, <2>1 DEF CallInv, Received, Attempts, AttemptsAreClosed, Gone
  <2> QED BY <2>2, <2>3, <2>4 DEF CallInv
<1>3. ASSUME CallInv, Slept PROVE CallInv'
  <2>1. /\ callAt = "sleep" /\ callAt' = "reserve" /\ outcome' = outcome /\ outcome = "none"
        /\ UNCHANGED <<format, serves, sent, parsed, ending, calls, failure, action>>
    BY <1>3 DEF Slept, Proceed, CallInv, Attempts
  <2>2. CallTypeOK'
    BY <1>3, <2>1 DEF CallInv, CallTypeOK
  <2>3. Understood(sent', parsed') /\ ExecutedAsSent'
    BY <1>3, <2>1, SameCalls
  <2>4. Received' /\ Attempts' /\ AttemptsAreClosed'
    BY <1>3, <2>1 DEF CallInv, Received, Attempts, AttemptsAreClosed, Gone
  <2> QED BY <2>2, <2>3, <2>4 DEF CallInv
<1>4. ASSUME CallInv, Try PROVE CallInv'
  <2>1. /\ callAt = "try" /\ callAt' = "stream" /\ outcome' = outcome /\ outcome = "none"
        /\ UNCHANGED <<format, serves, sent, parsed, ending, calls, failure, outcome, action>>
    BY <1>4 DEF Try, Proceed, CallInv, Attempts
  <2>2. CallTypeOK'
    BY <1>4, <2>1 DEF CallInv, CallTypeOK
  <2>3. Understood(sent', parsed') /\ ExecutedAsSent'
    BY <1>4, <2>1, SameCalls
  <2>4. Received' /\ Attempts' /\ AttemptsAreClosed'
    BY <1>4, <2>1 DEF CallInv, Received, Attempts, AttemptsAreClosed, Gone
  <2> QED BY <2>2, <2>3, <2>4 DEF CallInv
<1> QED BY <1>1, <1>2, <1>3, <1>4

LEMMA CallBegins == CallInit => CallInv
<1> SUFFICES ASSUME CallInit PROVE CallInv
  OBVIOUS
<1> USE DEF CallInit
<1>1. CallTypeOK
  <2>1. parsed \in Results /\ sent \in Seq(Events) /\ action \in Seq(Halves)
    BY NothingUnderstood
  <2> QED BY <2>1 DEF CallTypeOK
<1>2. Understood(sent, parsed)
  BY NothingUnderstood
<1>3. Received /\ Attempts /\ ExecutedAsSent /\ AttemptsAreClosed
  <2>1. calls = <<>> /\ Len(calls) = 0 /\ DOMAIN calls = {}
    OBVIOUS
  <2> QED BY <2>1 DEF Received, Attempts, ExecutedAsSent, AttemptsAreClosed
<1> QED BY <1>1, <1>2, <1>3 DEF CallInv

LEMMA CallStutters == CallInv /\ UNCHANGED callVars => CallInv'
<1> SUFFICES ASSUME CallInv, UNCHANGED callVars PROVE CallInv'
  OBVIOUS
<1>1. CallTypeOK'
  <2>1. /\ format' = format /\ serves' = serves /\ sent' = sent /\ parsed' = parsed /\ ending' = ending
        /\ calls' = calls /\ failure' = failure /\ outcome' = outcome /\ action' = action /\ callAt' = callAt
    BY DEF callVars
  <2>2. CallTypeOK
    BY DEF CallInv
  <2>3. /\ sent \in Seq(Events) /\ parsed \in Results /\ action \in Seq(Halves)
        /\ calls \in Seq([state : {"pending", "settled", "failed"}, kept : BOOLEAN])
    BY <2>2 DEF CallTypeOK
  <2>4. /\ sent' \in Seq(Events) /\ parsed' \in Results /\ action' \in Seq(Halves)
        /\ calls' \in Seq([state : {"pending", "settled", "failed"}, kept : BOOLEAN])
    BY ONLY <2>1, <2>3
  <2>5. /\ format' \in {"json_object", "tool_calls"} /\ serves' \in {"none", "asked", "other"}
        /\ ending' \in {"open", "closed", "cut", "broken", "refused", "stopped"}
    BY <2>1, <2>2 DEF CallTypeOK
  <2>6. /\ failure' \in {"none", "transport", "server", "http_request", "malformed_stream", "identity",
                        "usage", "stopped", "late", "unclosed"}
        /\ outcome' \in {"none", "action", "no action", "error"}
    BY <2>1, <2>2 DEF CallTypeOK
  <2>7. callAt' \in {"reserve", "try", "stream", "parse", "price", "settle", "decode", "sleep", "end"}
    BY <2>1, <2>2 DEF CallTypeOK
  <2> QED BY ONLY <2>4, <2>5, <2>6, <2>7 DEF CallTypeOK
<1>4. Understood(sent', parsed')
  BY DEF CallInv, callVars
<1>5. Attempts' /\ AttemptsAreClosed'
  BY DEF CallInv, callVars, Attempts, Gone, AttemptsAreClosed
<1>2. Received'
  BY DEF CallInv, callVars, Received, StreamError, Parsed
<1>3. ExecutedAsSent'
  BY ExecutedGenuine DEF CallInv, callVars
<1> QED BY <1>1, <1>2, <1>3, <1>4, <1>5 DEF CallInv

\* Only what was sent as a whole, in one complete answer of the model that was
\* asked, is executed; every attempt but the last is closed, as failed, and the
\* last is open once complete() is left only if a stop came outside its try: for
\* any sequence of events of any length, broken and cut anywhere.
THEOREM CallsEndSoundly == CallSpec => []CallsAreSound
<1>1. CallInv /\ [CallNext]_callVars => CallInv'
  BY SendStep, BreakStep, ParseStep, PriceStep, SettleStep, UnclosedStep, DecodeStep, ReserveStep,
     PauseStep, CallStutters DEF CallNext
<1>2. CallInv => CallsAreSound
  BY DEF CallInv, CallsAreSound
<1> QED BY <1>1, <1>2, CallBegins, PTL DEF CallSpec
=============================================================================
