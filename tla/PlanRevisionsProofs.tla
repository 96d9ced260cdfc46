------------------------- MODULE PlanRevisionsProofs -------------------------
(***************************************************************************)
(* Theorems about PlanRevisions, for every length of the first plan and    *)
(* every limit: the order of the plan under crashes and interrupts, and    *)
(* the refinement of FollowupPlan when there are no interrupts.            *)
(***************************************************************************)
EXTENDS PlanRevisions, SequenceTheorems, WellFoundedInduction, TLAPS

-----------------------------------------------------------------------------
(* Sequences of tasks.                                                     *)

\* What InsertAt(s, Len(s), e) is: e enters before the last element.
LEMMA Inserted ==
    ASSUME NEW S, NEW s \in Seq(S), Len(s) # 0, NEW e \in S
    PROVE  /\ InsertAt(s, Len(s), e) \in Seq(S)
           /\ Len(InsertAt(s, Len(s), e)) = Len(s) + 1
           /\ \A i \in 1..(Len(s)-1) : InsertAt(s, Len(s), e)[i] = s[i]
           /\ InsertAt(s, Len(s), e)[Len(s)] = e
           /\ InsertAt(s, Len(s), e)[Len(s)+1] = s[Len(s)]
<1> DEFINE t == InsertAt(s, Len(s), e)
<1> DEFINE n == Len(s)
           front == SubSeq(s, 1, n-1)
           last == SubSeq(s, n, n)
<1>1. n \in Nat \ {0} /\ \A i \in 1..n : s[i] \in S
    BY EmptySeq, LenProperties, ElementOfSeq
<1> HIDE DEF n, t
<1>2. front \in Seq(S) /\ Len(front) = n-1 /\ \A i \in 1..(n-1) : front[i] = s[i]
    BY <1>1, SubSeqProperties
<1>3. last \in Seq(S) /\ Len(last) = 1 /\ last[1] = s[n]
    BY <1>1, SubSeqProperties
<1> HIDE DEF front, last
<1>4. <<e>> \in Seq(S) /\ Len(<<e>>) = 1 /\ <<e>>[1] = e
    OBVIOUS
<1> DEFINE head == front \o <<e>>
<1>5. /\ head \in Seq(S) /\ Len(head) = n
      /\ \A i \in 1..n : head[i] = IF i <= n-1 THEN front[i] ELSE <<e>>[i - (n-1)]
    BY <1>1, <1>2, <1>4, ConcatProperties
<1> HIDE DEF head
<1>6. t = head \o last
    BY DEF t, InsertAt, head, front, last, n
<1>7. /\ head \o last \in Seq(S) /\ Len(head \o last) = Len(head) + Len(last)
      /\ \A i \in 1..(Len(head) + Len(last)) :
            (head \o last)[i] = IF i <= Len(head) THEN head[i] ELSE last[i - Len(head)]
    BY <1>3, <1>5, ConcatProperties
<1>8. t \in Seq(S) /\ Len(t) = n + 1 /\ \A i \in 1..n : t[i] = head[i]
    BY <1>1, <1>3, <1>5, <1>6, <1>7
<1>9. t[n+1] = last[1]
    BY <1>1, <1>3, <1>5, <1>6, <1>7
<1>10. head[n] = <<e>>[1] /\ \A i \in 1..(n-1) : head[i] = front[i]
  <2>1. n - (n-1) = 1 /\ ~(n <= n-1) /\ n \in 1..n
      BY <1>1
  <2>2. head[n] = <<e>>[1]
      BY <1>5, <2>1
  <2>3. \A i \in 1..(n-1) : head[i] = front[i]
      BY <1>1, <1>5
  <2> QED
      BY <2>2, <2>3
<1>11. /\ t \in Seq(S) /\ Len(t) = n + 1
       /\ \A i \in 1..(n-1) : t[i] = s[i]
       /\ t[n] = e /\ t[n+1] = s[n]
    BY <1>1, <1>2, <1>3, <1>4, <1>8, <1>9, <1>10
<1> QED
    BY <1>11 DEF n, t

LEMMA ChainType ==
    ASSUME NEW ids \in Seq(Tasks), NEW plan, plan = Chain(ids)
    PROVE  /\ plan \in Plans /\ Len(plan) = Len(ids)
           /\ \A i \in 1..Len(ids) : plan[i] = [id |-> ids[i], dep |-> IF i = 1 THEN None ELSE ids[i-1]]
<1>1. Len(ids) \in Nat /\ DOMAIN ids = 1..Len(ids) /\ \A i \in 1..Len(ids) : ids[i] \in Tasks
    BY LenProperties, ElementOfSeq
<1>2. plan = [i \in 1..Len(ids) |-> [id |-> ids[i], dep |-> IF i = 1 THEN None ELSE ids[i-1]]]
    BY <1>1 DEF Chain
<1> DEFINE Entries == [id : Tasks, dep : Tasks \cup {None}]
<1>3. plan \in [1..Len(ids) -> Entries]
    BY <1>1, <1>2
<1> HIDE DEF Entries
<1>4. plan \in Seq(Entries)
    BY <1>1, <1>3, SeqDef
<1>5. Len(plan) = Len(ids)
    BY <1>1, <1>3, <1>4, LenProperties
<1> QED
    BY <1>1, <1>2, <1>4, <1>5 DEF Plans, Entries

LEMMA IdsType ==
    ASSUME NEW plan \in Plans
    PROVE  /\ Len(plan) \in Nat /\ DOMAIN plan = 1..Len(plan)
           /\ \A i \in 1..Len(plan) : plan[i] \in [id : Tasks, dep : Tasks \cup {None}]
           /\ Ids(plan) \in Seq(Tasks) /\ Len(Ids(plan)) = Len(plan)
           /\ \A i \in 1..Len(plan) : Ids(plan)[i] = plan[i].id
<1>1. /\ Len(plan) \in Nat /\ DOMAIN plan = 1..Len(plan)
      /\ \A i \in 1..Len(plan) : plan[i] \in [id : Tasks, dep : Tasks \cup {None}]
    BY LenProperties, ElementOfSeq DEF Plans
<1>2. Ids(plan) = [i \in 1..Len(plan) |-> plan[i].id]
    BY <1>1 DEF Ids
<1>3. Ids(plan) \in [1..Len(plan) -> Tasks]
    BY <1>1, <1>2
<1>4. Ids(plan) \in Seq(Tasks)
    BY <1>1, <1>3, SeqDef
<1>5. Len(Ids(plan)) = Len(plan)
    BY <1>1, <1>3, <1>4, LenProperties
<1> QED
    BY <1>1, <1>2, <1>4, <1>5

\* What a revision of a plan is: the task enters before the last one.
LEMMA Revised ==
    ASSUME NEW plan \in Plans, plan # <<>>, NEW id \in Tasks
    PROVE  LET new == Revision(plan, id) IN
           /\ new \in Plans /\ Len(new) = Len(plan) + 1
           /\ Ids(new) = InsertAt(Ids(plan), Len(Ids(plan)), id)
           /\ \A i \in 1..(Len(plan)-1) : new[i].id = plan[i].id
           /\ new[Len(plan)].id = id /\ new[Len(plan)+1].id = plan[Len(plan)].id
           /\ \A i \in 1..(Len(plan)+1) : new[i].dep = IF i = 1 THEN None ELSE new[i-1].id
<1> DEFINE new == Revision(plan, id)
           ids == InsertAt(Ids(plan), Len(Ids(plan)), id)
<1>1. /\ Ids(plan) \in Seq(Tasks) /\ Len(Ids(plan)) = Len(plan)
      /\ \A i \in 1..Len(plan) : Ids(plan)[i] = plan[i].id
    BY IdsType
<1>2. Len(plan) \in Nat \ {0} /\ Ids(plan) # <<>>
    BY <1>1, EmptySeq DEF Plans
<1>3. /\ ids \in Seq(Tasks) /\ Len(ids) = Len(plan) + 1
      /\ \A i \in 1..(Len(plan)-1) : ids[i] = Ids(plan)[i]
      /\ ids[Len(plan)] = id /\ ids[Len(plan)+1] = Ids(plan)[Len(plan)]
  <2> HIDE DEF ids
  <2> DEFINE old == Ids(plan)
  <2>1. ids = InsertAt(old, Len(old), id)
      BY DEF ids
  <2> HIDE DEF old
  <2>2. old \in Seq(Tasks) /\ Len(old) # 0 /\ Len(old) = Len(plan)
      BY <1>1, <1>2 DEF old
  <2>3. /\ ids \in Seq(Tasks) /\ Len(ids) = Len(old) + 1
        /\ \A i \in 1..(Len(old)-1) : ids[i] = old[i]
        /\ ids[Len(old)] = id /\ ids[Len(old)+1] = old[Len(old)]
    <3>1. /\ InsertAt(old, Len(old), id) \in Seq(Tasks)
          /\ Len(InsertAt(old, Len(old), id)) = Len(old) + 1
          /\ \A i \in 1..(Len(old)-1) : InsertAt(old, Len(old), id)[i] = old[i]
          /\ InsertAt(old, Len(old), id)[Len(old)] = id
          /\ InsertAt(old, Len(old), id)[Len(old)+1] = old[Len(old)]
      <4>1. \A s \in Seq(Tasks) : Len(s) # 0 =>
              /\ InsertAt(s, Len(s), id) \in Seq(Tasks)
              /\ Len(InsertAt(s, Len(s), id)) = Len(s) + 1
              /\ \A i \in 1..(Len(s)-1) : InsertAt(s, Len(s), id)[i] = s[i]
              /\ InsertAt(s, Len(s), id)[Len(s)] = id
              /\ InsertAt(s, Len(s), id)[Len(s)+1] = s[Len(s)]
          BY Inserted
      <4> QED
          BY <2>2, <4>1
    <3> QED
        BY <2>1, <3>1, Zenon
  <2> QED
      BY <2>2, <2>3 DEF old
<1>4. new = Chain(ids)
    BY <1>1 DEF Revision
<1> HIDE DEF ids, new
<1>5. /\ new \in Plans /\ Len(new) = Len(plan) + 1
      /\ \A i \in 1..(Len(plan)+1) : new[i] = [id |-> ids[i], dep |-> IF i = 1 THEN None ELSE ids[i-1]]
    BY <1>3, <1>4, ChainType
<1>6. \A i \in 1..(Len(plan)+1) : new[i].id = ids[i]
    BY <1>5
<1>7. \A i \in 1..(Len(plan)+1) : new[i].dep = IF i = 1 THEN None ELSE new[i-1].id
    BY <1>2, <1>5, <1>6
<1>8. Ids(new) = ids
    BY <1>2, <1>3, <1>5, <1>6, IdsType, SeqEqual
<1> QED
    BY <1>1, <1>2, <1>3, <1>5, <1>6, <1>7, <1>8 DEF ids, new

LEMMA LeastExists ==
    ASSUME NEW S \in SUBSET Nat, S # {}
    PROVE  \E i \in S : \A j \in S : i <= j
<1>1. PICK i \in S : \A j \in S : ~ (<<j, i>> \in OpToRel(<, Nat))
    BY WFMin, NatLessThanWellFounded
<1>2. S \subseteq Nat
    OBVIOUS
<1>3. ASSUME NEW j \in S, j < i PROVE FALSE
  <2>1. <<j, i>> \in OpToRel(<, Nat)
      BY <1>2, <1>3 DEF OpToRel
  <2> QED
      BY <1>1, <2>1
<1> QED
    BY <1>2, <1>3

-----------------------------------------------------------------------------
(* Plans: one chain that the last task closes, whose tasks rise, and whose *)
(* passed tasks are a prefix.  n is the number of follow-ups counted; one  *)
(* more may be in the plan, as often as its count was interrupted.         *)

USE LimitsAssumption

Closed(plan) ==
    /\ Len(plan) # 0 /\ plan[Len(plan)].id = Final
    /\ \A i \in 1..(Len(plan)-1) : plan[i].id < Final
    /\ \A i \in 1..Len(plan) : plan[i].dep = IF i = 1 THEN None ELSE plan[i-1].id

Rising(plan, n) ==
    /\ \A i \in 1..(Len(plan)-1) : plan[i].id <= Followup(n + 1)
    /\ \A i, j \in 1..Len(plan) : i < j => plan[i].id <= plan[j].id

Prefixed(plan, done) ==
    /\ \A i, j \in 1..Len(plan) : i < j /\ plan[j].id \in done => plan[i].id \in done
    /\ \A t \in done : \E i \in 1..Len(plan) : plan[i].id = t

Sound(plan, n, done) == Closed(plan) /\ Rising(plan, n) /\ Prefixed(plan, done)

\* A revision inserts the next follow-up before the final task while that is
\* not passed, and the plan stays sound.
LEMMA RevisionSound ==
    ASSUME NEW plan \in Plans, NEW n \in 0..Limit, n < Limit,
           NEW done \in SUBSET Tasks, Final \notin done, Sound(plan, n, done)
    PROVE  LET new == Revision(plan, Followup(n + 1)) IN new \in Plans /\ Sound(new, n, done)
<1> DEFINE new == Revision(plan, Followup(n + 1))
           f == Followup(n + 1)
           l == Len(plan)
<1>1. f \in Tasks /\ f \in Nat /\ Final \in Nat /\ f < Final
    BY DEF Followup, Final, Tasks
<1>2. l \in Nat \ {0} /\ \A i \in 1..l : plan[i].id \in Nat
    BY IdsType DEF Sound, Closed, Tasks
<1>3. plan # <<>>
    BY <1>2
<1> HIDE DEF f
<1>4. /\ new \in Plans /\ Len(new) = l + 1
      /\ \A i \in 1..(l-1) : new[i].id = plan[i].id
      /\ new[l].id = f /\ new[l+1].id = plan[l].id
      /\ \A i \in 1..(l+1) : new[i].dep = IF i = 1 THEN None ELSE new[i-1].id
    BY <1>1, <1>3, Revised DEF f
<1> HIDE DEF new
<1>5. \A i \in 1..(l-1) : new[i].id = plan[i].id /\ plan[i].id < Final /\ plan[i].id <= f
    BY <1>4 DEF Sound, Closed, Rising, f
<1>6. new[l].id = f /\ new[l+1].id = Final /\ plan[l].id = Final
    BY <1>4 DEF Sound, Closed
<1>7. \A i, j \in 1..l : i < j => plan[i].id <= plan[j].id
    BY DEF Sound, Rising
<1>8. \A i, j \in 1..l : i < j /\ plan[j].id \in done => plan[i].id \in done
    BY DEF Sound, Prefixed
<1>9. \A t \in done : \E i \in 1..l : plan[i].id = t
    BY DEF Sound, Prefixed
<1> HIDE DEF l
<1>10. \A i \in 1..(l+1) : i \in 1..(l-1) \/ i = l \/ i = l+1
    BY <1>2
<1>11. \A i \in 1..l : new[i].id \in Nat /\ new[i].id <= f /\ new[i].id < Final
    BY <1>1, <1>2, <1>5, <1>6
<1>12. Closed(new)
    BY <1>2, <1>4, <1>6, <1>11 DEF Closed
<1>13. Rising(new, n)
  <2>1. ASSUME NEW i \in 1..(l+1), NEW j \in 1..(l+1), i < j
        PROVE  new[i].id <= new[j].id
    <3>1. i \in 1..l
        BY <1>2, <2>1
    <3>2. CASE j = l + 1
        BY <1>6, <1>11, <1>1, <3>1, <3>2
    <3>3. CASE j = l
        BY <1>6, <1>11, <3>1, <3>3
    <3>4. CASE j \in 1..(l-1)
      <4>1. i \in 1..(l-1) /\ i \in 1..l /\ j \in 1..l
          BY <1>2, <2>1, <3>4
      <4> QED
          BY <1>5, <1>7, <2>1, <3>4, <4>1
    <3> QED
        BY <1>10, <3>2, <3>3, <3>4
  <2> QED
      BY <1>2, <1>4, <1>11, <2>1 DEF Rising, f
<1>14. Prefixed(new, done)
  <2>1. ASSUME NEW i \in 1..(l+1), NEW j \in 1..(l+1), i < j, new[j].id \in done
        PROVE  new[i].id \in done
    <3>1. CASE j = l + 1
        BY <1>6, <2>1, <3>1
    <3>2. CASE j = l
      <4>1. f \in done
          BY <1>6, <2>1, <3>2
      <4>2. PICK k \in 1..l : plan[k].id = f
          BY <1>9, <4>1
      <4>3. i \in 1..(l-1) /\ i \in 1..l /\ new[i].id = plan[i].id /\ plan[i].id <= f
          BY <1>2, <1>5, <2>1, <3>2
      <4>4. CASE i < k
          BY <1>8, <4>1, <4>2, <4>3, <4>4
      <4>5. CASE i = k
          BY <4>1, <4>2, <4>3, <4>5
      <4>6. CASE k < i
        <5>1. f <= plan[i].id
            BY <1>7, <4>2, <4>3, <4>6
        <5>2. plan[i].id = f
            BY <1>1, <1>2, <4>3, <5>1
        <5> QED
            BY <4>1, <4>3, <5>2
      <4> QED
          BY <1>2, <4>2, <4>3, <4>4, <4>5, <4>6
    <3>3. CASE j \in 1..(l-1)
      <4>1. i \in 1..(l-1) /\ i \in 1..l /\ j \in 1..l
          BY <1>2, <2>1, <3>3
      <4> QED
          BY <1>5, <1>8, <2>1, <3>3, <4>1
    <3> QED
        BY <1>10, <3>1, <3>2, <3>3
  <2>2. ASSUME NEW t \in done PROVE \E i \in 1..(l+1) : new[i].id = t
    <3>1. PICK i \in 1..l : plan[i].id = t
        BY <1>9, <2>2
    <3>2. i \in 1..(l-1) /\ i \in 1..(l+1)
      <4>1. i # l
          BY <1>6, <2>2, <3>1
      <4> QED
          BY <1>2, <4>1
    <3> QED
        BY <1>5, <3>1, <3>2
  <2> QED
      BY <1>4, <2>1, <2>2 DEF Prefixed
<1> QED
    BY <1>4, <1>12, <1>13, <1>14 DEF Sound, new, f

\* The first pending task may pass.
LEMMA PassSound ==
    ASSUME NEW plan \in Plans, NEW n, NEW done, Sound(plan, n, done), NEW i \in 1..Len(plan),
           \A j \in 1..Len(plan) : plan[j].id \notin done => i <= j
    PROVE  Sound(plan, n, done \cup {plan[i].id})
<1>1. /\ Len(plan) \in Nat /\ \A k \in 1..Len(plan) : plan[k].id \in Nat
      /\ \A j, k \in 1..Len(plan) : j < k => plan[j].id <= plan[k].id
      /\ \A j, k \in 1..Len(plan) : j < k /\ plan[k].id \in done => plan[j].id \in done
    BY IdsType DEF Tasks, Sound, Rising, Prefixed
<1>2. ASSUME NEW j \in 1..Len(plan), NEW k \in 1..Len(plan), j < k,
             plan[k].id \in done \cup {plan[i].id}
      PROVE  plan[j].id \in done \cup {plan[i].id}
  <2>1. CASE plan[k].id \in done
      BY <1>1, <1>2, <2>1
  <2>2. CASE plan[k].id = plan[i].id /\ j < i
      BY <1>1, <2>2
  <2>3. CASE plan[k].id = plan[i].id /\ i < j
    <3>1. plan[i].id <= plan[j].id /\ plan[j].id <= plan[k].id
        BY <1>1, <1>2, <2>3
    <3> QED
        BY <1>1, <2>3, <3>1
  <2> QED
      BY <1>1, <1>2, <2>1, <2>2, <2>3
<1> QED
    BY <1>2 DEF Sound, Prefixed

\* The entry of the newest follow-up may be reset.
LEMMA ResetSound ==
    ASSUME NEW plan \in Plans, NEW n \in 0..Limit, NEW done, Final \notin done,
           Sound(plan, n, done)
    PROVE  Sound(plan, n, done \ {Followup(n + 1)})
<1> DEFINE f == Followup(n + 1)
<1>1. /\ Len(plan) \in Nat /\ \A k \in 1..Len(plan) : plan[k].id \in Nat
      /\ f \in Nat /\ plan[Len(plan)].id = Final
      /\ \A k \in 1..(Len(plan)-1) : plan[k].id <= f
      /\ \A j, k \in 1..Len(plan) : j < k => plan[j].id <= plan[k].id
      /\ \A j, k \in 1..Len(plan) : j < k /\ plan[k].id \in done => plan[j].id \in done
    BY IdsType DEF Tasks, Sound, Closed, Rising, Prefixed, Followup
<1> HIDE DEF f
<1>2. ASSUME NEW j \in 1..Len(plan), NEW k \in 1..Len(plan), j < k, plan[k].id \in done \ {f}
      PROVE  plan[j].id \in done \ {f}
  <2>1. k \in 1..(Len(plan)-1)
      BY <1>1, <1>2
  <2>2. plan[j].id <= plan[k].id /\ plan[k].id <= f /\ plan[k].id # f
      BY <1>1, <1>2, <2>1
  <2>3. plan[j].id # f
      BY <1>1, <2>2
  <2> QED
      BY <1>1, <1>2, <2>3
<1> QED
    BY <1>2 DEF Sound, Prefixed, f
-----------------------------------------------------------------------------
(* The order of the plan, under crashes and interrupts.                    *)

\* The next revision of the active plan of a run.
Grown(run) == Revision(Plan(run), Followup(run.followups + 1))

\* While append_followup is at work a task before the final one is pending.
Appending ==
    /\ pc \in {"write", "activate", "enter", "count"} => mem.followups < Limit /\ Final \notin mem.passed
    /\ pc = "write" => next = Grown(mem)
    /\ pc = "activate" => mem.active + 1 \in DOMAIN files /\ files[mem.active + 1] = Grown(mem)

IInv ==
    /\ TypeOK
    /\ \A run \in {disk, mem} : Sound(Plan(run), run.followups, run.passed)
    /\ Appending

Fine(run) ==
    /\ run \in RunRecords /\ run.active \in DOMAIN files /\ run.passed \subseteq run.entries
    /\ Sound(Plan(run), run.followups, run.passed)

\* The active plan of a run stays what it is: revisions are only added.
LEMMA FilesGrow ==
    ASSUME IInv, [Next]_vars
    PROVE  /\ files' \in Seq(Plans)
           /\ \A r \in DOMAIN files : r \in DOMAIN files' /\ files'[r] = files[r]
<1>0. files \in Seq(Plans) /\ next \in Plans
    BY DEF IInv, TypeOK
<1>1. CASE WriteRevision
  <2>1. files' = Append(files, next)
      BY <1>1 DEF WriteRevision
  <2>2. /\ files' \in Seq(Plans) /\ Len(files') = Len(files) + 1
        /\ \A r \in 1..Len(files) : files'[r] = files[r]
      BY <1>0, <2>1, AppendProperties
  <2>3. Len(files) \in Nat /\ DOMAIN files = 1..Len(files) /\ DOMAIN files' = 1..Len(files')
      BY <1>0, <2>2, LenProperties
  <2> QED
      BY <2>2, <2>3
<1>2. CASE UNCHANGED files
    BY <1>0, <1>2
<1> QED
    BY <1>1, <1>2 DEF Next, PassTask, LookupFails, Request, RevisionExists, Activate, EnterTask,
       CountFollowup, Save, Resume, Crash, Interrupt, Stop, vars

\* What a run is after a step, and that it is so if it was before.
FineNext(run) ==
    /\ run \in RunRecords /\ run.active \in DOMAIN files' /\ run.passed \subseteq run.entries
    /\ Sound(files'[run.active], run.followups, run.passed)

LEMMA StaysFine ==
    ASSUME IInv, [Next]_vars, NEW run, Fine(run)
    PROVE  FineNext(run)
  BY FilesGrow DEF Fine, FineNext, Plan

\* The first plan.
LEMMA Initially ==
    /\ FirstIds \in Seq(Tasks) /\ Len(FirstIds) = NBase + 1
    /\ \A i \in 1..NBase : FirstIds[i] = i
    /\ FirstIds[NBase + 1] = Final
    /\ Chain(FirstIds) \in Plans /\ Len(Chain(FirstIds)) = NBase + 1
    /\ \A i \in 1..(NBase+1) :
          Chain(FirstIds)[i] = [id |-> FirstIds[i], dep |-> IF i = 1 THEN None ELSE FirstIds[i-1]]
    /\ Ids(Chain(FirstIds)) = FirstIds
<1> DEFINE base == [i \in 1..NBase |-> i]
<1>1. NBase \in Nat \ {0} /\ Final \in Tasks /\ 1..NBase \subseteq Tasks
    BY DEF Final, Tasks
<1>2. base \in Seq(Tasks) /\ Len(base) = NBase /\ \A i \in 1..NBase : base[i] = i
  <2>1. base \in [1..NBase -> Tasks]
      BY <1>1
  <2>2. base \in Seq(Tasks)
      BY <1>1, <2>1, SeqDef
  <2> QED
      BY <1>1, <2>1, <2>2, LenProperties
<1> HIDE DEF base
<1>3. /\ FirstIds \in Seq(Tasks) /\ Len(FirstIds) = NBase + 1
      /\ \A i \in 1..NBase : FirstIds[i] = i
      /\ FirstIds[NBase + 1] = Final
  <2>1. FirstIds = Append(base, Final)
      BY DEF FirstIds, base
  <2> QED
      BY <1>1, <1>2, <2>1, AppendProperties
<1>4. /\ Chain(FirstIds) \in Plans /\ Len(Chain(FirstIds)) = NBase + 1
      /\ \A i \in 1..(NBase+1) :
            Chain(FirstIds)[i] = [id |-> FirstIds[i], dep |-> IF i = 1 THEN None ELSE FirstIds[i-1]]
    BY <1>3, ChainType
<1>5. Ids(Chain(FirstIds)) = FirstIds
  <2>1. /\ Ids(Chain(FirstIds)) \in Seq(Tasks) /\ Len(Ids(Chain(FirstIds))) = NBase + 1
        /\ \A i \in 1..(NBase+1) : Ids(Chain(FirstIds))[i] = FirstIds[i]
      BY <1>4, IdsType
  <2> QED
      BY <1>3, <2>1, SeqEqual
<1> QED
    BY <1>3, <1>4, <1>5

LEMMA InitInv == Init => IInv
<1> SUFFICES ASSUME Init PROVE IInv
    OBVIOUS
<1> DEFINE first == Chain(FirstIds)
<1>1. NBase \in Nat \ {0} /\ Limit \in Nat /\ Final \in Tasks /\ Final > NBase
    BY DEF Final, Tasks
<1>3. /\ FirstIds \in Seq(Tasks) /\ Len(FirstIds) = NBase + 1
      /\ \A i \in 1..NBase : FirstIds[i] = i
      /\ FirstIds[NBase + 1] = Final
    BY Initially
<1>4. /\ first \in Plans /\ Len(first) = NBase + 1
      /\ \A i \in 1..(NBase+1) :
            first[i] = [id |-> FirstIds[i], dep |-> IF i = 1 THEN None ELSE FirstIds[i-1]]
    BY Initially
<1> HIDE DEF first
<1>5. /\ \A i \in 1..NBase : first[i].id = i
      /\ first[NBase + 1].id = Final
    BY <1>1, <1>3, <1>4
<1>6. \A i \in 1..(NBase+1) : first[i].dep = IF i = 1 THEN None ELSE first[i-1].id
    BY <1>1, <1>4
<1>7. files = <<first>>
    BY DEF Init, first
<1>8. files \in Seq(Plans) /\ DOMAIN files = {1} /\ files[1] = first
    BY <1>4, <1>7
<1>9. ToSet(FirstIds) \subseteq Tasks
    BY <1>3, LenProperties, ElementOfSeq DEF ToSet
<1>10. NewRun \in RunRecords /\ NewRun.active = 1 /\ NewRun.passed = {} /\ NewRun.followups = 0
    BY <1>1, <1>9 DEF NewRun, RunRecords
<1>11. TypeOK
  <2>1. next \in Plans
      BY EmptySeq DEF Init, Plans
  <2> QED
      BY <1>8, <1>10, <2>1 DEF Init, TypeOK
<1>12. Sound(first, 0, {})
  <2>1. Closed(first)
    <3>1. \A i \in 1..((NBase+1)-1) : first[i].id < Final
        BY <1>1, <1>5 DEF Final
    <3> QED
        BY <1>1, <1>4, <1>5, <1>6, <3>1 DEF Closed
  <2>2. Rising(first, 0)
    <3>1. \A i \in 1..((NBase+1)-1) : first[i].id <= Followup(0 + 1)
        BY <1>1, <1>5 DEF Followup
    <3>2. \A i, j \in 1..(NBase+1) : i < j => first[i].id <= first[j].id
      <4> SUFFICES ASSUME NEW i \in 1..(NBase+1), NEW j \in 1..(NBase+1), i < j
                   PROVE  first[i].id <= first[j].id
          OBVIOUS
      <4>1. i \in 1..NBase /\ (j \in 1..NBase \/ j = NBase + 1)
          BY <1>1
      <4> QED
          BY <1>1, <1>5, <4>1 DEF Final
    <3> QED
        BY <1>4, <3>1, <3>2 DEF Rising
  <2> QED
      BY <2>1, <2>2 DEF Sound, Prefixed
<1>13. Plan(disk) = first /\ Plan(mem) = first /\ disk = NewRun /\ mem = NewRun /\ pc = "tasks"
    BY <1>8, <1>10 DEF Init, Plan
<1> QED
    BY <1>10, <1>11, <1>12, <1>13 DEF IInv, Appending
\* The task that PassTask takes is the first pending one.
LEMMA FirstPending ==
    ASSUME IInv, PassTask
    PROVE  \E i \in DOMAIN Plan(mem) :
              /\ mem' = [mem EXCEPT !.passed = @ \cup {Plan(mem)[i].id}]
              /\ \A j \in DOMAIN Plan(mem) : Plan(mem)[j].id \notin mem.passed => i <= j
<1>1. Plan(mem) \in Plans
    BY ElementOfSeq, LenProperties DEF IInv, TypeOK, Plan
<1>2. Pending(mem) \in SUBSET Nat /\ Pending(mem) # {}
    BY <1>1, IdsType DEF Pending, PassTask
<1>3. \E i \in Pending(mem) : \A j \in Pending(mem) : i <= j
    BY <1>2, LeastExists
<1> DEFINE i == CHOOSE i \in Pending(mem) : \A j \in Pending(mem) : i <= j
<1>4. i \in Pending(mem) /\ \A j \in Pending(mem) : i <= j
    BY <1>3
<1>5. mem' = [mem EXCEPT !.passed = @ \cup {Plan(mem)[i].id}]
    BY DEF PassTask
<1> HIDE DEF i
<1> QED
    BY <1>4, <1>5 DEF Pending

LEMMA StepInv == IInv /\ [Next]_vars => IInv'
<1> SUFFICES ASSUME IInv, [Next]_vars PROVE IInv'
    OBVIOUS
<1> DEFINE f == Followup(mem.followups + 1)
<1>1. /\ Fine(mem) /\ Fine(disk) /\ files \in Seq(Plans) /\ next \in Plans
      /\ pc \in {"down", "tasks", "write", "activate", "enter", "count", "save"}
    BY DEF IInv, TypeOK, Fine
<1>2. FineNext(mem) /\ FineNext(disk)
    BY <1>1, StaysFine
<1>3. files' \in Seq(Plans) /\ \A r \in DOMAIN files : r \in DOMAIN files' /\ files'[r] = files[r]
    BY FilesGrow
<1>4. Plan(mem) \in Plans /\ mem \in RunRecords /\ DOMAIN Plan(mem) = 1..Len(Plan(mem))
    BY <1>1, ElementOfSeq, LenProperties, IdsType DEF Fine, Plan
<1>5. mem.followups < Limit => f \in Tasks
    BY <1>4 DEF RunRecords, Followup, Tasks, Final
<1>6. \A run \in RunRecords : UNCHANGED files => (FineNext(run) <=> Fine(run))
    BY DEF FineNext, Fine, Plan
<1>7. mem.followups < Limit /\ Final \notin mem.passed
         => Grown(mem) \in Plans /\ Sound(Grown(mem), mem.followups, mem.passed)
    BY <1>1, <1>4, RevisionSound DEF Fine, Grown, RunRecords
<1> HIDE DEF f
<1>8. ASSUME FineNext(mem'), FineNext(disk'), next' \in Plans,
             pc' \in {"down", "tasks", "write", "activate", "enter", "count", "save"}, Appending'
      PROVE  IInv'
    BY <1>3, <1>8 DEF IInv, TypeOK, FineNext, Plan
<1>9. <<>> \in Plans
    BY EmptySeq DEF Plans
<1>10. CASE PassTask
  <2>1. PICK i \in DOMAIN Plan(mem) :
            /\ mem' = [mem EXCEPT !.passed = @ \cup {Plan(mem)[i].id}]
            /\ \A j \in DOMAIN Plan(mem) : Plan(mem)[j].id \notin mem.passed => i <= j
      BY <1>10, FirstPending
  <2>2. Sound(Plan(mem), mem.followups, mem.passed \cup {Plan(mem)[i].id})
      BY <1>1, <1>4, <2>1, PassSound DEF Fine
  <2>3. Plan(mem)[i].id \in mem.entries
      BY <1>4, <1>10, <2>1, IdsType DEF PassTask, Readable, ToSet
  <2>4. /\ mem' \in RunRecords /\ mem'.active = mem.active /\ mem'.followups = mem.followups
        /\ mem'.passed = mem.passed \cup {Plan(mem)[i].id} /\ mem'.entries = mem.entries
      BY <1>4, <2>1, <2>3 DEF RunRecords
  <2>5. Fine(mem')
    <3>1. Plan(mem') = Plan(mem)
        BY <2>4 DEF Plan
    <3> QED
        BY <1>1, <2>2, <2>3, <2>4, <3>1 DEF Fine
  <2>6. FineNext(mem') /\ FineNext(disk')
      BY <1>10, <2>5, StaysFine DEF PassTask
  <2> QED
      BY <1>1, <1>8, <1>10, <2>6 DEF PassTask, Goto, Appending
<1>11. CASE LookupFails \/ Resume \/ Interrupt \/ Crash
    BY <1>1, <1>2, <1>8, <1>9, <1>11 DEF LookupFails, Resume, Interrupt, Crash, Stop, Goto, Appending
<1>12. CASE Request
  <2>1. PICK i \in Pending(mem) : Plan(mem)[i].id # Final
      BY <1>12 DEF Request
  <2>2. Final \notin mem.passed
    <3>1. /\ i \in 1..Len(Plan(mem)) /\ Plan(mem)[i].id \notin mem.passed
          /\ Plan(mem)[Len(Plan(mem))].id = Final /\ Len(Plan(mem)) \in Nat
          /\ \A k, j \in 1..Len(Plan(mem)) :
                k < j /\ Plan(mem)[j].id \in mem.passed => Plan(mem)[k].id \in mem.passed
        BY <1>1, <1>4, <2>1, IdsType DEF Pending, Fine, Sound, Closed, Prefixed
    <3> QED
        BY <2>1, <3>1
  <2>3. next' = Grown(mem) /\ mem.followups < Limit
      BY <1>12 DEF Request, Grown
  <2> QED
      BY <1>2, <1>7, <1>8, <1>12, <2>2, <2>3 DEF Request, Goto, Appending, Grown, Plan
<1>13. CASE WriteRevision
  <2>1. Len(files') = Len(files) + 1 /\ files'[Len(files) + 1] = next
      BY <1>1, <1>13, AppendProperties DEF WriteRevision
  <2>2. mem'.active + 1 \in DOMAIN files' /\ files'[mem'.active + 1] = next
    <3>1. DOMAIN files' = 1..Len(files') /\ Len(files) \in Nat
        BY <1>1, <1>3, LenProperties
    <3> QED
        BY <1>13, <2>1, <3>1 DEF WriteRevision
  <2>3. /\ mem' = mem /\ disk' = disk /\ next' = next /\ pc = "write" /\ pc' = "activate"
      BY <1>13 DEF WriteRevision, Goto
  <2>4. Plan(mem)' = Plan(mem)
      BY <1>1, <1>3, <2>3 DEF Plan, Fine
  <2>5. Appending'
      BY <2>2, <2>3, <2>4 DEF IInv, Appending, Grown
  <2> QED
      BY <1>1, <1>2, <1>8, <2>3, <2>5
<1>14. CASE RevisionExists
    BY <1>2, <1>8, <1>9, <1>14 DEF RevisionExists, Goto, Appending
<1>15. CASE Activate
  <2>1. /\ mem' \in RunRecords /\ mem'.active = mem.active + 1 /\ mem'.followups = mem.followups
        /\ mem'.passed = mem.passed /\ mem'.entries = mem.entries
      BY <1>4, <1>15 DEF Activate, RunRecords
  <2>2. /\ mem.followups < Limit /\ Final \notin mem.passed
        /\ mem.active + 1 \in DOMAIN files /\ files[mem.active + 1] = Grown(mem)
      BY <1>15 DEF Activate, Goto, IInv, Appending
  <2>3. FineNext(mem')
      BY <1>1, <1>7, <1>15, <2>1, <2>2 DEF Activate, Fine, FineNext
  <2> QED
      BY <1>1, <1>2, <1>8, <1>15, <2>1, <2>2, <2>3 DEF Activate, Goto, Appending
<1>16. CASE EnterTask
  <2>1. /\ mem.followups < Limit /\ Final \notin mem.passed /\ f \in Tasks
      BY <1>5, <1>16 DEF EnterTask, Goto, IInv, Appending
  <2>2. mem' = [mem EXCEPT !.entries = @ \cup {f}, !.passed = @ \ {f}]
      BY <1>16 DEF EnterTask, f
  <2>3. /\ mem'.active = mem.active /\ mem'.followups = mem.followups
        /\ mem'.passed = mem.passed \ {f} /\ mem'.entries = mem.entries \cup {f}
        /\ mem' \in RunRecords
      BY <1>4, <2>1, <2>2 DEF RunRecords
  <2>4. Sound(Plan(mem), mem.followups, mem.passed \ {f})
      BY <1>1, <1>4, <2>1, ResetSound DEF Fine, f, RunRecords
  <2>5. FineNext(mem')
      BY <1>1, <1>16, <2>3, <2>4 DEF EnterTask, Fine, FineNext, Plan
  <2> QED
      BY <1>1, <1>2, <1>8, <1>16, <2>1, <2>3, <2>5 DEF EnterTask, Goto, Appending
<1>17. CASE CountFollowup
  <2>1. mem.followups < Limit
      BY <1>17 DEF CountFollowup, Goto, IInv, Appending
  <2>2. mem.followups + 1 \in 0..Limit
      BY <1>4, <2>1 DEF RunRecords
  <2>3. /\ mem'.active = mem.active /\ mem'.followups = mem.followups + 1
        /\ mem'.passed = mem.passed /\ mem'.entries = mem.entries
        /\ mem' \in RunRecords
      BY <1>4, <1>17, <2>2 DEF CountFollowup, RunRecords
  <2>4. Rising(Plan(mem), mem.followups + 1)
    <3>1. Rising(Plan(mem), mem.followups) /\ Plan(mem) \in Plans
        BY <1>1, <1>4 DEF Fine, Sound
    <3>2. \A i \in 1..Len(Plan(mem)) : Plan(mem)[i].id \in Nat
        BY <3>1, IdsType DEF Tasks
    <3>3. Followup(mem.followups + 1) + 1 = Followup(mem.followups + 1 + 1)
          /\ Followup(mem.followups + 1) \in Nat /\ Len(Plan(mem)) \in Nat
        BY <1>4, <3>1, IdsType, SMTT(30) DEF Followup, RunRecords
    <3> QED
        BY <3>1, <3>2, <3>3 DEF Rising
  <2>5. FineNext(mem')
      BY <1>1, <1>17, <2>3, <2>4 DEF CountFollowup, Fine, FineNext, Plan, Sound
  <2> QED
      BY <1>1, <1>2, <1>8, <1>17, <2>5 DEF CountFollowup, Goto, Appending
<1>18. CASE Save
    BY <1>2, <1>8, <1>9, <1>18 DEF Save, Goto, Appending
<1>19. CASE UNCHANGED vars
    BY <1>1, <1>2, <1>8, <1>19 DEF vars, IInv, Appending, Grown, Plan
<1> QED
    BY <1>10, <1>11, <1>12, <1>13, <1>14, <1>15, <1>16, <1>17, <1>18, <1>19 DEF Next

\* Whatever is appended, crashed and interrupted: the active plan is one chain
\* up to final-integration, and what passed is a prefix of it.
THEOREM Orders == Spec => []PlanIsOrdered
<1>1. IInv => PlanIsOrdered
  <2> SUFFICES ASSUME IInv PROVE PlanIsOrdered
      OBVIOUS
  <2>1. Plan(disk) \in Plans /\ DOMAIN Plan(disk) = 1..Len(Plan(disk))
      BY ElementOfSeq, LenProperties, IdsType DEF IInv, TypeOK, Plan
  <2>2. Sound(Plan(disk), disk.followups, disk.passed)
      BY DEF IInv
  <2>3. PassedIsPrefix
      BY <2>1, <2>2 DEF PassedIsPrefix, Sound, Prefixed
  <2>4. PlanIsClosedChain
      BY <2>1, <2>2 DEF PlanIsClosedChain, Sound, Closed, Last
  <2> QED
      BY <2>3, <2>4 DEF IInv, PlanIsOrdered
<1>2. Init => IInv
    BY InitInv
<1>3. IInv /\ [Next]_vars => IInv'
    BY StepInv
<1> QED
    BY <1>1, <1>2, <1>3, PTL DEF Spec
-----------------------------------------------------------------------------
(* The refinement of FollowupPlan, without interrupts: between saves the   *)
(* dictionary differs from run.json by what append_followup has done.      *)

Unsaved == pc \in {"enter", "count", "save"}

Refining ==
    /\ Len(Plan(disk)) = NBase + 1 + disk.followups
    /\ \A i \in 1..(Len(Plan(disk))-1) : Plan(disk)[i].id <= Followup(disk.followups)
    /\ Readable(disk)
    /\ mem.passed = disk.passed
    /\ mem.active = IF Unsaved THEN disk.active + 1 ELSE disk.active
    /\ mem.followups = IF pc = "save" THEN disk.followups + 1 ELSE disk.followups
    /\ mem.entries = IF pc \in {"count", "save"}
                     THEN disk.entries \cup {Followup(disk.followups + 1)} ELSE disk.entries
    /\ Unsaved => disk.followups < Limit /\ Final \notin disk.passed /\ Plan(mem) = Grown(disk)

RInv == IInv /\ Refining

\* Without interrupts every planned task has its entry, and the number of
\* tasks is bounded.
LEMMA DiskPlan ==
    ASSUME RInv
    PROVE  /\ Plan(disk) \in Plans /\ Len(Plan(disk)) \in Nat \ {0} /\ Plan(disk) # <<>>
           /\ DOMAIN Plan(disk) = 1..Len(Plan(disk))
           /\ Ids(Plan(disk)) \in Seq(Tasks) /\ Len(Ids(Plan(disk))) = Len(Plan(disk))
           /\ DOMAIN Ids(Plan(disk)) = 1..Len(Plan(disk))
           /\ \A i \in 1..Len(Plan(disk)) : Ids(Plan(disk))[i] = Plan(disk)[i].id
           /\ disk \in RunRecords /\ mem \in RunRecords /\ disk.followups \in 0..Limit
           /\ disk.active \in DOMAIN files /\ mem.active \in DOMAIN files /\ disk.active \in Nat
<1>1. Plan(disk) \in Plans
    BY ElementOfSeq, LenProperties DEF RInv, IInv, TypeOK, Plan
<1>2. Len(Plan(disk)) # 0
    BY DEF RInv, IInv, Sound, Closed
<1>3. disk \in RunRecords /\ mem \in RunRecords /\ disk.active \in DOMAIN files /\ mem.active \in DOMAIN files
    BY DEF RInv, IInv, TypeOK
<1>4. disk.followups \in 0..Limit /\ disk.active \in Nat
    BY <1>3 DEF RunRecords
<1>5. /\ Ids(Plan(disk)) \in Seq(Tasks) /\ Len(Ids(Plan(disk))) = Len(Plan(disk))
      /\ DOMAIN Plan(disk) = 1..Len(Plan(disk)) /\ Len(Plan(disk)) \in Nat
      /\ \A i \in 1..Len(Plan(disk)) : Ids(Plan(disk))[i] = Plan(disk)[i].id
    BY <1>1, IdsType
<1>6. DOMAIN Ids(Plan(disk)) = 1..Len(Plan(disk))
    BY <1>5, LenProperties
<1>7. Plan(disk) # <<>>
    BY <1>2
<1> QED
    BY <1>1, <1>2, <1>3, <1>4, <1>5, <1>6, <1>7

\* The follow-up that is being appended is not in the plan of run.json.
LEMMA FollowupIsNew ==
    ASSUME RInv, Final \notin disk.passed
    PROVE  Followup(disk.followups + 1) \notin disk.passed
<1> DEFINE f == Followup(disk.followups + 1)
<1> SUFFICES ASSUME f \in disk.passed PROVE FALSE
    OBVIOUS
<1>0. Len(Plan(disk)) \in Nat \ {0} /\ disk.followups \in Nat
    BY DiskPlan
<1>1. PICK i \in 1..Len(Plan(disk)) : Plan(disk)[i].id = f
    BY DEF RInv, IInv, Sound, Prefixed
<1>2. i \in 1..(Len(Plan(disk))-1)
  <2>1. Plan(disk)[Len(Plan(disk))].id = Final
      BY DEF RInv, IInv, Sound, Closed
  <2>2. i # Len(Plan(disk))
      BY <1>1, <2>1
  <2> QED
      BY <1>0, <2>2
<1>3. f <= Followup(disk.followups)
    BY <1>1, <1>2 DEF RInv, Refining
<1> QED
    BY <1>0, <1>3 DEF Followup

LEMMA StepRefining ==
    ASSUME "interrupt" \notin Faults, RInv, [Next]_vars
    PROVE  Refining'
<1> DEFINE f == Followup(disk.followups + 1)
<1>1. /\ disk \in RunRecords /\ mem \in RunRecords
      /\ disk.active \in DOMAIN files /\ mem.active \in DOMAIN files
    BY DiskPlan
<1>2. \A r \in DOMAIN files : r \in DOMAIN files' /\ files'[r] = files[r]
    BY FilesGrow DEF RInv
<1>3. UNCHANGED disk => Plan(disk)' = Plan(disk)
    BY <1>1, <1>2 DEF Plan
<1>4. UNCHANGED mem => Plan(mem)' = Plan(mem)
    BY <1>1, <1>2 DEF Plan
<1> USE DEF Goto, Unsaved, Refining, RInv
<1>5. ASSUME UNCHANGED disk, UNCHANGED mem, pc' = pc \/ {pc, pc'} \subseteq {"down", "tasks", "write", "activate"}
      PROVE  Refining'
    BY <1>1, <1>3, <1>4, <1>5 DEF Grown, Readable
<1>s. pc \in {"down", "tasks", "write", "activate"} => mem = disk
  <2> SUFFICES ASSUME pc \in {"down", "tasks", "write", "activate"} PROVE mem = disk
      OBVIOUS
  <2>1. /\ mem.active = disk.active /\ mem.entries = disk.entries
        /\ mem.passed = disk.passed /\ mem.followups = disk.followups
      OBVIOUS
  <2> QED
      BY <1>1, <2>1 DEF RunRecords
<1>6. CASE LookupFails \/ Request \/ WriteRevision \/ RevisionExists
    BY <1>s, <1>5, <1>6 DEF LookupFails, Request, WriteRevision, RevisionExists
<1>7. CASE Resume
    BY <1>s, <1>5, <1>7 DEF Resume
<1>8. CASE Crash
    BY <1>1, <1>3, <1>8 DEF Crash, Stop, Readable
<1>9. CASE UNCHANGED vars
    BY <1>5, <1>9 DEF vars
<1>10. CASE PassTask
  <2>1. PICK i \in DOMAIN Plan(mem) : mem' = [mem EXCEPT !.passed = @ \cup {Plan(mem)[i].id}]
      BY <1>10, FirstPending
  <2>2. /\ mem'.active = mem.active /\ mem'.followups = mem.followups /\ mem'.entries = mem.entries
        /\ disk' = mem' /\ UNCHANGED files /\ pc = "tasks" /\ pc' = "tasks"
      BY <1>1, <1>10, <2>1 DEF PassTask, RunRecords
  <2>3. Plan(disk)' = Plan(disk) /\ mem'.entries = disk.entries /\ mem'.followups = disk.followups
      BY <2>2 DEF Plan
  <2> QED
      BY <2>2, <2>3 DEF Readable
<1>11. CASE Activate
  <2>1. /\ mem'.active = disk.active + 1 /\ mem'.followups = disk.followups
        /\ mem'.passed = disk.passed /\ mem'.entries = disk.entries
        /\ pc = "activate" /\ pc' = "enter" /\ UNCHANGED <<disk, files>>
      BY <1>1, <1>11 DEF Activate, RunRecords
  <2>2. mem.followups < Limit /\ Final \notin mem.passed /\ files[mem.active + 1] = Grown(mem)
      BY <2>1 DEF IInv, Appending
  <2>3. Grown(mem) = Grown(disk)
      BY <2>1 DEF Grown, Plan
  <2>4. Grown(disk)' = Grown(disk)
      BY <1>3, <2>1 DEF Grown
  <2>5. Plan(mem)' = Grown(disk)
      BY <2>1, <2>2, <2>3 DEF Plan
  <2> QED
      BY <1>3, <2>1, <2>2, <2>4, <2>5 DEF Readable
<1>12. CASE EnterTask
  <2>1. pc = "enter" /\ pc' = "count" /\ UNCHANGED <<disk, files>>
        /\ mem' = [mem EXCEPT !.entries = @ \cup {f}, !.passed = @ \ {f}]
      BY <1>12 DEF EnterTask
  <2>2. mem.passed \ {f} = mem.passed
      BY <2>1, FollowupIsNew
  <2>3. /\ mem'.active = mem.active /\ mem'.followups = mem.followups
        /\ mem'.passed = mem.passed /\ mem'.entries = mem.entries \cup {f}
      BY <1>1, <2>1, <2>2 DEF RunRecords
  <2>4. Plan(mem)' = Plan(mem) /\ Grown(disk)' = Grown(disk)
      BY <1>3, <2>1, <2>3 DEF Plan, Grown
  <2> QED
      BY <1>3, <2>1, <2>3, <2>4 DEF Readable
<1>13. CASE CountFollowup
  <2>1. /\ mem'.active = mem.active /\ mem'.followups = mem.followups + 1
        /\ mem'.passed = mem.passed /\ mem'.entries = mem.entries
        /\ pc = "count" /\ pc' = "save" /\ UNCHANGED <<disk, files>>
      BY <1>1, <1>13 DEF CountFollowup, RunRecords
  <2>2. Plan(mem)' = Plan(mem) /\ Grown(disk)' = Grown(disk)
      BY <1>3, <2>1 DEF Plan, Grown
  <2> QED
      BY <1>3, <2>1, <2>2 DEF Readable
<1>14. CASE Save
  <2>1. disk' = mem /\ mem' = mem /\ UNCHANGED files /\ pc = "save" /\ pc' = "tasks"
      BY <1>14 DEF Save
  <2>2. Plan(disk)' = Grown(disk)
      BY <2>1 DEF Plan
  <2>3. f \in Tasks /\ disk.followups \in Nat /\ disk.followups < Limit
      BY <1>1, <2>1 DEF RunRecords, Followup, Tasks, Final
  <2> DEFINE l == Len(Plan(disk))
             new == Grown(disk)
  <2>4. /\ Plan(disk) \in Plans /\ Plan(disk) # <<>> /\ l \in Nat \ {0}
        /\ l = NBase + 1 + disk.followups
        /\ \A i \in 1..(l-1) : Plan(disk)[i].id <= Followup(disk.followups)
      BY DiskPlan
  <2>5. /\ Len(new) = l + 1 /\ new \in Plans
        /\ \A i \in 1..(l-1) : new[i].id = Plan(disk)[i].id
        /\ new[l].id = f /\ new[l+1].id = Plan(disk)[l].id
      BY <2>3, <2>4, Revised DEF Grown
  <2>6. \A i \in 1..(l-1) : Plan(disk)[i].id \in Nat
      BY <2>4, IdsType DEF Tasks
  <2> HIDE DEF l, new
  <2>7. \A i \in 1..((l+1)-1) : new[i].id <= f
    <3>1. f = Followup(disk.followups) + 1 /\ f \in Nat
        BY <2>3 DEF Followup
    <3> HIDE DEF f
    <3>2. \A i \in 1..((l+1)-1) : i \in 1..(l-1) \/ i = l
        BY <2>4
    <3>3. Followup(disk.followups) \in Nat
        BY <2>3 DEF Followup
    <3>4. \A i \in 1..(l-1) : new[i].id <= f
        BY <2>4, <2>5, <2>6, <3>1, <3>3
    <3> QED
        BY <2>5, <3>1, <3>2, <3>4
  <2>8. disk'.followups = disk.followups + 1 /\ l + 1 = NBase + 1 + disk'.followups
      BY <2>1, <2>3, <2>4
  <2>9. Readable(disk)'
    <3>1. \A i \in 1..l : Plan(disk)[i].id \in disk.entries
        BY DiskPlan DEF Readable, ToSet, l
    <3>2. \A i \in 1..(l+1) : i \in 1..(l-1) \/ i = l \/ i = l+1
        BY <2>4
    <3>3. disk'.entries = disk.entries \cup {f}
        BY <2>1
    <3>4. \A i \in 1..(l+1) : new[i].id \in disk'.entries
        BY <2>4, <2>5, <3>1, <3>2, <3>3
    <3>5. DOMAIN Ids(new) = 1..(l+1) /\ \A i \in 1..(l+1) : Ids(new)[i] = new[i].id
        BY <2>5, IdsType, LenProperties
    <3>6. Plan(disk)' = new
        BY <2>2 DEF new
    <3> QED
        BY <3>4, <3>5, <3>6 DEF Readable, ToSet
  <2>10. Plan(disk)' = new
      BY <2>2 DEF new
  <2> QED
      BY <2>1, <2>5, <2>7, <2>8, <2>9, <2>10
<1>15. CASE Interrupt
    BY <1>15 DEF Interrupt
<1> QED
    BY <1>6, <1>7, <1>8, <1>9, <1>10, <1>11, <1>12, <1>13, <1>14, <1>15 DEF Next
LEMMA InitRefining == Init => Refining
<1> SUFFICES ASSUME Init PROVE Refining
    OBVIOUS
<1>1. NBase \in Nat \ {0} /\ Limit \in Nat
    OBVIOUS
<1>4. /\ Len(Chain(FirstIds)) = NBase + 1 /\ Ids(Chain(FirstIds)) = FirstIds
      /\ \A i \in 1..NBase : Chain(FirstIds)[i].id = i
    BY <1>1, Initially
<1>5. /\ Plan(disk) = Chain(FirstIds) /\ disk = NewRun /\ mem = NewRun /\ pc = "tasks"
      /\ disk.active = 1 /\ disk.followups = 0 /\ disk.entries = ToSet(FirstIds) /\ disk.passed = {}
    BY DEF Init, NewRun, Plan
<1>8. \A i \in 1..((NBase+1)-1) : Chain(FirstIds)[i].id <= Followup(0)
    BY <1>1, <1>4 DEF Followup
<1>9. Readable(disk)
    BY <1>4, <1>5 DEF Readable
<1> QED
    BY <1>1, <1>4, <1>5, <1>8, <1>9 DEF Refining, Unsaved

\* Without interrupts, wherever processes crash, every task of the active plan
\* has its entry, and a run has at most Limit follow-ups.
THEOREM Limits ==
    ASSUME "interrupt" \notin Faults
    PROVE  Spec => [](PlannedTasksEntered /\ FollowupsLimited)
<1>1. RInv => PlannedTasksEntered /\ FollowupsLimited
  <2> SUFFICES ASSUME RInv PROVE PlannedTasksEntered /\ FollowupsLimited
      OBVIOUS
  <2>1. disk.followups \in 0..Limit /\ Len(Plan(disk)) = NBase + 1 + disk.followups
      BY DiskPlan DEF RInv, Refining
  <2> QED
      BY <2>1 DEF RInv, Refining, PlannedTasksEntered, FollowupsLimited
<1>2. Init => RInv
    BY InitInv, InitRefining DEF RInv
<1>3. RInv /\ [Next]_vars => RInv'
    BY StepInv, StepRefining DEF RInv
<1> QED
    BY <1>1, <1>2, <1>3, PTL DEF Spec

\* Only a save of append_followup and a task that passes change what
\* FollowupPlan sees of run.json.
LEMMA StepPromise ==
    ASSUME "interrupt" \notin Faults, RInv, [Next]_vars
    PROVE  [Promise!Append1 \/ Promise!Pass]_(Promise!vars)
<1> DEFINE plan == Plan(disk)
<1>1. /\ plan \in Plans /\ Len(plan) \in Nat \ {0} /\ plan # <<>>
      /\ DOMAIN plan = 1..Len(plan)
      /\ Ids(plan) \in Seq(Tasks) /\ Len(Ids(plan)) = Len(plan)
      /\ DOMAIN Ids(plan) = 1..Len(plan)
      /\ \A i \in 1..Len(plan) : Ids(plan)[i] = plan[i].id
    BY DiskPlan
<1>2. /\ disk \in RunRecords /\ mem \in RunRecords /\ disk.followups \in 0..Limit
      /\ disk.active \in DOMAIN files /\ disk.active \in Nat
    BY DiskPlan
<1>3. UNCHANGED disk => Ids(plan)' = Ids(plan)
  <2>1. \A r \in DOMAIN files : files'[r] = files[r]
      BY FilesGrow DEF RInv
  <2> QED
      BY <1>2, <2>1 DEF Plan
<1>4. UNCHANGED disk => UNCHANGED Promise!vars
    BY <1>3 DEF Promise!vars
<1>5. CASE LookupFails
  <2>1. /\ mem.active = disk.active /\ mem.passed = disk.passed
        /\ disk' = mem /\ UNCHANGED files
      BY <1>5 DEF LookupFails, Goto, RInv, Refining, Unsaved
  <2>2. Ids(plan)' = Ids(plan) /\ disk'.passed = disk.passed
      BY <2>1 DEF Plan
  <2> QED
      BY <2>2 DEF Promise!vars
<1>6. CASE PassTask
  <2>1. PICK i \in DOMAIN Plan(mem) :
            /\ mem' = [mem EXCEPT !.passed = @ \cup {Plan(mem)[i].id}]
            /\ \A j \in DOMAIN Plan(mem) : Plan(mem)[j].id \notin mem.passed => i <= j
      BY <1>6, FirstPending DEF RInv
  <2>2. mem.active = disk.active /\ mem.passed = disk.passed
      BY <1>6 DEF PassTask, Goto, RInv, Refining, Unsaved
  <2>3. Plan(mem) = plan
      BY <2>2 DEF Plan
  <2>4. /\ disk'.passed = disk.passed \cup {plan[i].id} /\ disk'.active = disk.active
        /\ UNCHANGED files
      BY <1>2, <1>6, <2>1, <2>2, <2>3 DEF PassTask, RunRecords
  <2>5. Ids(plan)' = Ids(plan)
      BY <2>4 DEF Plan
  <2> HIDE DEF plan
  <2>6. i \in 1..Len(plan) /\ \A j \in 1..(i-1) : j \in 1..Len(plan) /\ ~(i <= j)
      BY <1>1, <2>1, <2>3
  <2>7. /\ i \in DOMAIN Ids(plan) /\ Ids(plan)[i] = plan[i].id
        /\ \A j \in 1..(i-1) : Ids(plan)[j] \in disk.passed
      BY <1>1, <2>1, <2>2, <2>3, <2>6
  <2>8. Promise!Pass
      BY <2>4, <2>5, <2>7 DEF Promise!Pass, plan
  <2> QED
      BY <2>8
<1>7. CASE Save
  <2> DEFINE f == Followup(disk.followups + 1)
  <2>1. /\ disk' = mem /\ UNCHANGED files /\ pc = "save"
      BY <1>7 DEF Save, Goto
  <2>2. /\ disk.followups < Limit /\ Final \notin disk.passed /\ mem.passed = disk.passed
        /\ Plan(mem) = Grown(disk) /\ Len(plan) = NBase + 1 + disk.followups
      BY <2>1 DEF RInv, Refining, Unsaved
  <2>3. plan' = Grown(disk) /\ disk'.passed = disk.passed
      BY <2>1, <2>2 DEF Plan
  <2>4. f \in Tasks /\ disk.followups \in Nat /\ disk.followups + 1 \in 1..Limit
      BY <1>2, <2>2 DEF Followup, Tasks, Final
  <2>5. Ids(Grown(disk)) = InsertAt(Ids(plan), Len(Ids(plan)), f)
      BY <1>1, <2>4, Revised DEF Grown
  <2>6. Ids(plan)' = InsertAt(Ids(plan), Len(Ids(plan)), f)
      BY <2>3, <2>5
  <2>7. Len(FirstIds) = NBase + 1
      BY Initially
  <2>8. Len(Ids(plan)) - Len(FirstIds) = disk.followups
      BY <1>1, <2>2, <2>4, <2>7
  <2>9. Last(Ids(plan)) \notin disk.passed
    <3>1. plan[Len(plan)].id = Final
        BY DEF RInv, IInv, Sound, Closed
    <3> QED
        BY <1>1, <2>2, <3>1 DEF Last
  <2>10. [n \in 1..Limit |-> Followup(n)][disk.followups + 1] = f
      BY <2>4
  <2> HIDE DEF f, plan
  <2>11. Promise!Append1
    <3>1. \A ids, i, id : Promise!InsertAt(ids, i, id) = InsertAt(ids, i, id)
        BY DEF Promise!InsertAt, InsertAt
    <3>2. \A ids : Promise!Last(ids) = Last(ids)
        BY DEF Promise!Last, Last
    <3> QED
        BY <2>2, <2>3, <2>6, <2>8, <2>9, <2>10, <3>1, <3>2 DEF Promise!Append1, Promise!Appended, plan
  <2> QED
      BY <2>11
<1>8. CASE UNCHANGED disk
    BY <1>4, <1>8
<1> QED
    BY <1>5, <1>6, <1>7, <1>8 DEF Next, Request, WriteRevision, RevisionExists, Activate, EnterTask,
       CountFollowup, Resume, Crash, Interrupt, vars

\* run.json implements FollowupPlan wherever processes crash: a follow-up enters
\* at once and before a final task that has not passed, and tasks pass in order.
THEOREM KeepsPromise ==
    ASSUME "interrupt" \notin Faults
    PROVE  Spec => FollowupsAreAtomic
<1>1. Init => RInv /\ Promise!Init
  <2> SUFFICES ASSUME Init PROVE RInv /\ Promise!Init
      OBVIOUS
  <2>1. RInv
      BY InitInv, InitRefining DEF RInv
  <2>2. Ids(Chain(FirstIds)) = FirstIds
      BY Initially
  <2> QED
      BY <2>1, <2>2 DEF Init, NewRun, Plan, Promise!Init
<1>2. RInv /\ [Next]_vars => RInv'
    BY StepInv, StepRefining DEF RInv
<1>3. RInv /\ [Next]_vars => [Promise!Append1 \/ Promise!Pass]_(Promise!vars)
    BY StepPromise
<1> QED
    BY <1>1, <1>2, <1>3, PTL DEF Spec, FollowupsAreAtomic, Promise!Spec
=============================================================================
