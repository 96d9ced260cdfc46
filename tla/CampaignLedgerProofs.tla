------------------------ MODULE CampaignLedgerProofs ------------------------
(***************************************************************************)
(* Theorems about CampaignLedger, for every number of runs and processes,  *)
(* every limit and every set of reservations and charges, each under the   *)
(* faults it stands.                                                       *)
(*                                                                         *)
(* An interrupted handler saves its copy as it stands, and a stale copy    *)
(* may replace a newer ledger.  So what is true of run.json rests on what  *)
(* is true of the copies at every point of a call.  Below, d, b and x are  *)
(* the run.json, the bill and the excess of a run; m is the copy of a      *)
(* process that is at point at with call c.                                *)
(***************************************************************************)
EXTENDS CampaignLedger, FiniteSetTheorems, TLAPS

InCost == {"enter", "publish", "record", "send", "sent", "await_settle", "pop", "adjust"}
Answered == {"sent", "await_settle", "pop", "adjust"}

\* What the settlement of the call will take out of the copy is in it.
Funded(m, at, c) ==
    /\ at \in InCost => c.reserved <= m.cost
    /\ at \in InCost \ {"enter", "adjust"} => c.reserved <= m.pending

\* A ledger is balanced and within its limit, and so is a copy up to the
\* change that is under way.
Tight(l) == l.cost = l.settled + l.pending /\ l.cost <= MaxCost + l.overflow

Balanced(m, at, c) ==
    /\ at \notin {"closed", "enter", "adjust", "overrun"} => Tight(m)
    /\ at \in {"enter", "adjust"} => /\ m.cost = m.settled + m.pending + c.reserved
                                     /\ m.cost <= MaxCost + m.overflow
    /\ at = "overrun" => /\ m.cost = m.settled + m.pending + c.charged
                         /\ m.cost <= MaxCost + m.overflow + Above(c.charged, c.reserved)

\* A ledger covers the bill, and a copy also the call that is under way.
Covering(l, b, x) == b + l.overflow <= l.cost + x

Booked(m, at, c, b, x) ==
    /\ Covering(m, b, x)
    /\ at \in InCost \ Answered => b + m.overflow + c.reserved <= m.cost + x
    /\ at \in Answered =>
          b + m.overflow + c.reserved + Above(c.charged, c.reserved) <= m.cost + x + c.charged
    /\ at = "overrun" => b + m.overflow + Above(c.charged, c.reserved) <= m.cost + x

\* The ledger of a run and the copy of the only process that has it open.
Owned(d, m, at, c, b, x) ==
    /\ Covering(d, b, x)
    /\ at # "closed" => Booked(m, at, c, b, x)
    /\ at \in {"record", "send"} => b + d.overflow + c.reserved <= d.cost + x

\* No two processes have run r open at the same time.
Guarded(r) == SoleControllers(r) \/ "stale_open" \notin Faults
Alone(p) == \A q \in Procs : q # p /\ RunOf[q] = RunOf[p] => pc[q] = "closed"

Fits(r, d, m, at, c, b, x) ==
    /\ Funded(m, at, c)
    /\ "interrupt" \notin Faults => Tight(d) /\ Balanced(m, at, c)
    /\ Guarded(r) => Owned(d, m, at, c, b, x)

IInv ==
    /\ TypeOK
    /\ \A p \in Procs : Fits(RunOf[p], disk[RunOf[p]], mem[p], pc[p], call[p],
                             bill[RunOf[p]], excess[RunOf[p]])
    /\ \A r \in Runs : /\ "interrupt" \notin Faults => Tight(disk[r])
                       /\ Guarded(r) => Covering(disk[r], bill[r], excess[r])
    /\ "stale_open" \notin Faults => \A p \in Procs : pc[p] # "closed" => Alone(p)

-----------------------------------------------------------------------------
(* One step of a process touches its own copy and the records of its run:  *)
(* the invariant is preserved when the new values fit each other.          *)

Touch(p, d, m, at, c, b, x) ==
    /\ disk' = [disk EXCEPT ![RunOf[p]] = d]
    /\ mem' = [mem EXCEPT ![p] = m]
    /\ pc' = [pc EXCEPT ![p] = at]
    /\ call' = [call EXCEPT ![p] = c]
    /\ bill' = [bill EXCEPT ![RunOf[p]] = b]
    /\ excess' = [excess EXCEPT ![RunOf[p]] = x]

LockTypes ==
    /\ controller \in [Runs -> Procs \cup {NoProc}]
    /\ campaign \in Procs \cup {NoProc}
    /\ requests \in [Runs -> SUBSET Nat]

LEMMA LocalStep ==
    ASSUME IInv, NEW p \in Procs, LockTypes', "stale_open" \notin Faults => Alone(p),
           NEW d \in Ledgers, NEW m \in Ledgers, NEW at \in Points, NEW c \in Calls,
           NEW b \in Nat, NEW x \in Nat,
           Touch(p, d, m, at, c, b, x), Fits(RunOf[p], d, m, at, c, b, x)
    PROVE  IInv'
<1>1. RunOf \in [Procs -> Runs]
    BY RunOfAssumption
<1>t. /\ disk \in [Runs -> Ledgers] /\ mem \in [Procs -> Ledgers] /\ pc \in [Procs -> Points]
      /\ call \in [Procs -> Calls] /\ bill \in [Runs -> Nat] /\ excess \in [Runs -> Nat]
    BY DEF IInv, TypeOK
<1>2. TypeOK'
    BY <1>1, <1>t DEF TypeOK, LockTypes, Touch
<1>p. /\ disk'[RunOf[p]] = d /\ mem'[p] = m /\ pc'[p] = at /\ call'[p] = c
      /\ bill'[RunOf[p]] = b /\ excess'[RunOf[p]] = x
    BY <1>1, <1>t DEF Touch
<1>q. ASSUME NEW q \in Procs, q # p
      PROVE  mem'[q] = mem[q] /\ pc'[q] = pc[q] /\ call'[q] = call[q]
    BY <1>t, <1>q DEF Touch
<1>r. ASSUME NEW r \in Runs, r # RunOf[p]
      PROVE  disk'[r] = disk[r] /\ bill'[r] = bill[r] /\ excess'[r] = excess[r]
    BY <1>t, <1>r DEF Touch
<1>3. ASSUME "stale_open" \notin Faults, NEW q \in Procs, pc'[q] # "closed" PROVE Alone(q)'
    BY <1>1, <1>3, <1>p, <1>q DEF IInv, Alone
<1>4. ASSUME NEW q \in Procs
      PROVE  Fits(RunOf[q], disk'[RunOf[q]], mem'[q], pc'[q], call'[q],
                  bill'[RunOf[q]], excess'[RunOf[q]])
  <2>1. CASE q = p
      BY <1>p, <2>1
  <2>2. CASE q # p /\ RunOf[q] = RunOf[p]
    <3>1. Fits(RunOf[q], disk[RunOf[q]], mem[q], pc[q], call[q], bill[RunOf[q]], excess[RunOf[q]])
        BY DEF IInv
    <3>2. Funded(mem'[q], pc'[q], call'[q])
        BY <1>q, <2>2, <3>1 DEF Fits
    <3>3. "interrupt" \notin Faults => Tight(d) /\ Balanced(mem'[q], pc'[q], call'[q])
        BY <1>q, <2>2, <3>1 DEF Fits
    <3>4. ASSUME Guarded(RunOf[q]) PROVE Owned(d, mem'[q], pc'[q], call'[q], b, x)
      <4>1. pc'[q] = "closed"
          BY <1>q, <2>2, <3>4 DEF Guarded, SoleControllers, Alone
      <4>2. Covering(d, b, x)
          BY <2>2, <3>4 DEF Fits, Owned
      <4> QED
          BY <4>1, <4>2 DEF Owned
    <3> QED
        BY <1>p, <2>2, <3>2, <3>3, <3>4 DEF Fits
  <2>3. CASE q # p /\ RunOf[q] # RunOf[p]
    <3>1. RunOf[q] \in Runs
        BY <1>1
    <3> QED
        BY <1>q, <1>r, <2>3, <3>1 DEF IInv
  <2> QED
      BY <2>1, <2>2, <2>3
<1>5. ASSUME NEW r \in Runs
      PROVE  /\ "interrupt" \notin Faults => Tight(disk'[r])
             /\ Guarded(r) => Covering(disk'[r], bill'[r], excess'[r])
  <2>1. CASE r = RunOf[p]
      BY <1>p, <2>1 DEF Fits, Owned
  <2>2. CASE r # RunOf[p]
      BY <1>r, <2>2 DEF IInv
  <2> QED
      BY <2>1, <2>2
<1>6. /\ \A r : Guarded(r)' <=> Guarded(r)
      /\ (\A r \in Runs : /\ "interrupt" \notin Faults => Tight(disk[r])
                          /\ Guarded(r) => Covering(disk[r], bill[r], excess[r]))'
  <2>1. \A r : Guarded(r)' <=> Guarded(r)
      BY DEF Guarded, SoleControllers
  <2> QED
      BY <1>5, <2>1 DEF Tight, Covering
<1>7. (\A q \in Procs : Fits(RunOf[q], disk[RunOf[q]], mem[q], pc[q], call[q],
                            bill[RunOf[q]], excess[RunOf[q]]))'
    BY <1>4, <1>6 DEF Fits, Funded, Balanced, Tight, Owned, Booked, Covering
<1> QED
    BY <1>2, <1>3, <1>6, <1>7 DEF IInv

LEMMA LockStep ==
    ASSUME IInv, NEW p \in Procs, Step(p) PROVE LockTypes'
<1> USE RunOfAssumption DEF IInv, TypeOK, LockTypes, locks
<1>1. CASE UNCHANGED <<locks, requests>>
    BY <1>1
<1>2. CASE Control(p) \/ Close(p) \/ Crash(p)
    BY <1>2 DEF Control, Close, Crash, Unlock
<1>3. CASE UNCHANGED <<controller, requests>> /\ (Unlock(p) \/ LockCampaign(p))
    BY <1>3 DEF Unlock, LockCampaign
<1>4. CASE RecordRequest(p)
    BY <1>4 DEF RecordRequest, Unlock, Calls
<1> QED
    BY <1>1, <1>2, <1>3, <1>4 DEF Step, Open, GiveUp, SaveRunning, Leave, BeginCall,
       EnterCampaign, RefuseCall, ReserveCost, EnterPending, PublishReservation, Send, Answer,
       FailCall, Retry, Abandon, EnterSettlement, PopPending, AdjustCost, SettleOverrun,
       PublishSettlement, Interrupt

LEMMA Amounts ==
    ASSUME NEW d \in Ledgers, NEW c \in Calls
    PROVE  /\ d.cost \in Nat /\ d.settled \in Nat /\ d.pending \in Nat /\ d.overflow \in Nat
           /\ c.reserved \in Nat /\ c.charged \in Nat
           /\ Above(c.charged, c.reserved) \in Nat
           /\ \/ c.charged > c.reserved /\ Above(c.charged, c.reserved) = c.charged - c.reserved
              \/ c.charged <= c.reserved /\ Above(c.charged, c.reserved) = 0
  BY DEF Ledgers, Calls, Above

\* A run.json fits the copy it was read into, and the copy that replaces it.
LEMMA CopyFits ==
    ASSUME NEW r, NEW d, NEW m, NEW c, NEW c2, NEW b, NEW x, NEW from, NEW at,
           Fits(r, d, m, from, c, b, x)
    PROVE  /\ at \in Points \ (InCost \cup {"overrun"}) => Fits(r, d, d, at, c2, b, x)
           /\ Fits(r, d, NewLedger, "closed", c2, b, x)
<1> USE DEF InCost, Answered, Fits, Funded, Tight, Balanced, Owned, Booked
<1>1. at \in Points \ (InCost \cup {"overrun"}) => Fits(r, d, d, at, c2, b, x)
    OBVIOUS
<1>2. Fits(r, d, NewLedger, "closed", c2, b, x)
    OBVIOUS
<1> QED
    BY <1>1, <1>2

\* A copy that is published where nothing is under way, or that is kept.
LEMMA MoveFits ==
    ASSUME NEW r, NEW d, NEW m, NEW c, NEW c2, NEW b, NEW x, NEW from, NEW at,
           Fits(r, d, m, from, c, b, x), from # "closed",
           at \in Points \ (InCost \cup {"overrun"}),
           "interrupt" \notin Faults => from \notin {"enter", "adjust", "overrun"}
    PROVE  Fits(r, d, m, at, c2, b, x) /\ Fits(r, m, m, at, c2, b, x)
<1> USE DEF InCost, Answered, Fits, Funded, Tight, Balanced, Owned, Booked
<1>1. Fits(r, d, m, at, c2, b, x)
    OBVIOUS
<1>2. Fits(r, m, m, at, c2, b, x)
    OBVIOUS
<1> QED
    BY <1>1, <1>2

LEMMA StepInv ==
    ASSUME IInv, NEW p \in Procs, Step(p) PROVE IInv'
<1> DEFINE r == RunOf[p]
           m == mem[p]
           c == call[p]
<1>l. LockTypes'
    BY LockStep
<1>s. /\ disk \in [Runs -> Ledgers] /\ mem \in [Procs -> Ledgers] /\ pc \in [Procs -> Points]
      /\ call \in [Procs -> Calls] /\ bill \in [Runs -> Nat] /\ excess \in [Runs -> Nat]
    BY DEF IInv, TypeOK
<1>t. /\ r \in Runs /\ disk[r] \in Ledgers /\ m \in Ledgers /\ pc[p] \in Points /\ c \in Calls
      /\ bill[r] \in Nat /\ excess[r] \in Nat
    BY <1>s, RunOfAssumption
<1>n. /\ c.reserved \in Nat /\ c.charged \in Nat /\ Above(c.charged, c.reserved) \in Nat
      /\ m.cost \in Nat /\ m.pending \in Nat /\ m.settled \in Nat /\ m.overflow \in Nat
      /\ disk[r].cost \in Nat /\ disk[r].overflow \in Nat /\ MaxCost \in Nat
    BY <1>t, Amounts, AmountsAssumption
<1>c. /\ NewLedger \in Ledgers /\ NoCall \in Calls
      /\ \A reserved \in Nat, n \in 0..3 : NewCall(reserved, n) \in Calls
    BY DEF NewLedger, Ledgers, NoCall, NewCall, Calls
<1>f. Fits(r, disk[r], m, pc[p], c, bill[r], excess[r])
    BY DEF IInv
<1>a. pc[p] # "closed" => ("stale_open" \notin Faults => Alone(p))
    BY DEF IInv
<1>1. CASE \/ Control(p) \/ Leave(p) \/ EnterCampaign(p) \/ RefuseCall(p) \/ Abandon(p)
           \/ Interrupt(p)
  <2> DEFINE at == pc'[p]
  <2>1. /\ Touch(p, disk[r], m, at, c, bill[r], excess[r])
        /\ at \in {"locked", "check", "handler"} /\ pc[p] # "closed"
        /\ "interrupt" \notin Faults => pc[p] \notin {"enter", "adjust", "overrun"}
      BY <1>1, <1>s, <1>t DEF Touch, Control, Leave, EnterCampaign, RefuseCall, Abandon, Interrupt,
         Goto, locks, provider
  <2> HIDE DEF at
  <2>2. at \in Points \ (InCost \cup {"overrun"})
      BY <2>1 DEF Points, InCost
  <2>3. Fits(r, disk[r], m, at, c, bill[r], excess[r])
      BY <1>f, <2>1, <2>2, MoveFits
  <2> QED
      BY <1>l, <1>t, <1>a, <2>1, <2>2, <2>3, LocalStep
<1>2. CASE RecordRequest(p) \/ Answer(p) \/ EnterSettlement(p)
  <2> DEFINE at == pc'[p]
  <2>1. /\ Touch(p, disk[r], m, at, c, bill[r], excess[r])
        /\ at \in Points /\ pc[p] # "closed"
        /\ \/ at = "send" /\ pc[p] = "record"
           \/ at = "await_settle" /\ pc[p] = "sent"
           \/ at = "pop" /\ pc[p] = "await_settle"
      BY <1>2, <1>s, <1>t DEF Touch, RecordRequest, Answer, EnterSettlement, Goto, locks, provider,
         Points
  <2> HIDE DEF at
  <2>2. Fits(r, disk[r], m, at, c, bill[r], excess[r])
      BY <1>f, <2>1 DEF InCost, Answered, Fits, Funded, Balanced, Owned, Booked
  <2> QED
      BY <1>l, <1>t, <1>a, <2>1, <2>2, LocalStep
<1>3. CASE SaveRunning(p) \/ FailCall(p)
  <2> DEFINE at == pc'[p]
  <2>1. /\ Touch(p, m, m, at, c, bill[r], excess[r])
        /\ at \in {"idle", "failed"} /\ pc[p] \in {"locked", "sent"}
      BY <1>3, <1>s, <1>t DEF Touch, SaveRunning, FailCall, Save, Goto, locks, provider
  <2> HIDE DEF at
  <2>2. at \in Points \ (InCost \cup {"overrun"})
      BY <2>1 DEF Points, InCost
  <2>3. Fits(r, m, m, at, c, bill[r], excess[r])
      BY <1>f, <2>1, <2>2, MoveFits
  <2> QED
      BY <1>l, <1>t, <1>a, <2>1, <2>2, <2>3, LocalStep
<1>4. CASE Open(p)
  <2>1. Touch(p, disk[r], disk[r], "opened", c, bill[r], excess[r])
      BY <1>4, <1>s, <1>t DEF Touch, Open, Assign, Goto, locks, provider
  <2>2. "opened" \in Points \ (InCost \cup {"overrun"})
      BY DEF Points, InCost
  <2>3. Fits(r, disk[r], disk[r], "opened", c, bill[r], excess[r])
      BY <1>f, <2>2, CopyFits
  <2>4. "stale_open" \notin Faults => Alone(p)
      BY <1>4 DEF Open, Alone
  <2> QED
      BY <1>l, <1>t, <2>1, <2>2, <2>3, <2>4, LocalStep
<1>5. CASE GiveUp(p) \/ Crash(p)
  <2> DEFINE c2 == call'[p]
  <2>1. /\ c2 \in Calls /\ Touch(p, disk[r], NewLedger, "closed", c2, bill[r], excess[r])
        /\ pc[p] # "closed"
      BY <1>5, <1>s, <1>t, <1>c DEF Touch, GiveUp, Crash, Assign, Goto, locks, provider
  <2> HIDE DEF c2
  <2>2. Fits(r, disk[r], NewLedger, "closed", c2, bill[r], excess[r])
      BY <1>f, CopyFits
  <2> QED
      BY <1>l, <1>t, <1>c, <1>a, <2>1, <2>2, LocalStep DEF Points
<1>6. CASE Close(p)
  <2>1. Touch(p, m, NewLedger, "closed", NoCall, bill[r], excess[r]) /\ pc[p] = "handler"
      BY <1>6, <1>s, <1>t DEF Touch, Close, Save, Assign, Goto, locks, provider
  <2>2. "handler" \in Points \ (InCost \cup {"overrun"})
      BY DEF Points, InCost
  <2>3. Fits(r, m, m, "handler", c, bill[r], excess[r])
      BY <1>f, <2>1, <2>2, MoveFits
  <2>4. Fits(r, m, NewLedger, "closed", NoCall, bill[r], excess[r])
      BY <2>3, CopyFits
  <2> QED
      BY <1>l, <1>t, <1>c, <1>a, <2>1, <2>4, LocalStep DEF Points
<1>7. CASE (\E reserved \in Reservations : BeginCall(p, reserved)) \/ Retry(p)
  <2> DEFINE at == pc'[p]
             c2 == call'[p]
  <2>1. c2 \in Calls
    <3>1. ASSUME NEW reserved \in Reservations, BeginCall(p, reserved) PROVE c2 \in Calls
      <4>1. c2 = NewCall(reserved, 1) /\ reserved \in Nat
          BY <1>s, <3>1, AmountsAssumption DEF BeginCall
      <4> QED
          BY <4>1, <1>c
    <3>2. ASSUME Retry(p) PROVE c2 \in Calls
      <4>1. c2 = NewCall(c.reserved, c.attempt + 1) /\ c.reserved \in Nat /\ c.attempt + 1 \in 0..3
          BY <1>s, <1>t, <3>2 DEF Retry, Calls
      <4> QED
          BY <4>1, <1>c
    <3> QED
        BY <1>7, <3>1, <3>2
  <2>2. Touch(p, disk[r], m, at, c2, bill[r], excess[r])
      BY <1>7, <1>s, <1>t DEF Touch, BeginCall, Retry, Goto, locks, provider
  <2>3. at \in {"await", "handler"} /\ pc[p] \in {"idle", "failed"}
      BY <1>7, <1>s DEF BeginCall, Retry, Goto
  <2> HIDE DEF at, c2
  <2>4. at \in Points \ (InCost \cup {"overrun"})
      BY <2>3 DEF Points, InCost
  <2>5. Fits(r, disk[r], m, at, c2, bill[r], excess[r])
      BY <1>f, <2>3, <2>4, MoveFits
  <2> QED
      BY <1>l, <1>t, <1>a, <2>1, <2>2, <2>3, <2>4, <2>5, LocalStep
<1>8. CASE ReserveCost(p)
  <2>1. PICK k \in Numbers :
            /\ call' = [call EXCEPT ![p].number = k]
            /\ mem' = [mem EXCEPT ![p] = [mem[p] EXCEPT !.counter = k, !.cost = @ + call[p].reserved]]
      BY <1>8 DEF ReserveCost, Assign
  <2>2. k \in Nat
      BY AmountsAssumption DEF Numbers
  <2> DEFINE m2 == [m EXCEPT !.counter = k, !.cost = @ + c.reserved]
             c2 == [c EXCEPT !.number = k]
  <2>3. Touch(p, disk[r], m2, "enter", c2, bill[r], excess[r])
      BY <1>8, <1>s, <1>t, <2>1 DEF Touch, ReserveCost, Goto, locks, provider
  <2>4. c2 \in Calls /\ c2.reserved = c.reserved
      BY <1>t, <2>2 DEF Calls
  <2>5. /\ m2 \in Ledgers /\ m2.cost = m.cost + c.reserved /\ m2.overflow = m.overflow
        /\ m2.settled = m.settled /\ m2.pending = m.pending
    <3>1. m.cost + c.reserved \in Nat
        BY <1>n
    <3> QED
        BY <1>t, <2>2, <3>1 DEF Ledgers
  <2>6. pc[p] = "check" /\ m.cost + c.reserved <= MaxCost
      BY <1>8 DEF ReserveCost, Admits, Goto
  <2>7. Fits(r, disk[r], m2, "enter", c2, bill[r], excess[r])
    <3> HIDE DEF m, c, m2, c2
    <3> USE <1>n, <1>t DEF InCost, Answered
    <3>1. Funded(m2, "enter", c2)
        BY <2>4, <2>5 DEF Funded
    <3>2. Tight(m) => Balanced(m2, "enter", c2)
        BY <2>4, <2>5, <2>6 DEF Balanced, Tight
    <3>3. ASSUME Owned(disk[r], m, "check", c, bill[r], excess[r])
          PROVE  Owned(disk[r], m2, "enter", c2, bill[r], excess[r])
        BY <2>4, <2>5, <3>3 DEF Owned, Booked, Covering
    <3> QED
        BY <1>f, <2>6, <3>1, <3>2, <3>3 DEF Fits, Balanced
  <2> QED
      BY <1>l, <1>t, <1>a, <2>3, <2>4, <2>5, <2>6, <2>7, LocalStep DEF Points
<1>9. CASE EnterPending(p)
  <2> DEFINE m2 == [m EXCEPT !.pending = @ + c.reserved]
  <2>1. Touch(p, disk[r], m2, "publish", c, bill[r], excess[r]) /\ pc[p] = "enter"
      BY <1>9, <1>s, <1>t DEF Touch, EnterPending, Assign, Goto, locks, provider
  <2>2. /\ m2 \in Ledgers /\ m2.cost = m.cost /\ m2.overflow = m.overflow
        /\ m2.settled = m.settled /\ m2.pending = m.pending + c.reserved
    <3>1. m.pending + c.reserved \in Nat
        BY <1>n
    <3> QED
        BY <1>t, <3>1 DEF Ledgers
  <2>3. Fits(r, disk[r], m2, "publish", c, bill[r], excess[r])
    <3> HIDE DEF m, c, m2
    <3> USE <1>n, <1>t DEF InCost, Answered
    <3>1. Funded(m, "enter", c) => Funded(m2, "publish", c)
        BY <2>2 DEF Funded
    <3>2. Balanced(m, "enter", c) => Balanced(m2, "publish", c)
        BY <2>2 DEF Balanced, Tight
    <3>3. ASSUME Owned(disk[r], m, "enter", c, bill[r], excess[r])
          PROVE  Owned(disk[r], m2, "publish", c, bill[r], excess[r])
        BY <2>2, <3>3 DEF Owned, Booked, Covering
    <3> QED
        BY <1>f, <2>1, <3>1, <3>2, <3>3 DEF Fits
  <2> QED
      BY <1>l, <1>t, <1>a, <2>1, <2>2, <2>3, LocalStep DEF Points
<1>10. CASE PublishReservation(p)
  <2>1. Touch(p, m, m, "record", c, bill[r], excess[r]) /\ pc[p] = "publish"
      BY <1>10, <1>s, <1>t DEF Touch, PublishReservation, Save, Goto, locks, provider
  <2>2. Fits(r, m, m, "record", c, bill[r], excess[r])
      BY <1>f, <2>1 DEF InCost, Answered, Fits, Funded, Balanced, Owned, Booked
  <2> QED
      BY <1>l, <1>t, <1>a, <2>1, <2>2, LocalStep DEF Points
<1>11. CASE Send(p)
  <2>1. PICK k \in Charges :
            /\ call' = [call EXCEPT ![p].charged = k]
            /\ bill' = [bill EXCEPT ![r] = @ + k]
            /\ excess' = [excess EXCEPT ![r] = @ + Above(k, call[p].reserved)]
      BY <1>11 DEF Send
  <2> DEFINE c2 == [c EXCEPT !.charged = k]
             b2 == bill[r] + k
             x2 == excess[r] + Above(k, c.reserved)
  <2>2. Touch(p, disk[r], m, "sent", c2, b2, x2) /\ pc[p] = "send"
      BY <1>11, <1>s, <1>t, <2>1 DEF Touch, Send, Goto, locks
  <2>3. k \in Nat
      BY AmountsAssumption
  <2>4. c2 \in Calls /\ c2.reserved = c.reserved /\ c2.charged = k
      BY <1>t, <2>3 DEF Calls
  <2>5. Above(k, c.reserved) \in Nat /\ k <= c.reserved + Above(k, c.reserved)
      BY <1>n, <2>3 DEF Above
  <2>6. b2 \in Nat /\ x2 \in Nat
      BY <1>t, <2>3, <2>5
  <2>7. Fits(r, disk[r], m, "sent", c2, b2, x2)
    <3> HIDE DEF m, c, c2
    <3> USE <1>n, <1>t, <2>3, <2>4, <2>5 DEF InCost, Answered
    <3>1. Funded(m, "send", c) => Funded(m, "sent", c2)
        BY DEF Funded
    <3>2. Balanced(m, "send", c) => Balanced(m, "sent", c2)
        BY DEF Balanced
    <3>3. ASSUME Owned(disk[r], m, "send", c, bill[r], excess[r])
          PROVE  Owned(disk[r], m, "sent", c2, b2, x2)
      <4>1. /\ bill[r] + m.overflow + c.reserved <= m.cost + excess[r]
            /\ bill[r] + disk[r].overflow + c.reserved <= disk[r].cost + excess[r]
          BY <3>3 DEF Owned, Booked
      <4>2. Covering(disk[r], b2, x2) /\ Covering(m, b2, x2)
          BY <4>1 DEF Covering
      <4>3. b2 + m.overflow + c2.reserved + Above(c2.charged, c2.reserved) <= m.cost + x2 + c2.charged
          BY <4>1
      <4> QED
          BY <4>2, <4>3 DEF Owned, Booked
    <3> QED
        BY <1>f, <2>2, <3>1, <3>2, <3>3 DEF Fits
  <2> QED
      BY <1>l, <1>t, <1>a, <2>2, <2>4, <2>6, <2>7, LocalStep DEF Points
<1>12. CASE PopPending(p)
  <2> DEFINE m2 == [m EXCEPT !.pending = @ - c.reserved]
  <2>1. Touch(p, disk[r], m2, "adjust", c, bill[r], excess[r]) /\ pc[p] = "pop"
      BY <1>12, <1>s, <1>t DEF Touch, PopPending, Assign, Goto, locks, provider
  <2>2. /\ m2 \in Ledgers /\ m2.cost = m.cost /\ m2.overflow = m.overflow
        /\ m2.settled = m.settled /\ m2.pending = m.pending - c.reserved
    <3>1. c.reserved <= m.pending
        BY <1>f, <2>1 DEF Fits, Funded, InCost
    <3>2. m.pending - c.reserved \in Nat
        BY <1>n, <3>1
    <3> QED
        BY <1>t, <3>2 DEF Ledgers
  <2>3. Fits(r, disk[r], m2, "adjust", c, bill[r], excess[r])
    <3> HIDE DEF m, c, m2
    <3> USE <1>n, <1>t DEF InCost, Answered
    <3>1. Funded(m, "pop", c) => Funded(m2, "adjust", c)
        BY <2>2 DEF Funded
    <3>2. Balanced(m, "pop", c) => Balanced(m2, "adjust", c)
        BY <2>2 DEF Balanced, Tight
    <3>3. ASSUME Owned(disk[r], m, "pop", c, bill[r], excess[r])
          PROVE  Owned(disk[r], m2, "adjust", c, bill[r], excess[r])
        BY <2>2, <3>3 DEF Owned, Booked, Covering
    <3> QED
        BY <1>f, <2>1, <3>1, <3>2, <3>3 DEF Fits
  <2> QED
      BY <1>l, <1>t, <1>a, <2>1, <2>2, <2>3, LocalStep DEF Points
<1>13. CASE AdjustCost(p)
  <2> DEFINE m2 == [m EXCEPT !.cost = @ - c.reserved + c.charged]
  <2>1. Touch(p, disk[r], m2, "overrun", c, bill[r], excess[r]) /\ pc[p] = "adjust"
      BY <1>13, <1>s, <1>t DEF Touch, AdjustCost, Assign, Goto, locks, provider
  <2>2. /\ m2 \in Ledgers /\ m2.cost = m.cost - c.reserved + c.charged
        /\ m2.overflow = m.overflow /\ m2.settled = m.settled /\ m2.pending = m.pending
    <3>1. c.reserved <= m.cost
        BY <1>f, <2>1 DEF Fits, Funded, InCost
    <3>2. m.cost - c.reserved + c.charged \in Nat
        BY <1>n, <3>1
    <3> QED
        BY <1>t, <3>2 DEF Ledgers
  <2>3. Fits(r, disk[r], m2, "overrun", c, bill[r], excess[r])
    <3> HIDE DEF m, c, m2
    <3> USE <1>n, <1>t DEF InCost, Answered
    <3>1. Funded(m2, "overrun", c)
        BY DEF Funded
    <3>2. ASSUME Balanced(m, "adjust", c) PROVE Balanced(m2, "overrun", c)
      <4>1. m.cost = m.settled + m.pending + c.reserved /\ m.cost <= MaxCost + m.overflow
          BY <3>2 DEF Balanced
      <4>2. c.charged <= c.reserved + Above(c.charged, c.reserved)
          BY Amounts
      <4> QED
          BY <2>2, <4>1, <4>2 DEF Balanced
    <3>3. ASSUME Owned(disk[r], m, "adjust", c, bill[r], excess[r])
          PROVE  Owned(disk[r], m2, "overrun", c, bill[r], excess[r])
        BY <2>2, <3>3 DEF Owned, Booked, Covering
    <3> QED
        BY <1>f, <2>1, <3>1, <3>2, <3>3 DEF Fits
  <2> QED
      BY <1>l, <1>t, <1>a, <2>1, <2>2, <2>3, LocalStep DEF Points
<1>14. CASE SettleOverrun(p)
  <2> DEFINE m2 == [m EXCEPT !.overflow = @ + Above(c.charged, c.reserved), !.settled = @ + c.charged]
  <2>1. Touch(p, disk[r], m2, "publish_settle", c, bill[r], excess[r]) /\ pc[p] = "overrun"
      BY <1>14, <1>s, <1>t DEF Touch, SettleOverrun, Assign, Goto, locks, provider
  <2>2. /\ m2 \in Ledgers /\ m2.cost = m.cost /\ m2.pending = m.pending
        /\ m2.overflow = m.overflow + Above(c.charged, c.reserved)
        /\ m2.settled = m.settled + c.charged
    <3>1. m.overflow + Above(c.charged, c.reserved) \in Nat /\ m.settled + c.charged \in Nat
        BY <1>n
    <3> QED
        BY <1>t, <3>1 DEF Ledgers
  <2>3. Fits(r, disk[r], m2, "publish_settle", c, bill[r], excess[r])
    <3> HIDE DEF m, c, m2
    <3> USE <1>n, <1>t DEF InCost, Answered
    <3>1. Funded(m2, "publish_settle", c)
        BY DEF Funded
    <3>2. Balanced(m, "overrun", c) => Balanced(m2, "publish_settle", c)
        BY <2>2 DEF Balanced, Tight
    <3>3. ASSUME Owned(disk[r], m, "overrun", c, bill[r], excess[r])
          PROVE  Owned(disk[r], m2, "publish_settle", c, bill[r], excess[r])
        BY <2>2, <3>3 DEF Owned, Booked, Covering
    <3> QED
        BY <1>f, <2>1, <3>1, <3>2, <3>3 DEF Fits
  <2> QED
      BY <1>l, <1>t, <1>a, <2>1, <2>2, <2>3, LocalStep DEF Points
<1>15. CASE PublishSettlement(p)
  <2>1. Touch(p, m, m, "idle", NoCall, bill[r], excess[r]) /\ pc[p] = "publish_settle"
      BY <1>15, <1>s, <1>t DEF Touch, PublishSettlement, Save, Goto, locks, provider
  <2>2. "idle" \in Points \ (InCost \cup {"overrun"})
      BY DEF Points, InCost
  <2>3. Fits(r, m, m, "idle", NoCall, bill[r], excess[r])
      BY <1>f, <2>1, <2>2, MoveFits
  <2> QED
      BY <1>l, <1>t, <1>c, <1>a, <2>1, <2>2, <2>3, LocalStep
<1> QED
    BY <1>1, <1>2, <1>3, <1>4, <1>5, <1>6, <1>7, <1>8, <1>9, <1>10, <1>11, <1>12, <1>13, <1>14,
       <1>15 DEF Step

LEMMA InitInv == Init => IInv
<1> SUFFICES ASSUME Init PROVE IInv
    OBVIOUS
<1>1. TypeOK
    BY RunOfAssumption DEF Init, TypeOK, NewLedger, Ledgers, NoCall, NewCall, Calls, Points
<1>2. \A r \in Runs : Tight(disk[r]) /\ Covering(disk[r], bill[r], excess[r])
    BY AmountsAssumption DEF Init, Tight, Covering, NewLedger
<1>3. \A p \in Procs : pc[p] = "closed" /\ RunOf[p] \in Runs
    BY RunOfAssumption DEF Init
<1>4. \A p \in Procs : Fits(RunOf[p], disk[RunOf[p]], mem[p], pc[p], call[p],
                            bill[RunOf[p]], excess[RunOf[p]])
    BY <1>2, <1>3 DEF Fits, Funded, Balanced, Owned, InCost, Answered
<1> QED
    BY <1>1, <1>2, <1>3, <1>4 DEF IInv

LEMMA Inductive == IInv /\ [Next]_vars => IInv'
<1> SUFFICES ASSUME IInv, [Next]_vars PROVE IInv'
    OBVIOUS
<1>1. CASE Next
    BY <1>1, StepInv DEF Next
<1>2. CASE UNCHANGED vars
    BY <1>2 DEF vars, locks, provider, IInv, TypeOK, Fits, Funded, Tight, Balanced, Owned,
                Covering, Booked, Alone, Guarded, SoleControllers
<1> QED
    BY <1>1, <1>2

-----------------------------------------------------------------------------
\* Under all faults every amount stays a natural number: no settlement takes
\* more out of the cost or out of the pending reservations than was put in.
THEOREM Typing == Spec => []TypeOK
<1>1. IInv => TypeOK
    BY DEF IInv
<1> QED
    BY <1>1, InitInv, Inductive, PTL DEF Spec

\* Recorded cost is settled cost plus retained reservations, for every run,
\* unless a change of the ledger is interrupted: crashes and stale copies do
\* not disturb it.
THEOREM Balances ==
    ASSUME "interrupt" \notin Faults PROVE Spec => []AccountsBalance
<1>1. IInv => AccountsBalance
    BY DEF IInv, Tight, AccountsBalance
<1> QED
    BY <1>1, InitInv, Inductive, PTL DEF Spec

\* No run records more than its limit and its known overruns, under the same
\* faults.
THEOREM Caps ==
    ASSUME "interrupt" \notin Faults PROVE Spec => []RunCapped
<1>1. IInv => RunCapped
    BY DEF IInv, Tight, RunCapped
<1> QED
    BY <1>1, InitInv, Inductive, PTL DEF Spec

\* What the provider really charged is covered by what run.json records, up to
\* overruns that no answer reported, whenever processes crash and wherever they
\* are interrupted, as long as nobody opens a run that is open.
THEOREM Covers ==
    ASSUME "stale_open" \notin Faults PROVE Spec => []BillCovered
<1>1. IInv => BillCovered
    BY DEF IInv, Guarded, Covering, BillCovered
<1> QED
    BY <1>1, InitInv, Inductive, PTL DEF Spec

\* Under all faults the bill of a run with one controller is covered, whatever
\* the controllers of the other runs do.
THEOREM CoversInterrupted == Spec => []InterruptedBillCovered
<1>1. IInv => InterruptedBillCovered
    BY DEF IInv, Guarded, Covering, InterruptedBillCovered
<1> QED
    BY <1>1, InitInv, Inductive, PTL DEF Spec

-----------------------------------------------------------------------------
(* Request evidence, under every fault: a call number is chosen and used   *)
(* under the campaign lock, so nobody else writes evidence in between.     *)

Chosen == {"enter", "publish", "record"}
Locked == Chosen \cup {"check"}

FInv ==
    /\ requests \in [Runs -> SUBSET Nat]
    /\ pc \in [Procs -> Points]
    /\ call \in [Procs -> Calls]
    /\ \A p \in Procs : pc[p] \in Locked => campaign = p
    /\ \A p \in Procs : pc[p] \in Chosen => call[p].number \notin requests[RunOf[p]]

\* What FInv asks of a step of p that goes to at with call c: about the lock,
\* the number of the call and the evidence that is written.
FreshFor(p, at, c) ==
    /\ at \in Points /\ c \in Calls
    /\ pc' = [pc EXCEPT ![p] = at] /\ call' = [call EXCEPT ![p] = c]
    /\ \/ at \in Locked /\ campaign' = p /\ (campaign = NoProc \/ campaign = p)
       \/ at \notin Locked /\ (campaign' = campaign \/ Unlock(p) \/ LockCampaign(p))
    /\ at \in Chosen => c.number \notin requests[RunOf[p]]
    /\ \/ requests' = requests
       \/ /\ pc[p] = "record" /\ at \notin Locked
          /\ requests' = [requests EXCEPT ![RunOf[p]] = @ \cup {call[p].number}]

LEMMA FreshLocally ==
    ASSUME FInv, NEW p \in Procs, NEW at, NEW c, FreshFor(p, at, c)
    PROVE  FInv'
<1> USE RunOfAssumption, NoProcAssumption
<1>1. /\ (requests \in [Runs -> SUBSET Nat])'
      /\ (pc \in [Procs -> Points])'
      /\ (call \in [Procs -> Calls])'
    BY DEF FInv, FreshFor, Calls
<1>2. ASSUME NEW q \in Procs, pc'[q] \in Locked PROVE campaign' = q
  <2>1. CASE q = p
      BY <1>2, <2>1 DEF FInv, FreshFor
  <2>2. CASE q # p
    <3>1. pc'[q] = pc[q]
        BY <2>2 DEF FInv, FreshFor
    <3>2. campaign = q
        BY <1>2, <3>1 DEF FInv
    <3> QED
        BY <2>2, <3>2 DEF FreshFor, Unlock, LockCampaign
  <2> QED
      BY <2>1, <2>2
<1>3. ASSUME NEW q \in Procs, pc'[q] \in Chosen
      PROVE  call'[q].number \notin requests'[RunOf[q]]
  <2>1. CASE q = p
      BY <1>3, <2>1 DEF FInv, FreshFor, Locked
  <2>2. CASE q # p
    <3>1. pc'[q] = pc[q] /\ call'[q] = call[q]
        BY <2>2 DEF FInv, FreshFor
    <3>2. campaign = q /\ call[q].number \notin requests[RunOf[q]]
        BY <1>3, <3>1 DEF FInv, Locked
    <3>3. requests' = requests
        BY <2>2, <3>2 DEF FInv, FreshFor, Locked, Chosen
    <3> QED
        BY <3>1, <3>2, <3>3
  <2> QED
      BY <2>1, <2>2
<1> QED
    BY <1>1, <1>2, <1>3 DEF FInv

LEMMA FreshStep ==
    ASSUME FInv, NEW p \in Procs, Step(p) PROVE FInv'
<1> USE RunOfAssumption, NoProcAssumption, AmountsAssumption DEF Locked, Chosen
<1>t. /\ call[p] \in Calls /\ pc[p] \in Points
      /\ call = [call EXCEPT ![p] = call[p]]
    BY DEF FInv
<1>c. NoCall \in Calls /\ \A n \in 0..3, r \in Nat : NewCall(r, n) \in Calls
    BY DEF NoCall, NewCall, Calls
<1>1. CASE \/ Open(p) \/ Control(p) \/ GiveUp(p) \/ SaveRunning(p) \/ Leave(p)
           \/ Answer(p) \/ FailCall(p) \/ Abandon(p) \/ EnterSettlement(p)
           \/ PopPending(p) \/ AdjustCost(p) \/ SettleOverrun(p)
  <2>1. \E at \in Points \ Locked : FreshFor(p, at, call[p])
      BY <1>1, <1>t DEF Open, Control, GiveUp, SaveRunning, Leave, Answer, FailCall, Abandon,
         EnterSettlement, PopPending, AdjustCost, SettleOverrun, Goto, locks, FreshFor, Points
  <2> QED
      BY <2>1, FreshLocally
<1>2. CASE Close(p) \/ PublishSettlement(p) \/ Crash(p)
  <2>1. \E at \in Points \ Locked : FreshFor(p, at, NoCall)
      BY <1>2, <1>c DEF Close, PublishSettlement, Crash, Goto, FreshFor, Points
  <2> QED
      BY <2>1, FreshLocally
<1>3. CASE (\E reserved \in Reservations : BeginCall(p, reserved)) \/ Retry(p)
  <2>1. \E at \in Points \ Locked, c \in Calls : FreshFor(p, at, c)
    <3>1. ASSUME NEW reserved \in Reservations, BeginCall(p, reserved)
          PROVE  NewCall(reserved, 1) \in Calls
        BY <1>c
    <3>2. ASSUME Retry(p) PROVE NewCall(call[p].reserved, call[p].attempt + 1) \in Calls
        BY <1>t, <3>2 DEF Retry, NewCall, Calls
    <3> QED
        BY <1>3, <3>1, <3>2 DEF BeginCall, Retry, Goto, locks, FreshFor, Points
  <2> QED
      BY <2>1, FreshLocally
<1>4. CASE EnterCampaign(p)
  <2>1. FreshFor(p, "check", call[p])
      BY <1>4, <1>t DEF EnterCampaign, LockCampaign, Goto, FreshFor, Points
  <2> QED
      BY <2>1, FreshLocally
<1>5. CASE RefuseCall(p) \/ Interrupt(p)
  <2>1. FreshFor(p, "handler", call[p])
      BY <1>5, <1>t DEF RefuseCall, Interrupt, Goto, FreshFor, Points
  <2> QED
      BY <2>1, FreshLocally
<1>6. CASE ReserveCost(p)
  <2>1. PICK n \in Numbers : Unused(p, n) /\ call' = [call EXCEPT ![p].number = n]
      BY <1>6 DEF ReserveCost
  <2>2. n \in Nat
      BY <2>1 DEF Numbers
  <2>3. [call[p] EXCEPT !.number = n] \in Calls /\ [call[p] EXCEPT !.number = n].number = n
      BY <1>t, <2>2 DEF Calls
  <2>4. FreshFor(p, "enter", [call[p] EXCEPT !.number = n])
      BY <1>6, <2>1, <2>3 DEF FInv, ReserveCost, Unused, Goto, locks, FreshFor, Points
  <2> QED
      BY <2>4, FreshLocally
<1>7. CASE EnterPending(p) \/ PublishReservation(p)
  <2>1. \E at \in {"publish", "record"} : FreshFor(p, at, call[p])
      BY <1>7, <1>t DEF FInv, EnterPending, PublishReservation, Goto, locks, FreshFor, Points
  <2> QED
      BY <2>1, FreshLocally
<1>8. CASE RecordRequest(p)
  <2>1. FreshFor(p, "send", call[p])
      BY <1>8, <1>t DEF RecordRequest, Goto, FreshFor, Points
  <2> QED
      BY <2>1, FreshLocally
<1>9. CASE Send(p)
  <2>1. PICK c \in Charges : call' = [call EXCEPT ![p].charged = c]
      BY <1>9 DEF Send
  <2>2. [call[p] EXCEPT !.charged = c] \in Calls
      BY <1>t DEF Calls
  <2>3. FreshFor(p, "sent", [call[p] EXCEPT !.charged = c])
      BY <1>9, <2>1, <2>2 DEF FInv, Send, Goto, locks, FreshFor, Points
  <2> QED
      BY <2>3, FreshLocally
<1> QED
    BY <1>1, <1>2, <1>3, <1>4, <1>5, <1>6, <1>7, <1>8, <1>9 DEF Step

\* No request evidence is ever written over another one: with any number of
\* controllers of a run, stale copies, crashes and interrupts.
THEOREM KeepsRequests == Spec => []RequestsFresh
<1>1. Init => FInv
  <2> SUFFICES ASSUME Init PROVE FInv
      OBVIOUS
  <2> QED
      BY RunOfAssumption DEF Init, FInv, Locked, Chosen, Points, NoCall, NewCall, Calls
<1>2. FInv /\ [Next]_vars => FInv'
  <2> SUFFICES ASSUME FInv, [Next]_vars PROVE FInv'
      OBVIOUS
  <2>1. CASE Next
      BY <2>1, FreshStep DEF Next
  <2>2. CASE UNCHANGED vars
      BY <2>2 DEF vars, locks, FInv
  <2> QED
      BY <2>1, <2>2
<1>3. FInv => RequestsFresh
    BY DEF FInv, RequestsFresh, Chosen
<1> QED
    BY <1>1, <1>2, <1>3, PTL DEF Spec

-----------------------------------------------------------------------------
(* Sums over the runs of a campaign.                                        *)

PerRun == [Runs -> Nat]

LEMMA UnitsFinite ==
    ASSUME NEW S \in SUBSET Runs, NEW a \in PerRun
    PROVE  IsFiniteSet(Units(S, a)) /\ TotalOf(S, a) \in Nat
<1> DEFINE f == [r \in S |-> {r} \X (1..a[r])]
           T == {{r} \X (1..a[r]) : r \in S}
<1>1. IsFiniteSet(S)
    BY RunsAssumption, FS_Subset
<1>2. f \in Surjection(S, T)
    BY DEF Surjection
<1>3. IsFiniteSet(T)
    BY <1>1, <1>2, FS_Surjection
<1>4. ASSUME NEW r \in S PROVE IsFiniteSet({r} \X (1..a[r]))
  <2>1. a[r] \in Int /\ 1 \in Int
      BY DEF PerRun
  <2>2. IsFiniteSet({r}) /\ IsFiniteSet(1..a[r])
      BY <2>1, FS_Singleton, FS_Interval
  <2> QED
      BY <2>2, FS_Product
<1>5. \A t \in T : IsFiniteSet(t)
    BY <1>4
<1>6. IsFiniteSet(UNION T)
    BY <1>3, <1>5, FS_UNION
<1>7. IsFiniteSet(Units(S, a))
    BY <1>6 DEF Units
<1> QED
    BY <1>7, FS_CardinalityType DEF TotalOf

\* Adding k to the amount of one run of S adds k to the sum.
LEMMA TotalGrows ==
    ASSUME NEW S \in SUBSET Runs, NEW a \in PerRun, NEW r \in S, NEW k \in Nat
    PROVE  TotalOf(S, [a EXCEPT ![r] = @ + k]) = TotalOf(S, a) + k
<1> DEFINE b == [a EXCEPT ![r] = @ + k]
           I == (a[r] + 1)..(a[r] + k)
           D == {r} \X I
<1>1. a[r] \in Nat /\ b \in PerRun /\ b[r] = a[r] + k /\ \A q \in S \ {r} : b[q] = a[q]
    BY DEF PerRun
<1>2. 1..b[r] = (1..a[r]) \cup I
    BY <1>1
<1>3. Units(S, b) = Units(S, a) \cup D
  <2>1. ASSUME NEW u \in Units(S, b) PROVE u \in Units(S, a) \cup D
    <3>1. PICK q \in S : u \in {q} \X (1..b[q])
        BY DEF Units
    <3>2. CASE q = r
      <4>1. u \in {r} \X (1..a[r]) \/ u \in D
          BY <1>2, <3>1, <3>2
      <4> QED
          BY <4>1 DEF Units
    <3>3. CASE q # r
      <4>1. u \in {q} \X (1..a[q])
          BY <1>1, <3>1, <3>3
      <4> QED
          BY <4>1 DEF Units
    <3> QED
        BY <3>2, <3>3
  <2>2. ASSUME NEW u \in Units(S, a) PROVE u \in Units(S, b)
    <3>1. PICK q \in S : u \in {q} \X (1..a[q])
        BY DEF Units
    <3>2. 1..a[q] \subseteq 1..b[q]
        BY <1>1, <1>2
    <3>3. u \in {q} \X (1..b[q])
        BY <3>1, <3>2
    <3> QED
        BY <3>3 DEF Units
  <2>3. ASSUME NEW u \in D PROVE u \in Units(S, b)
    <3>1. u \in {r} \X (1..b[r])
        BY <1>2
    <3> QED
        BY <3>1 DEF Units
  <2> QED
      BY <2>1, <2>2, <2>3
<1>4. Units(S, a) \cap D = {}
  <2>1. SUFFICES ASSUME NEW u \in Units(S, a), u \in D PROVE FALSE
      OBVIOUS
  <2>2. PICK q \in S : u \in {q} \X (1..a[q])
      BY DEF Units
  <2>3. u[1] = q /\ u[1] = r /\ u[2] \in 1..a[q] /\ u[2] \in I
      BY <2>1, <2>2
  <2> QED
      BY <1>1, <2>3
<1>5. IsFiniteSet(D) /\ Cardinality(D) = k
  <2>1. a[r] + 1 \in Int /\ a[r] + k \in Int
      BY <1>1
  <2>2. IsFiniteSet(I) /\ Cardinality(I) = IF a[r] + 1 > a[r] + k THEN 0 ELSE (a[r] + k) - (a[r] + 1) + 1
      BY <2>1, FS_Interval
  <2>3. Cardinality(I) = k
      BY <1>1, <2>2
  <2>4. IsFiniteSet({r}) /\ Cardinality({r}) = 1
      BY FS_Singleton
  <2>5. IsFiniteSet(D) /\ Cardinality(D) = Cardinality({r}) * Cardinality(I)
      BY <2>2, <2>4, FS_Product
  <2>6. 1 * k = k
      OBVIOUS
  <2> QED
      BY <2>3, <2>4, <2>5, <2>6
<1>6. IsFiniteSet(Units(S, a)) /\ TotalOf(S, a) \in Nat
    BY UnitsFinite
<1> HIDE DEF D
<1>7. Cardinality(Units(S, a) \cup D)
         = Cardinality(Units(S, a)) + Cardinality(D) - Cardinality(Units(S, a) \cap D)
    BY <1>5, <1>6, FS_Union
<1>8. Cardinality(Units(S, a) \cap D) = 0
    BY <1>4, FS_EmptySet
<1>9. TotalOf(S, b) = Cardinality(Units(S, a) \cup D) /\ TotalOf(S, a) = Cardinality(Units(S, a))
    BY <1>3 DEF TotalOf
<1>10. TotalOf(S, b) = TotalOf(S, a) + k
    BY <1>5, <1>6, <1>7, <1>8, <1>9
<1> QED
    BY <1>10

\* A sum changes as much as the amount of the one run that changes, ...
LEMMA TotalChanges ==
    ASSUME NEW S \in SUBSET Runs, NEW a \in PerRun, NEW b \in PerRun, NEW r \in S,
           \A q \in Runs \ {r} : b[q] = a[q]
    PROVE  TotalOf(S, b) + a[r] = TotalOf(S, a) + b[r]
<1>1. a[r] \in Nat /\ b[r] \in Nat /\ TotalOf(S, a) \in Nat /\ TotalOf(S, b) \in Nat
    BY UnitsFinite DEF PerRun
<1>2. CASE a[r] <= b[r]
  <2>1. PICK k \in Nat : b[r] = a[r] + k
    <3>1. b[r] - a[r] \in Nat /\ b[r] = a[r] + (b[r] - a[r])
        BY <1>1, <1>2
    <3> QED
        BY <3>1
  <2>2. b = [a EXCEPT ![r] = @ + k]
      BY <2>1 DEF PerRun
  <2>3. TotalOf(S, [a EXCEPT ![r] = @ + k]) = TotalOf(S, a) + k
      BY TotalGrows
  <2> QED
      BY <1>1, <2>1, <2>2, <2>3
<1>3. CASE b[r] <= a[r]
  <2>1. PICK k \in Nat : a[r] = b[r] + k
    <3>1. a[r] - b[r] \in Nat /\ a[r] = b[r] + (a[r] - b[r])
        BY <1>1, <1>3
    <3> QED
        BY <3>1
  <2>2. a = [b EXCEPT ![r] = @ + k]
      BY <2>1 DEF PerRun
  <2>3. TotalOf(S, [b EXCEPT ![r] = @ + k]) = TotalOf(S, b) + k
      BY TotalGrows
  <2> QED
      BY <1>1, <2>1, <2>2, <2>3
<1> QED
    BY <1>1, <1>2, <1>3

\* ... and not at all when that run is not summed.
LEMMA TotalElsewhere ==
    ASSUME NEW S, NEW a, NEW b, \A q \in S : b[q] = a[q]
    PROVE  TotalOf(S, b) = TotalOf(S, a)
<1>1. Units(S, b) = Units(S, a)
    BY DEF Units
<1> QED
    BY <1>1 DEF TotalOf

-----------------------------------------------------------------------------
(* The campaign's limits.  Between the look at the limits and the save of   *)
(* the reservation nobody else changes a sum, because every such change is  *)
(* published under the campaign lock.                                       *)

Exclusive == {"check", "enter", "publish", "record", "pop", "adjust", "overrun", "publish_settle"}

\* What a process will publish differs from run.json by the change under way.
Ahead(d, m, at, c) ==
    /\ at \notin {"closed", "enter", "publish", "overrun", "publish_settle"} =>
          m.cost = d.cost /\ m.overflow = d.overflow
    /\ at \in {"enter", "publish"} => m.cost = d.cost + c.reserved /\ m.overflow = d.overflow
    /\ at \in {"overrun", "publish_settle"} => m.cost = d.cost - c.reserved + c.charged
    /\ at = "overrun" => m.overflow = d.overflow
    /\ at = "publish_settle" => m.overflow = d.overflow + Above(c.charged, c.reserved)

\* The sums that are limited.
Groups == {<<Runs, CampaignMax>>} \cup {<<InPhase(ph), PhaseMax[ph]>> : ph \in DOMAIN PhaseMax}

CapInv ==
    /\ IInv
    /\ \A p \in Procs : Ahead(disk[RunOf[p]], mem[p], pc[p], call[p])
    /\ \A p \in Procs : pc[p] \in Exclusive => campaign = p
    /\ \A g \in Groups : CostOf(g[1]) <= g[2] + OverflowOf(g[1])
    /\ \A p \in Procs : pc[p] \in {"enter", "publish"} =>
          \A g \in Groups : RunOf[p] \in g[1] => CostOf(g[1]) + call[p].reserved <= g[2]

LEMMA GroupTypes ==
    ASSUME NEW g \in Groups PROVE g[1] \in SUBSET Runs /\ g[2] \in Nat
  BY AmountsAssumption DEF Groups, InPhase

LEMMA Recorded ==
    ASSUME TypeOK
    PROVE  /\ [r \in Runs |-> disk[r].cost] \in PerRun
           /\ [r \in Runs |-> disk[r].overflow] \in PerRun
           /\ \A g \in Groups : CostOf(g[1]) \in Nat /\ OverflowOf(g[1]) \in Nat
<1>1. /\ [r \in Runs |-> disk[r].cost] \in PerRun
      /\ [r \in Runs |-> disk[r].overflow] \in PerRun
    BY DEF TypeOK, Ledgers, PerRun
<1> QED
    BY <1>1, GroupTypes, UnitsFinite DEF CostOf, OverflowOf

\* What a save of new amounts for one run does to a limited sum.
LEMMA SumsChange ==
    ASSUME TypeOK, TypeOK', NEW g \in Groups, NEW r \in Runs,
           \A q \in Runs \ {r} : disk'[q] = disk[q]
    PROVE  /\ r \notin g[1] => CostOf(g[1])' = CostOf(g[1]) /\ OverflowOf(g[1])' = OverflowOf(g[1])
           /\ r \in g[1] => /\ CostOf(g[1])' + disk[r].cost = CostOf(g[1]) + disk'[r].cost
                            /\ OverflowOf(g[1])' + disk[r].overflow = OverflowOf(g[1]) + disk'[r].overflow
<1> DEFINE S == g[1]
           c1 == [q \in Runs |-> disk[q].cost]
           c2 == [q \in Runs |-> disk'[q].cost]
           o1 == [q \in Runs |-> disk[q].overflow]
           o2 == [q \in Runs |-> disk'[q].overflow]
<1>1. S \in SUBSET Runs
    BY GroupTypes
<1>2. c1 \in PerRun /\ c2 \in PerRun /\ o1 \in PerRun /\ o2 \in PerRun
    BY DEF TypeOK, Ledgers, PerRun
<1>3. \A q \in Runs \ {r} : c2[q] = c1[q] /\ o2[q] = o1[q]
    OBVIOUS
<1>4. /\ c1[r] = disk[r].cost /\ c2[r] = disk'[r].cost
      /\ o1[r] = disk[r].overflow /\ o2[r] = disk'[r].overflow
    OBVIOUS
<1>5. /\ CostOf(S) = TotalOf(S, c1) /\ OverflowOf(S) = TotalOf(S, o1)
      /\ CostOf(S)' = TotalOf(S, c2) /\ OverflowOf(S)' = TotalOf(S, o2)
    BY DEF CostOf, OverflowOf, TotalOf, Units, Groups, InPhase
<1> HIDE DEF c1, c2, o1, o2, S
<1>6. r \notin S => TotalOf(S, c2) = TotalOf(S, c1) /\ TotalOf(S, o2) = TotalOf(S, o1)
    BY <1>1, <1>3, TotalElsewhere
<1>7. r \in S => /\ TotalOf(S, c2) + c1[r] = TotalOf(S, c1) + c2[r]
                 /\ TotalOf(S, o2) + o1[r] = TotalOf(S, o1) + o2[r]
    BY <1>1, <1>2, <1>3, TotalChanges
<1> QED
    BY <1>4, <1>5, <1>6, <1>7 DEF S

\* A step of p leaves the other processes and the other runs alone.
LEMMA OthersStay ==
    ASSUME TypeOK, NEW p \in Procs, Step(p)
    PROVE  /\ \A q \in Procs \ {p} : mem'[q] = mem[q] /\ pc'[q] = pc[q] /\ call'[q] = call[q]
           /\ \A r \in Runs \ {RunOf[p]} : disk'[r] = disk[r]
<1> USE DEF TypeOK, Goto, Assign, Save, provider, locks
<1>1. CASE \/ Open(p) \/ Control(p) \/ GiveUp(p) \/ SaveRunning(p) \/ Close(p) \/ Leave(p)
    BY <1>1 DEF Open, Control, GiveUp, SaveRunning, Close, Leave
<1>2. CASE \/ \E reserved \in Reservations : BeginCall(p, reserved)
           \/ EnterCampaign(p) \/ RefuseCall(p) \/ ReserveCost(p) \/ EnterPending(p)
           \/ PublishReservation(p) \/ RecordRequest(p)
    BY <1>2 DEF BeginCall, EnterCampaign, RefuseCall, ReserveCost, EnterPending,
                PublishReservation, RecordRequest
<1>3. CASE Send(p) \/ Answer(p) \/ FailCall(p) \/ Retry(p) \/ Abandon(p)
    BY <1>3 DEF Send, Answer, FailCall, Retry, Abandon
<1>4. CASE EnterSettlement(p) \/ PopPending(p) \/ AdjustCost(p) \/ SettleOverrun(p) \/ PublishSettlement(p)
    BY <1>4 DEF EnterSettlement, PopPending, AdjustCost, SettleOverrun, PublishSettlement
<1>5. CASE Crash(p) \/ Interrupt(p)
    BY <1>5 DEF Crash, Interrupt
<1> QED
    BY <1>1, <1>2, <1>3, <1>4, <1>5 DEF Step

LEMMA LockKept ==
    ASSUME CapInv, NEW p \in Procs, Step(p), NEW q \in Procs, pc'[q] \in Exclusive
    PROVE  campaign' = q
<1> USE NoProcAssumption DEF Exclusive, Goto, locks
<1>t. /\ pc \in [Procs -> Points] /\ campaign \in Procs \cup {NoProc}
      /\ \A u \in Procs : pc[u] \in Exclusive => campaign = u
    BY DEF CapInv, IInv, TypeOK
<1>1. CASE q # p
  <2>1. pc'[q] = pc[q]
      BY <1>1, OthersStay DEF CapInv, IInv
  <2>2. campaign = q
      BY <1>t, <2>1
  <2>3. campaign' = campaign \/ Unlock(p) \/ LockCampaign(p)
      BY DEF Step, Open, Control, GiveUp, SaveRunning, Close, Leave, BeginCall, EnterCampaign,
         RefuseCall, ReserveCost, EnterPending, PublishReservation, RecordRequest, Send, Answer,
         FailCall, Retry, Abandon, EnterSettlement, PopPending, AdjustCost, SettleOverrun,
         PublishSettlement, Crash, Interrupt
  <2> QED
      BY <1>1, <2>2, <2>3 DEF Unlock, LockCampaign
<1>2. CASE q = p
  <2>1. CASE \/ EnterCampaign(p) \/ EnterSettlement(p)
      BY <1>2, <2>1 DEF EnterCampaign, EnterSettlement, LockCampaign
  <2>2. CASE \/ ReserveCost(p) \/ EnterPending(p) \/ PublishReservation(p)
             \/ PopPending(p) \/ AdjustCost(p) \/ SettleOverrun(p)
    <3>1. pc[p] \in Exclusive /\ campaign' = campaign
        BY <2>2 DEF ReserveCost, EnterPending, PublishReservation, PopPending, AdjustCost, SettleOverrun
    <3> QED
        BY <1>t, <1>2, <3>1
  <2>3. CASE \/ Open(p) \/ Control(p) \/ GiveUp(p) \/ SaveRunning(p) \/ Close(p) \/ Leave(p)
             \/ \E reserved \in Reservations : BeginCall(p, reserved)
             \/ RefuseCall(p) \/ RecordRequest(p) \/ Send(p) \/ Answer(p) \/ FailCall(p) \/ Retry(p)
             \/ Abandon(p) \/ PublishSettlement(p) \/ Crash(p) \/ Interrupt(p)
    <3>1. pc'[p] \notin Exclusive
        BY <1>t, <2>3 DEF Open, Control, GiveUp, SaveRunning, Close, Leave, BeginCall, RefuseCall,
           RecordRequest, Send, Answer, FailCall, Retry, Abandon, PublishSettlement, Crash, Interrupt
    <3> QED
        BY <1>2, <3>1
  <2> QED
      BY <2>1, <2>2, <2>3 DEF Step
<1> QED
    BY <1>1, <1>2

\* Only the two publishes under the lock change what a run.json records as
\* cost or overrun; every other save writes the amounts that are there.
Quiet == \A r \in Runs : disk'[r].cost = disk[r].cost /\ disk'[r].overflow = disk[r].overflow

LEMMA AheadStep ==
    ASSUME Faults \subseteq {"crash"}, CapInv, NEW p \in Procs, Step(p)
    PROVE  /\ Ahead(disk'[RunOf[p]], mem'[p], pc'[p], call'[p])
           /\ Quiet \/ PublishReservation(p) \/ PublishSettlement(p)
<1> DEFINE r == RunOf[p]
           d == disk[r]
           m == mem[p]
           c == call[p]
<1>s. /\ disk \in [Runs -> Ledgers] /\ mem \in [Procs -> Ledgers] /\ pc \in [Procs -> Points]
      /\ call \in [Procs -> Calls]
    BY DEF CapInv, IInv, TypeOK
<1>t. r \in Runs /\ d \in Ledgers /\ m \in Ledgers /\ c \in Calls
    BY <1>s, RunOfAssumption
<1>a. Ahead(d, m, pc[p], c)
    BY DEF CapInv
<1>o. \A q \in Runs \ {r} : disk'[q] = disk[q]
    BY OthersStay DEF CapInv, IInv
<1> USE DEF Goto, Assign, Save, provider, locks
<1>1. CASE \/ Control(p) \/ Leave(p) \/ EnterCampaign(p) \/ RefuseCall(p) \/ RecordRequest(p)
           \/ Answer(p) \/ Abandon(p) \/ EnterSettlement(p)
  <2>1. /\ disk' = disk /\ mem' = mem /\ call' = call
        /\ pc'[p] \notin {"closed", "enter", "publish", "overrun", "publish_settle"}
        /\ pc[p] \notin {"closed", "enter", "publish", "overrun", "publish_settle"}
      BY <1>1, <1>s DEF Control, Leave, EnterCampaign, RefuseCall, RecordRequest, Answer, Abandon,
         EnterSettlement
  <2> QED
      BY <1>a, <2>1 DEF Ahead, Quiet
<1>2. CASE SaveRunning(p) \/ FailCall(p) \/ Close(p)
  <2>1. /\ disk'[r] = m
        /\ pc'[p] = "closed" \/ mem'[p] = m
        /\ pc'[p] \in {"closed", "idle", "failed"} /\ pc[p] \in {"locked", "sent", "handler"}
      BY <1>2, <1>s, <1>t DEF SaveRunning, FailCall, Close
  <2>2. m.cost = d.cost /\ m.overflow = d.overflow
      BY <1>a, <2>1 DEF Ahead
  <2> QED
      BY <1>o, <2>1, <2>2 DEF Ahead, Quiet
<1>3. CASE Open(p) \/ GiveUp(p) \/ Crash(p)
  <2>1. /\ disk' = disk
        /\ pc'[p] = "closed" \/ (pc'[p] = "opened" /\ mem'[p] = d)
      BY <1>3, <1>s, <1>t DEF Open, GiveUp, Crash
  <2> QED
      BY <2>1 DEF Ahead, Quiet
<1>4. CASE (\E reserved \in Reservations : BeginCall(p, reserved)) \/ Retry(p) \/ Send(p)
  <2>1. /\ disk' = disk /\ mem' = mem
        /\ pc'[p] \in {"await", "handler", "sent"} /\ pc[p] \in {"idle", "failed", "send"}
      BY <1>4, <1>s DEF BeginCall, Retry, Send
  <2> QED
      BY <1>a, <2>1 DEF Ahead, Quiet
<1>5. CASE ReserveCost(p) \/ EnterPending(p)
  <2>1. /\ disk' = disk /\ mem'[p].overflow = m.overflow /\ call'[p].reserved = c.reserved
        /\ \/ /\ pc[p] = "check" /\ pc'[p] = "enter" /\ mem'[p].cost = m.cost + c.reserved
           \/ /\ pc[p] = "enter" /\ pc'[p] = "publish" /\ mem'[p].cost = m.cost
    <3>1. CASE ReserveCost(p)
      <4>1. PICK k \in Numbers :
                /\ call' = [call EXCEPT ![p].number = k]
                /\ mem' = [mem EXCEPT ![p] = [mem[p] EXCEPT !.counter = k, !.cost = @ + call[p].reserved]]
          BY <3>1 DEF ReserveCost
      <4>2. mem'[p].overflow = m.overflow /\ mem'[p].cost = m.cost + c.reserved
          BY <1>s, <1>t, <4>1 DEF Ledgers
      <4>3. call'[p].reserved = c.reserved
          BY <1>s, <1>t, <4>1 DEF Calls
      <4>4. disk' = disk /\ pc[p] = "check" /\ pc'[p] = "enter"
          BY <1>s, <3>1 DEF ReserveCost
      <4> QED
          BY <4>2, <4>3, <4>4
    <3>2. CASE EnterPending(p)
        BY <1>s, <1>t, <3>2 DEF EnterPending, Ledgers
    <3> QED
        BY <1>5, <3>1, <3>2
  <2> QED
      BY <1>a, <2>1 DEF Ahead, Quiet
<1>6. CASE PopPending(p) \/ AdjustCost(p)
  <2>1. /\ disk' = disk /\ mem'[p].overflow = m.overflow /\ call' = call
        /\ \/ /\ pc[p] = "pop" /\ pc'[p] = "adjust" /\ mem'[p].cost = m.cost
           \/ /\ pc[p] = "adjust" /\ pc'[p] = "overrun"
              /\ mem'[p].cost = m.cost - c.reserved + c.charged
      BY <1>6, <1>s, <1>t DEF PopPending, AdjustCost, Ledgers
  <2> QED
      BY <1>a, <2>1 DEF Ahead, Quiet
<1>7. CASE SettleOverrun(p)
  <2>1. /\ disk' = disk /\ call' = call /\ mem'[p].cost = m.cost
        /\ mem'[p].overflow = m.overflow + Above(c.charged, c.reserved)
        /\ pc[p] = "overrun" /\ pc'[p] = "publish_settle"
      BY <1>7, <1>s, <1>t DEF SettleOverrun, Ledgers
  <2> QED
      BY <1>a, <2>1 DEF Ahead, Quiet
<1>8. CASE PublishReservation(p) \/ PublishSettlement(p)
  <2>1. disk'[r] = m /\ mem' = mem /\ pc'[p] \in {"record", "idle"}
      BY <1>8, <1>s, <1>t DEF PublishReservation, PublishSettlement
  <2> QED
      BY <1>8, <2>1 DEF Ahead
<1> QED
    BY <1>1, <1>2, <1>3, <1>4, <1>5, <1>6, <1>7, <1>8 DEF Step, Interrupt

\* The limits hold again after a publish, whose change was admitted, ...
LEMMA PublishKeeps ==
    ASSUME CapInv, TypeOK', NEW p \in Procs, PublishReservation(p) \/ PublishSettlement(p),
           NEW g \in Groups
    PROVE  (CostOf(g[1]) <= g[2] + OverflowOf(g[1]))'
<1> DEFINE r == RunOf[p]
           c == call[p]
<1>t. TypeOK /\ disk \in [Runs -> Ledgers] /\ call \in [Procs -> Calls] /\ r \in Runs /\ g[2] \in Nat
    BY RunOfAssumption, GroupTypes DEF CapInv, IInv, TypeOK
<1>p. /\ disk'[r] = mem[p] /\ \A q \in Runs \ {r} : disk'[q] = disk[q]
      /\ pc[p] = "publish" \/ pc[p] = "publish_settle"
      /\ pc[p] = "publish" <=> PublishReservation(p)
    BY <1>t DEF PublishReservation, PublishSettlement, Save, Goto
<1>a. Ahead(disk[r], mem[p], pc[p], c)
    BY DEF CapInv
<1>n. /\ CostOf(g[1]) \in Nat /\ OverflowOf(g[1]) \in Nat
      /\ CostOf(g[1])' \in Nat /\ OverflowOf(g[1])' \in Nat
  <2>1. CostOf(g[1]) \in Nat /\ OverflowOf(g[1]) \in Nat
      BY <1>t, Recorded
  <2>2. /\ [q \in Runs |-> disk'[q].cost] \in PerRun /\ [q \in Runs |-> disk'[q].overflow] \in PerRun
      BY DEF TypeOK, Ledgers, PerRun
  <2>3. g[1] \in SUBSET Runs
      BY GroupTypes
  <2>4. /\ CostOf(g[1])' = TotalOf(g[1], [q \in Runs |-> disk'[q].cost])
        /\ OverflowOf(g[1])' = TotalOf(g[1], [q \in Runs |-> disk'[q].overflow])
      BY DEF CostOf, OverflowOf, TotalOf, Units, Groups, InPhase
  <2> QED
      BY <2>1, <2>2, <2>3, <2>4, UnitsFinite
<1>d. /\ disk[r].cost \in Nat /\ disk[r].overflow \in Nat
      /\ c.reserved \in Nat /\ c.charged \in Nat /\ Above(c.charged, c.reserved) \in Nat
      /\ c.charged <= c.reserved + Above(c.charged, c.reserved)
  <2>1. disk[r] \in Ledgers /\ c \in Calls
      BY <1>t
  <2> QED
      BY <2>1, Amounts
<1>h. CostOf(g[1]) <= g[2] + OverflowOf(g[1])
    BY DEF CapInv
<1>c. /\ r \notin g[1] => CostOf(g[1])' = CostOf(g[1]) /\ OverflowOf(g[1])' = OverflowOf(g[1])
      /\ r \in g[1] => /\ CostOf(g[1])' + disk[r].cost = CostOf(g[1]) + disk'[r].cost
                       /\ OverflowOf(g[1])' + disk[r].overflow = OverflowOf(g[1]) + disk'[r].overflow
    BY <1>t, <1>p, SumsChange
<1>g. (g[1])' = g[1] /\ (g[2])' = g[2]
    OBVIOUS
<1> HIDE DEF c, r
<1>1. CASE r \notin g[1]
    BY <1>c, <1>h, <1>1
<1>2. CASE r \in g[1] /\ pc[p] = "publish"
  <2>1. disk'[r].cost = disk[r].cost + c.reserved /\ disk'[r].overflow = disk[r].overflow
      BY <1>a, <1>p, <1>2 DEF Ahead
  <2>2. CostOf(g[1]) + c.reserved <= g[2]
      BY <1>2 DEF CapInv, r, c
  <2> QED
      BY <1>c, <1>d, <1>n, <1>t, <1>2, <2>1, <2>2
<1>3. CASE r \in g[1] /\ pc[p] = "publish_settle"
  <2>1. /\ disk'[r].cost = disk[r].cost - c.reserved + c.charged
        /\ disk'[r].overflow = disk[r].overflow + Above(c.charged, c.reserved)
      BY <1>a, <1>p, <1>3 DEF Ahead
  <2> QED
      BY <1>c, <1>d, <1>h, <1>n, <1>t, <1>3, <2>1
<1> QED
    BY <1>p, <1>1, <1>2, <1>3

\* ... and any other step leaves the sums alone.
LEMMA QuietKeeps ==
    ASSUME Quiet, NEW g \in Groups
    PROVE  CostOf(g[1])' = CostOf(g[1]) /\ OverflowOf(g[1])' = OverflowOf(g[1])
<1>1. \A q \in g[1] : q \in Runs
    BY GroupTypes
<1> QED
    BY <1>1, TotalElsewhere DEF Quiet, CostOf, OverflowOf

LEMMA CapStep ==
    ASSUME Faults \subseteq {"crash"}, CapInv, NEW p \in Procs, Step(p)
    PROVE  CapInv'
<1>1. IInv' /\ TypeOK'
    BY StepInv DEF CapInv, IInv
<1>t. TypeOK /\ pc \in [Procs -> Points] /\ call \in [Procs -> Calls] /\ \A q \in Procs : RunOf[q] \in Runs
    BY RunOfAssumption DEF CapInv, IInv, TypeOK
<1>o. /\ \A q \in Procs \ {p} : mem'[q] = mem[q] /\ pc'[q] = pc[q] /\ call'[q] = call[q]
      /\ \A r \in Runs \ {RunOf[p]} : disk'[r] = disk[r]
    BY <1>t, OthersStay
<1>a. /\ Ahead(disk'[RunOf[p]], mem'[p], pc'[p], call'[p])
      /\ Quiet \/ PublishReservation(p) \/ PublishSettlement(p)
    BY AheadStep
<1>2. ASSUME NEW q \in Procs PROVE Ahead(disk'[RunOf[q]], mem'[q], pc'[q], call'[q])
  <2>1. CASE q = p
      BY <1>a, <2>1
  <2>2. CASE q # p /\ RunOf[q] # RunOf[p]
      BY <1>t, <1>o, <2>2 DEF CapInv
  <2>3. CASE q # p /\ RunOf[q] = RunOf[p]
    <3>1. Alone(p) \/ Alone(p)'
      <4>1. pc[p] # "closed" \/ pc'[p] # "closed"
          BY <1>t DEF Step, Open, Control, GiveUp, SaveRunning, Close, Leave, BeginCall, EnterCampaign,
             RefuseCall, ReserveCost, EnterPending, PublishReservation, RecordRequest, Send, Answer,
             FailCall, Retry, Abandon, EnterSettlement, PopPending, AdjustCost, SettleOverrun,
             PublishSettlement, Crash, Interrupt, Goto
      <4> QED
          BY <1>1, <4>1 DEF CapInv, IInv
    <3>2. pc'[q] = "closed"
        BY <1>o, <2>3, <3>1 DEF Alone
    <3> QED
        BY <3>2 DEF Ahead
  <2> QED
      BY <2>1, <2>2, <2>3
<1>3. \A q \in Procs : pc'[q] \in Exclusive => campaign' = q
    BY LockKept
<1>4. ASSUME NEW g \in Groups PROVE (CostOf(g[1]) <= g[2] + OverflowOf(g[1]))'
  <2>1. CASE Quiet
      BY <2>1, QuietKeeps DEF CapInv
  <2>2. CASE PublishReservation(p) \/ PublishSettlement(p)
      BY <1>1, <2>2, PublishKeeps
  <2> QED
      BY <1>a, <2>1, <2>2
<1>5. ASSUME NEW q \in Procs, pc'[q] \in {"enter", "publish"}, NEW g \in Groups, RunOf[q] \in g[1]
      PROVE  (CostOf(g[1]) + call[q].reserved <= g[2])'
  <2>1. CASE q # p
    <3>1. pc[q] = pc'[q] /\ call'[q] = call[q] /\ campaign = q
        BY <1>o, <1>5, <2>1 DEF CapInv, Exclusive
    <3>2. ~(PublishReservation(p) \/ PublishSettlement(p))
        BY <2>1, <3>1 DEF CapInv, Exclusive, PublishReservation, PublishSettlement, Goto
    <3>3. CostOf(g[1])' = CostOf(g[1])
        BY <1>a, <3>2, QuietKeeps
    <3> QED
        BY <1>5, <3>1, <3>3 DEF CapInv
  <2>2. CASE q = p /\ ReserveCost(p)
    <3>1. Admits(p) /\ call'[p].reserved = call[p].reserved
        BY <1>t, <2>2 DEF ReserveCost, Calls
    <3>2. CostOf(g[1]) + call[p].reserved <= g[2]
      <4>1. CASE g = <<Runs, CampaignMax>>
          BY <3>1, <4>1 DEF Admits
      <4>2. CASE \E ph \in DOMAIN PhaseMax : g = <<InPhase(ph), PhaseMax[ph]>>
        <5>1. PICK ph \in DOMAIN PhaseMax : g = <<InPhase(ph), PhaseMax[ph]>>
            BY <4>2
        <5>2. PhaseOf[RunOf[p]] = ph /\ g[1] = InPhase(ph) /\ g[2] = PhaseMax[ph]
            BY <1>5, <2>2, <5>1 DEF InPhase
        <5> QED
            BY <3>1, <5>1, <5>2 DEF Admits
      <4> QED
          BY <4>1, <4>2 DEF Groups
    <3>3. disk' = disk
        BY <2>2 DEF ReserveCost
    <3>4. Quiet
        BY <3>3 DEF Quiet
    <3> QED
        BY <2>2, <3>1, <3>2, <3>4, QuietKeeps
  <2>3. CASE q = p /\ EnterPending(p)
    <3>1. call' = call /\ disk' = disk /\ pc[p] = "enter"
        BY <2>3 DEF EnterPending, Goto
    <3>2. Quiet
        BY <3>1 DEF Quiet
    <3> QED
        BY <1>5, <2>3, <3>1, <3>2, QuietKeeps DEF CapInv
  <2>4. q = p => ReserveCost(p) \/ EnterPending(p)
      BY <1>t, <1>5 DEF Step, Open, Control, GiveUp, SaveRunning, Close, Leave, BeginCall, EnterCampaign,
         RefuseCall, PublishReservation, RecordRequest, Send, Answer, FailCall, Retry, Abandon,
         EnterSettlement, PopPending, AdjustCost, SettleOverrun, PublishSettlement, Crash, Interrupt, Goto
  <2> QED
      BY <2>1, <2>2, <2>3, <2>4
<1> QED
    BY <1>1, <1>2, <1>3, <1>4, <1>5 DEF CapInv, Ahead

LEMMA CapInit == Init => CapInv
<1> SUFFICES ASSUME Init PROVE CapInv
    OBVIOUS
<1>1. IInv
    BY InitInv
<1>2. \A p \in Procs : pc[p] = "closed"
    BY DEF Init
<1>3. ASSUME NEW g \in Groups PROVE CostOf(g[1]) <= g[2] + OverflowOf(g[1])
  <2>1. \A r \in g[1] : [q \in Runs |-> disk[q].cost][r] = 0
      BY GroupTypes DEF Init, NewLedger
  <2>2. Units(g[1], [q \in Runs |-> disk[q].cost]) = {}
    <3>1. SUFFICES ASSUME NEW u \in Units(g[1], [q \in Runs |-> disk[q].cost]) PROVE FALSE
        OBVIOUS
    <3>2. PICK r \in g[1] : u \in {r} \X (1..[q \in Runs |-> disk[q].cost][r])
        BY DEF Units
    <3>3. u[2] \in 1..0
        BY <2>1, <3>2
    <3> QED
        BY <3>3
  <2>3. CostOf(g[1]) = 0
      BY <2>2, FS_EmptySet DEF CostOf, TotalOf
  <2>4. OverflowOf(g[1]) \in Nat /\ g[2] \in Nat
      BY <1>1, Recorded, GroupTypes DEF IInv
  <2> QED
      BY <2>3, <2>4
<1> QED
    BY <1>1, <1>2, <1>3 DEF CapInv, Ahead, Exclusive

\* However the reservations of the runs interleave and wherever processes
\* crash, the runs of a campaign together never record more than its limit,
\* nor those of a capped phase more than theirs, but for known overruns.
THEOREM CapsCampaign ==
    ASSUME Faults \subseteq {"crash"} PROVE Spec => []CampaignCapped
<1>1. CapInv /\ [Next]_vars => CapInv'
  <2> SUFFICES ASSUME CapInv, [Next]_vars PROVE CapInv'
      OBVIOUS
  <2>1. CASE Next
      BY <2>1, CapStep DEF Next
  <2>2. CASE UNCHANGED vars
    <3>1. IInv'
        BY <2>2, Inductive DEF CapInv
    <3> QED
        BY <2>2, <3>1 DEF vars, locks, provider, CapInv, Ahead, CostOf, OverflowOf
  <2> QED
      BY <2>1, <2>2
<1>2. CapInv => CampaignCapped
  <2> SUFFICES ASSUME CapInv PROVE CampaignCapped
      OBVIOUS
  <2>1. /\ <<Runs, CampaignMax>> \in Groups
        /\ \A ph \in DOMAIN PhaseMax : <<InPhase(ph), PhaseMax[ph]>> \in Groups
      BY DEF Groups
  <2>2. CostOf(Runs) <= CampaignMax + OverflowOf(Runs)
      BY <2>1 DEF CapInv
  <2>3. ASSUME NEW ph \in DOMAIN PhaseMax
        PROVE  CostOf(InPhase(ph)) <= PhaseMax[ph] + OverflowOf(InPhase(ph))
    <3>1. <<InPhase(ph), PhaseMax[ph]>> \in Groups
        BY <2>1
    <3> QED
        BY <3>1 DEF CapInv
  <2> QED
      BY <2>2, <2>3 DEF CampaignCapped
<1> QED
    BY <1>1, <1>2, CapInit, PTL DEF Spec
=============================================================================
