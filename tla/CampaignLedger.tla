--------------------------- MODULE CampaignLedger ---------------------------
(***************************************************************************)
(* The money of a campaign: several runs under one runs root, each with    *)
(* its budget in run.json, that reserve the worst case of a provider call  *)
(* before it is sent and settle it afterwards (RunStore.reserve_call,      *)
(* settle_call, fail_call; LLMClient.complete drives them).                *)
(*                                                                         *)
(* disk[r] is the ledger part of run r's run.json; mem[p] is the copy in   *)
(* controller process p, which RunStore.open reads before Orchestrator.run *)
(* takes the run's lock.  Every save replaces the whole file, whoever      *)
(* holds which lock.  Costs are natural numbers of some smallest unit;     *)
(* pending_calls is abstracted to the sum of its reservations, and a run   *)
(* charges one phase, so its phase cost is its cost.                       *)
(***************************************************************************)
EXTENDS Naturals, FiniteSets

CONSTANTS Runs,          \* runs of the campaign
          Procs,         \* controller processes
          RunOf,         \* the run each process opens
          PhaseOf,       \* the phase each run charges
          PhaseMax,      \* phase_max_cost_cny; its domain: the capped phases
          Reservations,  \* reservations a request can need
          Charges,       \* what the provider can charge for a call
          MaxCost,       \* max_cost_cny of every run
          CampaignMax,   \* campaign_max_cost_cny
          MaxCalls,      \* bound: calls per run that the model explores
          Faults         \* what the environment may do, a subset of FaultKinds

\* "crash" kills a process; "interrupt" raises KeyboardInterrupt or the
\* deadline's BudgetExhausted between two of its steps; "stale_open" lets a
\* process open a run that another process has open.
FaultKinds == {"crash", "interrupt", "stale_open"}

NoProc == "none"          \* nobody holds the lock

ASSUME RunsAssumption == IsFiniteSet(Runs)
ASSUME RunOfAssumption == RunOf \in [Procs -> Runs]
ASSUME NoProcAssumption == NoProc \notin Procs
ASSUME AmountsAssumption ==
    /\ Reservations \subseteq Nat
    /\ Charges \subseteq Nat
    /\ MaxCost \in Nat
    /\ CampaignMax \in Nat
    /\ \A ph \in DOMAIN PhaseMax : PhaseMax[ph] \in Nat
    /\ MaxCalls \in Nat
ASSUME FaultsAssumption == Faults \subseteq FaultKinds

VARIABLES disk,        \* run -> its ledger in run.json
          mem,         \* process -> its copy of the ledger
          controller,  \* run -> the process that holds its .lock
          campaign,    \* the process that holds .campaign.lock
          requests,    \* run -> numbers with request evidence
          pc,          \* process -> where it is
          call,        \* process -> the call it is making
          bill,        \* run -> what the provider charged in truth
          excess       \* run -> how far charges went above their reservations

vars == <<disk, mem, controller, campaign, requests, pc, call, bill, excess>>
locks == <<controller, campaign>>
provider == <<bill, excess>>

-----------------------------------------------------------------------------
Ledgers == [cost : Nat,       \* budget.cost_cny: settled cost and reservations
            settled : Nat,    \* the sum of budget.settled_cny
            pending : Nat,    \* the reservations of pending_calls
            overflow : Nat,   \* liability_overflow_cny
            counter : Nat]    \* call_counter
Calls == [reserved : Nat, charged : Nat, number : Nat, attempt : 0..3]

NewLedger == [cost |-> 0, settled |-> 0, pending |-> 0, overflow |-> 0, counter |-> 0]
NewCall(r, n) == [reserved |-> r, charged |-> 0, number |-> 0, attempt |-> n]
NoCall == NewCall(0, 0)

Points == {"closed", "opened", "locked", "idle", "await", "check", "enter",
           "publish", "record", "send", "sent", "answered", "failed",
           "await_settle", "pop", "adjust", "overrun", "publish_settle", "handler"}

TypeOK ==
    /\ disk \in [Runs -> Ledgers]
    /\ mem \in [Procs -> Ledgers]
    /\ controller \in [Runs -> Procs \cup {NoProc}]
    /\ campaign \in Procs \cup {NoProc}
    /\ requests \in [Runs -> SUBSET Nat]
    /\ pc \in [Procs -> Points]
    /\ call \in [Procs -> Calls]
    /\ bill \in [Runs -> Nat]
    /\ excess \in [Runs -> Nat]

Init ==
    /\ disk = [r \in Runs |-> NewLedger]
    /\ mem = [p \in Procs |-> NewLedger]
    /\ controller = [r \in Runs |-> NoProc]
    /\ campaign = NoProc
    /\ requests = [r \in Runs |-> {}]
    /\ pc = [p \in Procs |-> "closed"]
    /\ call = [p \in Procs |-> NoCall]
    /\ bill = [r \in Runs |-> 0]
    /\ excess = [r \in Runs |-> 0]

-----------------------------------------------------------------------------
Goto(p, from, to) == pc[p] = from /\ pc' = [pc EXCEPT ![p] = to]
Save(p) == disk' = [disk EXCEPT ![RunOf[p]] = mem[p]]       \* RunStore.save
Assign(p, ledger) == mem' = [mem EXCEPT ![p] = ledger]
Above(c, reserved) == IF c > reserved THEN c - reserved ELSE 0

\* file_lock and flock: the campaign lock blocks until it is free.
LockCampaign(p) == campaign = NoProc /\ campaign' = p
Unlock(p) == campaign' = IF campaign = p THEN NoProc ELSE campaign

\* What the run.json files of S add up to (campaign_cost_cny): a ledger counts
\* as many units as the amount it records.
Units(S, amount) == UNION {{r} \X (1..amount[r]) : r \in S}
TotalOf(S, amount) == Cardinality(Units(S, amount))
CostOf(S) == TotalOf(S, [r \in Runs |-> disk[r].cost])
OverflowOf(S) == TotalOf(S, [r \in Runs |-> disk[r].overflow])
InPhase(ph) == {r \in Runs : PhaseOf[r] = ph}

-----------------------------------------------------------------------------
(* Opening and leaving a run.                                              *)

\* RunStore.open reads run.json, under no lock.
Open(p) ==
    /\ Goto(p, "closed", "opened")
    /\ "stale_open" \in Faults
       \/ \A q \in Procs : RunOf[q] = RunOf[p] => pc[q] = "closed"
    /\ Assign(p, disk[RunOf[p]])
    /\ UNCHANGED <<disk, locks, requests, call, provider>>

\* Orchestrator.run takes the run's lock ...
Control(p) ==
    /\ Goto(p, "opened", "locked")
    /\ controller[RunOf[p]] = NoProc
    /\ controller' = [controller EXCEPT ![RunOf[p]] = p]
    /\ UNCHANGED <<disk, mem, campaign, requests, call, provider>>

\* ... or finds it taken and gives up (RunStoreError: already controlled).
GiveUp(p) ==
    /\ controller[RunOf[p]] # NoProc
    /\ Goto(p, "opened", "closed")
    /\ Assign(p, NewLedger)
    /\ UNCHANGED <<disk, locks, requests, call, provider>>

\* status = "running" and the save that publishes it.
SaveRunning(p) ==
    /\ Goto(p, "locked", "idle")
    /\ Save(p)
    /\ UNCHANGED <<mem, locks, requests, call, provider>>

\* The run ends: its handler saves, and the lock is released.
Close(p) ==
    /\ Goto(p, "handler", "closed")
    /\ Save(p)
    /\ Assign(p, NewLedger)
    /\ controller' = [controller EXCEPT ![RunOf[p]] = NoProc]
    /\ call' = [call EXCEPT ![p] = NoCall]
    /\ UNCHANGED <<campaign, requests, provider>>

\* A limit outside the ledger, an error, or the end of the work.
Leave(p) ==
    /\ Goto(p, "idle", "handler")
    /\ UNCHANGED <<disk, mem, locks, requests, call, provider>>

-----------------------------------------------------------------------------
(* reserve_call.                                                           *)

\* check_budget reads only this process's copy.
BudgetOpen(p) == mem[p].overflow = 0 /\ mem[p].cost < MaxCost

BeginCall(p, reserved) ==
    /\ Goto(p, "idle", IF BudgetOpen(p) THEN "await" ELSE "handler")
    /\ mem[p].counter < MaxCalls
    /\ call' = [call EXCEPT ![p] = NewCall(reserved, 1)]
    /\ UNCHANGED <<disk, mem, locks, requests, provider>>

\* Mutant of EnterCampaign: reserving under the run's own lock only.
EnterUnlocked(p) ==
    /\ Goto(p, "await", "check")
    /\ campaign' = p
    /\ UNCHANGED <<disk, mem, controller, requests, call, provider>>

EnterCampaign(p) ==
    /\ Goto(p, "await", "check")
    /\ LockCampaign(p)
    /\ UNCHANGED <<disk, mem, controller, requests, call, provider>>

\* Mutants of Admits, each without one of its limits.
AdmitsAboveRun(p) ==
    /\ \A r \in Runs : disk[r].overflow = 0
    /\ CostOf(Runs) + call[p].reserved <= CampaignMax

\* The limits, read from every run.json of the campaign and from mem[p].
Admits(p) ==
    LET reserved == call[p].reserved
        phase == PhaseOf[RunOf[p]]
    IN  /\ \A r \in Runs : disk[r].overflow = 0
        /\ phase \in DOMAIN PhaseMax => CostOf(InPhase(phase)) + reserved <= PhaseMax[phase]
        /\ CostOf(Runs) + reserved <= CampaignMax
        /\ mem[p].cost + reserved <= MaxCost

RefuseCall(p) ==
    /\ ~Admits(p)
    /\ Goto(p, "check", "handler")
    /\ Unlock(p)
    /\ UNCHANGED <<disk, mem, controller, requests, call, provider>>

Numbers == 1..(2 * MaxCalls)        \* bound: call numbers that the model explores

\* Mutant of Unused: orphan request evidence is not looked for.
UnusedByCounter(p, n) == n > mem[p].counter

\* A number after the counter that no request evidence carries.
Unused(p, n) == n > mem[p].counter /\ n \notin requests[RunOf[p]]

\* The first unused number becomes the counter, and the costs grow ...
ReserveCost(p) ==
    /\ Admits(p)
    /\ Goto(p, "check", "enter")
    /\ \E n \in Numbers :
        /\ Unused(p, n)
        /\ \A k \in 1..(n-1) : ~Unused(p, k)
        /\ call' = [call EXCEPT ![p].number = n]
        /\ Assign(p, [mem[p] EXCEPT !.counter = n, !.cost = @ + call[p].reserved])
    /\ UNCHANGED <<disk, locks, requests, provider>>

\* ... the call is entered in pending_calls ...
EnterPending(p) ==
    /\ Goto(p, "enter", "publish")
    /\ Assign(p, [mem[p] EXCEPT !.pending = @ + call[p].reserved])
    /\ UNCHANGED <<disk, locks, requests, call, provider>>

\* Mutant of PublishReservation: the call goes out before run.json is saved.
DeferReservation(p) ==
    /\ Goto(p, "publish", "record")
    /\ UNCHANGED <<disk, mem, locks, requests, call, provider>>

\* ... run.json is replaced, and only then the request evidence is written.
PublishReservation(p) ==
    /\ Goto(p, "publish", "record")
    /\ Save(p)
    /\ UNCHANGED <<mem, locks, requests, call, provider>>

RecordRequest(p) ==
    /\ Goto(p, "record", "send")
    /\ requests' = [requests EXCEPT ![RunOf[p]] = @ \cup {call[p].number}]
    /\ Unlock(p)
    /\ UNCHANGED <<disk, mem, controller, call, provider>>

-----------------------------------------------------------------------------
(* The provider, and what LLMClient.complete makes of its answer.          *)

\* The provider charges c for the call, whether or not its answer arrives.
Send(p) ==
    /\ Goto(p, "send", "sent")
    /\ \E c \in Charges :
        /\ call' = [call EXCEPT ![p].charged = c]
        /\ bill' = [bill EXCEPT ![RunOf[p]] = @ + c]
        /\ excess' = [excess EXCEPT ![RunOf[p]] = @ + Above(c, call[p].reserved)]
    /\ UNCHANGED <<disk, mem, locks, requests>>

\* A usable answer, persisted as response evidence.
Answer(p) ==
    /\ Goto(p, "sent", "await_settle")
    /\ UNCHANGED <<disk, mem, locks, requests, call, provider>>

\* Mutant of FailCall: a failed call is taken to be free.
ReleaseFailed(p) ==
    /\ Goto(p, "sent", "failed")
    /\ Assign(p, [mem[p] EXCEPT !.cost = @ - call[p].reserved])
    /\ disk' = [disk EXCEPT ![RunOf[p]] = mem'[p]]
    /\ UNCHANGED <<locks, requests, call, provider>>

\* A lost or unusable answer: fail_call keeps the reservation and saves.
FailCall(p) ==
    /\ Goto(p, "sent", "failed")
    /\ Save(p)
    /\ UNCHANGED <<mem, locks, requests, call, provider>>

\* A retryable failure reserves anew, three attempts in all.
Retry(p) ==
    /\ call[p].attempt < 3
    /\ mem[p].counter < MaxCalls
    /\ Goto(p, "failed", IF BudgetOpen(p) THEN "await" ELSE "handler")
    /\ call' = [call EXCEPT ![p] = NewCall(call[p].reserved, call[p].attempt + 1)]
    /\ UNCHANGED <<disk, mem, locks, requests, provider>>

Abandon(p) ==
    /\ Goto(p, "failed", "handler")
    /\ UNCHANGED <<disk, mem, locks, requests, call, provider>>

-----------------------------------------------------------------------------
(* settle_call.                                                            *)

EnterSettlement(p) ==
    /\ Goto(p, "await_settle", "pop")
    /\ LockCampaign(p)
    /\ UNCHANGED <<disk, mem, controller, requests, call, provider>>

PopPending(p) ==
    /\ Goto(p, "pop", "adjust")
    /\ Assign(p, [mem[p] EXCEPT !.pending = @ - call[p].reserved])
    /\ UNCHANGED <<disk, locks, requests, call, provider>>

\* Mutants of AdjustCost: the sign is swapped; the charge is forgotten.
RefundCharge(p) ==
    /\ Goto(p, "adjust", "overrun")
    /\ Assign(p, [mem[p] EXCEPT !.cost = @ - call[p].charged])
    /\ UNCHANGED <<disk, locks, requests, call, provider>>
DropCharge(p) ==
    /\ Goto(p, "adjust", "overrun")
    /\ Assign(p, [mem[p] EXCEPT !.cost = @ - call[p].reserved])
    /\ UNCHANGED <<disk, locks, requests, call, provider>>

AdjustCost(p) ==
    /\ Goto(p, "adjust", "overrun")
    /\ Assign(p, [mem[p] EXCEPT !.cost = @ - call[p].reserved + call[p].charged])
    /\ UNCHANGED <<disk, locks, requests, call, provider>>

SettleOverrun(p) ==
    /\ Goto(p, "overrun", "publish_settle")
    /\ Assign(p, [mem[p] EXCEPT !.overflow = @ + Above(call[p].charged, call[p].reserved),
                                !.settled = @ + call[p].charged])
    /\ UNCHANGED <<disk, locks, requests, call, provider>>

PublishSettlement(p) ==
    /\ Goto(p, "publish_settle", "idle")
    /\ Save(p)
    /\ Unlock(p)
    /\ call' = [call EXCEPT ![p] = NoCall]
    /\ UNCHANGED <<mem, controller, requests, provider>>

-----------------------------------------------------------------------------
(* Faults.                                                                 *)

\* The process is killed; the kernel releases its locks.
Crash(p) ==
    /\ "crash" \in Faults
    /\ pc[p] # "closed"
    /\ pc' = [pc EXCEPT ![p] = "closed"]
    /\ Assign(p, NewLedger)
    /\ call' = [call EXCEPT ![p] = NoCall]
    /\ controller' = [controller EXCEPT ![RunOf[p]] = IF @ = p THEN NoProc ELSE @]
    /\ Unlock(p)
    /\ UNCHANGED <<disk, requests, provider>>

\* The exception leaves the campaign lock's block, then reaches the handler.
Interrupt(p) ==
    /\ "interrupt" \in Faults
    /\ pc[p] \notin {"closed", "opened", "handler"}
    /\ pc' = [pc EXCEPT ![p] = "handler"]
    /\ Unlock(p)
    /\ UNCHANGED <<disk, mem, controller, requests, call, provider>>

-----------------------------------------------------------------------------
Step(p) ==
    \/ Open(p) \/ Control(p) \/ GiveUp(p) \/ SaveRunning(p) \/ Close(p) \/ Leave(p)
    \/ \E reserved \in Reservations : BeginCall(p, reserved)
    \/ EnterCampaign(p) \/ RefuseCall(p) \/ ReserveCost(p) \/ EnterPending(p)
    \/ PublishReservation(p) \/ RecordRequest(p)
    \/ Send(p) \/ Answer(p) \/ FailCall(p) \/ Retry(p) \/ Abandon(p)
    \/ EnterSettlement(p) \/ PopPending(p) \/ AdjustCost(p) \/ SettleOverrun(p)
    \/ PublishSettlement(p)
    \/ Crash(p) \/ Interrupt(p)

Next == \E p \in Procs : Step(p)

Spec == Init /\ [][Next]_vars

-----------------------------------------------------------------------------
(* Properties.                                                             *)

\* No two processes ever open this run.
SoleControllers(r) == \A p, q \in Procs : RunOf[p] = r /\ RunOf[q] = r => p = q

\* What a run.json records as spent is what it settled and what it still
\* reserves, so no crash loses or invents a reservation (reserve, settle).
AccountsBalance ==
    \A r \in Runs : disk[r].cost = disk[r].settled + disk[r].pending

\* A run never records more than its limit, but for the known overruns of
\* answered calls (the last check of reserve_call).
RunCapped ==
    \A r \in Runs : disk[r].cost <= MaxCost + disk[r].overflow

\* The runs of a campaign together never record more than the campaign limit,
\* nor those of a capped phase more than its limit, but for known overruns,
\* however their reservations interleave.
CampaignCapped ==
    /\ CostOf(Runs) <= CampaignMax + OverflowOf(Runs)
    /\ \A ph \in DOMAIN PhaseMax : CostOf(InPhase(ph)) <= PhaseMax[ph] + OverflowOf(InPhase(ph))

\* Everything the provider charged a run is in the cost its run.json records,
\* save what a call whose answer was lost cost above its reservation.
BillCovered ==
    \A r \in Runs : bill[r] + disk[r].overflow <= disk[r].cost + excess[r]

\* Also when a reservation or a settlement is interrupted in the middle and
\* the handler saves the ledger as it stands, everything the provider charged
\* a run that has one controller is in its recorded cost, save what a lost
\* answer cost above its reservation, whatever the controllers of other runs
\* do (reserve_call, settle_call, the handlers of Orchestrator.run).
InterruptedBillCovered ==
    \A r \in Runs : SoleControllers(r) => bill[r] + disk[r].overflow <= disk[r].cost + excess[r]

\* No request evidence is written over another one, not even after a stale
\* copy of run.json brought an older call counter back.
RequestsFresh ==
    \A p \in Procs : pc[p] = "record" => call[p].number \notin requests[RunOf[p]]
=============================================================================
