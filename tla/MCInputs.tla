------------------------------ MODULE MCInputs ------------------------------
(***************************************************************************)
(* What a run is started with: a specification on its way through the      *)
(* front end (ClaimCompiler, SpecMerge and the gates of SpecGates), the    *)
(* routes and prices of its configuration (Pricing), and the plan with its *)
(* follow-ups (PlanRevisions), which keep their state in parts of their    *)
(* own.  A behaviour is one of one component, the others stay as they are  *)
(* at first.                                                               *)
(***************************************************************************)
EXTENDS PlanRevisions, SpecGates, Pricing, ClaimCompiler, SpecMerge

VARIABLE part   \* the component whose behaviour it is

\* The plan while no interrupt saves a half-changed dictionary.
Uninterrupted == INSTANCE PlanRevisions WITH Faults <- {"crash"}

\* What the component of another part keeps has one initial state.
AllInit ==
    /\ part \in {"gates", "claims", "merge", "prices", "plan", "interrupted plan"}
    /\ Init /\ GateInit /\ ClaimInit /\ MergeInit /\ PriceInit
    /\ part # "gates" => alone
    /\ part # "prices" => config = [provider |-> "other", fast |-> NoRoute, priced |-> {}, capable |-> {}]

PassGates ==
    /\ part = "gates" /\ GateNext
    /\ UNCHANGED <<part, vars, claimVars, mergeVars, priceVars>>

Compile == part = "claims" /\ ClaimNext /\ UNCHANGED <<part, vars, gateVars, mergeVars, priceVars>>

Join == part = "merge" /\ Take /\ UNCHANGED <<part, vars, gateVars, claimVars, priceVars>>

Price == part = "prices" /\ PriceNext /\ UNCHANGED <<part, vars, gateVars, claimVars, mergeVars>>

Revise ==
    /\ \/ part = "plan" /\ Uninterrupted!Next
       \/ part = "interrupted plan" /\ Next
    /\ UNCHANGED <<part, gateVars, claimVars, mergeVars, priceVars>>

AllNext == PassGates \/ Compile \/ Join \/ Price \/ Revise

AllSpec == AllInit /\ [][AllNext]_<<part, vars, gateVars, claimVars, mergeVars, priceVars>>

-----------------------------------------------------------------------------
(* Properties.                                                             *)

\* run.json implements the promise of append_followup while no interrupt saves
\* a half-changed dictionary: reference, entry and count change together.
OfPlan == INSTANCE FollowupPlan WITH
    FirstPlan <- FirstIds,
    FollowupIds <- [n \in 1..Limit |-> Followup(n)],
    plan <- IF part = "plan" THEN Ids(Plan(disk)) ELSE FirstIds,
    passed <- IF part = "plan" THEN disk.passed ELSE {}
PromiseHolds == OfPlan!Spec
=============================================================================
