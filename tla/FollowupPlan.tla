---------------------------- MODULE FollowupPlan ----------------------------
(***************************************************************************)
(* What a run promises about its plan (system_design.md, section 5): tasks *)
(* pass in order, and a bounded number of follow-ups enters, each at once, *)
(* before the last task; no task is ever removed or moved.                 *)
(***************************************************************************)
EXTENDS Naturals, Sequences, SequencesExt

CONSTANTS FirstPlan,   \* the tasks of the first revision, in order
          FollowupIds, \* the identifiers of follow-ups, in order
          Limit        \* budgets.followups

VARIABLES plan,        \* the tasks in order
          passed       \* the tasks that passed

vars == <<plan, passed>>

Init == plan = FirstPlan /\ passed = {}

Appended == Len(plan) - Len(FirstPlan)

Append1 ==
    /\ Appended < Limit
    /\ Last(plan) \notin passed
    /\ plan' = InsertAt(plan, Len(plan), FollowupIds[Appended + 1])
    /\ UNCHANGED passed

Pass ==
    /\ \E i \in DOMAIN plan :
        /\ \A j \in 1..(i-1) : plan[j] \in passed
        /\ passed' = passed \cup {plan[i]}
    /\ UNCHANGED plan

Spec == Init /\ [][Append1 \/ Pass]_vars
=============================================================================
