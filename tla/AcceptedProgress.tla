-------------------------- MODULE AcceptedProgress --------------------------
(***************************************************************************)
(* What one generation run promises about its durable progress, whatever   *)
(* its controller process does: the plan's tasks are accepted in order,    *)
(* accepting a task and publishing the code that was checked for it are    *)
(* one step, accepted code is only ever built upon, and only the closing   *)
(* integration task may be opened again, when the delivery fails.          *)
(***************************************************************************)
EXTENDS Naturals

CONSTANTS NTasks,   \* length of the serial plan; NTasks is final-integration
          Edits     \* the edits project trees are made of

VARIABLES passed,   \* the tasks recorded as passed
          built,    \* the code recorded for each task, {} until it has some
          code      \* the code recorded as accepted for the run

vars == <<passed, built, code>>

Init ==
    /\ passed = {}
    /\ built = [t \in 1..NTasks |-> {}]
    /\ code = {}

\* The next task of the chain is accepted together with its code.
Accept(t) ==
    /\ 1..(t-1) \subseteq passed
    /\ t \notin passed
    /\ passed' = passed \cup {t}
    /\ code' \in SUBSET Edits
    /\ code \subseteq code'
    /\ built' = [built EXCEPT ![t] = code']

\* A repair of the final task starts; what was accepted stays accepted.
Reopen ==
    /\ passed = 1..NTasks
    /\ passed' = passed \ {NTasks}
    /\ UNCHANGED <<built, code>>

Next == (\E t \in 1..NTasks : Accept(t)) \/ Reopen

Spec == Init /\ [][Next]_vars
=============================================================================
