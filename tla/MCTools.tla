------------------------------- MODULE MCTools ------------------------------
(***************************************************************************)
(* What a coding session works with: the containers of commands and        *)
(* verifications (Verification) and what the model is shown of results     *)
(* (CodingContext), which keep their state in parts of their own.  A       *)
(* behaviour is one of one component, the other stays as it is at first.   *)
(***************************************************************************)
EXTENDS Verification, CodingContext

CONSTANTS f1, f2   \* files

VARIABLE part      \* the component whose behaviour it is

\* The daemon may complete a creation after its client has given up.
Late == INSTANCE Verification WITH MaxJobs <- 3, Faults <- Faults \cup {"late"}

AllInit ==
    /\ part \in {"jobs", "late jobs", "context"}
    /\ Init /\ ContextInit
    /\ part # "context" => tree = [f \in Files |-> Missing]

Manage ==
    /\ \/ part = "jobs" /\ Next
       \/ part = "late jobs" /\ Late!Next
    /\ UNCHANGED <<part, contextVars>>

Show == part = "context" /\ ContextNext /\ UNCHANGED <<part, vars>>

\* What Verification assumes fair.
Work ==
    /\ \/ part = "jobs" /\ Step
       \/ part = "late jobs" /\ Late!Step
    /\ UNCHANGED <<part, contextVars>>

AllNext == Manage \/ Show

AllSpec == AllInit /\ [][AllNext]_<<part, vars, contextVars>> /\ WF_<<part, vars, contextVars>>(Work)
=============================================================================
