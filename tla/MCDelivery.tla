----------------------------- MODULE MCDelivery -----------------------------
(***************************************************************************)
(* How a run gets to its report: the feedback of failures (Feedback), the  *)
(* delivery (Delivery) and the report on requirements (RequirementReport), *)
(* which keep their state in parts of their own.  A behaviour is one of    *)
(* one component, the others stay as they are at first.                    *)
(***************************************************************************)
EXTENDS Delivery, RequirementReport, Feedback

CONSTANTS c1, c2, r1, r2   \* checks, requirements

VARIABLE part              \* the component whose behaviour it is

\* Both requirements need the second check.
Covered == [c \in {c1, c2} |-> IF c = c1 THEN {r1} ELSE {r1, r2}]

AllInit == part \in {"delivery", "report", "feedback"} /\ Init /\ ReportInit /\ FeedbackInit

Deliver == part = "delivery" /\ Next /\ UNCHANGED <<part, reportVars, feedbackVars>>

Join == part = "report" /\ ReportNext /\ UNCHANGED <<part, vars, feedbackVars>>

Tell == part = "feedback" /\ FeedbackNext /\ UNCHANGED <<part, vars, reportVars>>

AllNext == Deliver \/ Join \/ Tell

AllVars == <<part, vars, reportVars, feedbackVars>>

AllSpec == AllInit /\ [][AllNext]_AllVars
=============================================================================
