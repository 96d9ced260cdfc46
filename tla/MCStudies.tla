------------------------------ MODULE MCStudies -----------------------------
(***************************************************************************)
(* What is measured: the experiment driver with its samples (SampleQueue), *)
(* the study of action formats (ActionStudy), and the streamed calls that  *)
(* both make (StreamedCall), which keep their state in parts of their own. *)
(* A behaviour is one of one component, the others stay as they are at     *)
(* first.  The constants of SampleQueue are those of the serial batch.     *)
(***************************************************************************)
EXTENDS SampleQueue, ActionStudy, StreamedCall

VARIABLE part    \* the component whose behaviour it is

\* A batch with its parallel children; the candidate stays.
Parallel == INSTANCE SampleQueue WITH
    Versions <- {1}, MaxChanges <- 0, MaxEdits <- 0, MaxArchives <- 0,
    PublicRows <- 1, ByHand <- Study \cup {"freeze", "parallel"}

AllInit ==
    /\ part \in {"serial", "parallel", "study", "call"}
    /\ Init /\ StudyInit /\ CallInit
    /\ part # "call" => format = "tool_calls"

Drive ==
    /\ \/ part = "serial" /\ Next
       \/ part = "parallel" /\ Parallel!Next
    /\ UNCHANGED <<part, studyVars, callVars>>

Compare == part = "study" /\ StudyNext /\ UNCHANGED <<part, vars, callVars>>

Ask == part = "call" /\ CallNext /\ UNCHANGED <<part, vars, studyVars>>

AllNext == Drive \/ Compare \/ Ask

AllSpec == AllInit /\ [][AllNext]_<<part, vars, studyVars, callVars>>
=============================================================================
