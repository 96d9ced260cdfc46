-------------------------- MODULE MCCampaignLedger --------------------------
(* Small campaigns of two runs, A and B.  A process controls the run it is  *)
(* named after; a2 is a second controller of run A.                         *)
EXTENDS CampaignLedger

CONSTANTS A, B, a1, a2, b1

MCRunOf == [p \in Procs |-> IF p = b1 THEN B ELSE A]
MCPhaseOf == [r \in Runs |-> IF r = A THEN "public_tools" ELSE "generation"]
MCPhaseMax == [ph \in {"public_tools"} |-> 2]
=============================================================================
