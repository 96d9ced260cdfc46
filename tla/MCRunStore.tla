----------------------------- MODULE MCRunStore -----------------------------
(* Small instances of RunStore: edits are interchangeable.                 *)
EXTENDS RunStore, TLC

EditSymmetry == Permutations(ToolEdits) \cup Permutations(OperatorEdits)
=============================================================================
