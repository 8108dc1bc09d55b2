-------------------- MODULE MCInvestigationExecution --------------------
(* Model-checking instance of InvestigationExecution. *)
EXTENDS InvestigationExecution, TLC
CONSTANTS r1, r2, w1, w2

Symmetry == Permutations({r1, r2})
============================================================================
