-------------------------- MODULE MCUseCaseLifecycle --------------------------
(* The lifecycle on its own: the handover of a package may be recorded or not *)
(* whenever the pilot is to start.                                            *)
EXTENDS UseCaseLifecycle, TLC

CONSTANTS c1, c2, c3, b1

Symmetry == Permutations(Coordinators \ (Owners \cup TechnicalOwners))
=============================================================================
