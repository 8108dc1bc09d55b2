-------------------------- MODULE MCDeliveryPackages --------------------------
(* Small instances of DeliveryPackages: one section that both sides confirm. *)
EXTENDS DeliveryPackages, TLC

CONSTANTS c1, c2, c3, b1, shared

MCRequired == [s \in Sections |-> Sides]
Symmetry == Permutations(Coordinators)
=============================================================================
