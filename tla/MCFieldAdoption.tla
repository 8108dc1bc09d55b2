-------------------------- MODULE MCFieldAdoption --------------------------
(* Instances of FieldAdoption for TLC. *)
EXTENDS FieldAdoption, TLC

CONSTANTS old, new

MCSuggestions ==
  {[text |-> new, value |-> 0, level |-> "low"],
   [text |-> old, value |-> 0, level |-> "medium"],
   [text |-> new, value |-> 0, level |-> "high"]}

Symmetry == Permutations(Sessions) \union Permutations(Analyses)
============================================================================
