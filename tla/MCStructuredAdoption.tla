------------------------ MODULE MCStructuredAdoption ------------------------
(* Instances of StructuredAdoption for TLC. *)
EXTENDS StructuredAdoption, TLC

MCSuggestions ==
  {[text |-> "any", value |-> 2, level |-> "low"],
   [text |-> "any", value |-> 1, level |-> "medium"]}

Symmetry ==
  Permutations(Sessions) \union Permutations(Analyses)
    \union Permutations(Requests)
============================================================================
