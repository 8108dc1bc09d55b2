------------------------------ MODULE StageGates ------------------------------
(***************************************************************************)
(* What the lifecycle of a use case promises the organisation: it is put   *)
(* into practice through gates, each is passed once, and none before the   *)
(* gates it rests on.  Who passes a gate, and what becomes of the use case *)
(* between two gates, is left open.                                        *)
(***************************************************************************)
VARIABLE passed     \* the gates passed so far

Gates == {"approved", "handed_over", "pilot", "operation", "ended"}

\* What a gate rests on: any one of these sets of gates suffices.
Rests == [g \in Gates |->
  CASE g = "approved"    -> {{}}
    [] g = "handed_over" -> {{"approved"}}
    [] g = "pilot"       -> {{"approved", "handed_over"}}
    [] g = "operation"   -> {{"pilot"}}
    [] g = "ended"       -> {{"pilot"}, {"operation"}}]

Init == passed = {}

Pass(g) ==
  /\ g \notin passed
  /\ \E basis \in Rests[g] : basis \subseteq passed
  /\ passed' = passed \cup {g}

Next == \E g \in Gates : Pass(g)

Spec == Init /\ [][Next]_passed
=============================================================================
