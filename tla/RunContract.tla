---------------------------- MODULE RunContract ----------------------------
(***************************************************************************)
(* What an investigation run promises its actors, whoever drives it: a run *)
(* is running, waits for a human, or has ended for good; the right to      *)
(* write it belongs to one generation; whoever ends the run or hands it on *)
(* starts a new generation, so that the former owner is locked out, while  *)
(* the owner that merely pauses it keeps its right.                        *)
(***************************************************************************)
EXTENDS Naturals

VARIABLES state,        \* "running", "waiting" or "ended"
          generation    \* the generation that owns the run

vars == <<state, generation>>

Init == state = "running" /\ generation \in Nat

\* The owner reaches a boundary that only a human can decide.
Pause == state = "running" /\ state' = "waiting" /\ UNCHANGED generation

\* A human answers; the run continues under a new owner.
Resume == state = "waiting" /\ state' = "running" /\ generation' = generation + 1

\* The run is taken away from its owner.
HandOver == state = "running" /\ UNCHANGED state /\ generation' = generation + 1

\* The owner, the supervisor or a human ends the run.
End == state # "ended" /\ state' = "ended" /\ generation' = generation + 1

Next == Pause \/ Resume \/ HandOver \/ End

Spec == Init /\ [][Next]_vars
=============================================================================
