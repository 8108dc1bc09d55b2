------------------------- MODULE DispatchContract -------------------------
(***************************************************************************)
(* What background execution promises about one product investigation:     *)
(* it is executed at most once per human input.  A run is queued by its    *)
(* start or by the answer to a clarification, taken once per queueing, and *)
(* an execution that breaks off ends the run instead of being repeated     *)
(* (SETUP.md 335-340).                                                     *)
(***************************************************************************)
EXTENDS Integers

CONSTANT Runs

VARIABLES
  phase,    \* what each run is doing
  round     \* how many executions of each run have begun

contractVars == <<phase, round>>

Phase == {"new", "queued", "executing", "paused", "ready", "failed", "aborted"}

Init ==
  /\ phase = [r \in Runs |-> "new"]
  /\ round = [r \in Runs |-> 0]

\* A change of phase that begins no execution.
Move(r, from, to) ==
  /\ phase[r] \in from
  /\ phase' = [phase EXCEPT ![r] = to]
  /\ UNCHANGED round

Submit(r)  == Move(r, {"new"}, "queued")
Clarify(r) == Move(r, {"executing"}, "paused")
Reply(r)   == Move(r, {"paused"}, "queued")
Finish(r)  == \E outcome \in {"ready", "failed"} : Move(r, {"executing"}, outcome)
Withdraw(r) == Move(r, {"queued", "executing", "paused"}, "aborted")

Take(r) ==
  /\ phase[r] = "queued"
  /\ phase' = [phase EXCEPT ![r] = "executing"]
  /\ round' = [round EXCEPT ![r] = @ + 1]

Next == \E r \in Runs :
  Submit(r) \/ Take(r) \/ Clarify(r) \/ Reply(r) \/ Finish(r) \/ Withdraw(r)

Spec == Init /\ [][Next]_contractVars

============================================================================
