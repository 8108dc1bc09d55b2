------------------------- MODULE MCProviderBudget -------------------------
(* Model-checking instance of ProviderBudget. *)
EXTENDS ProviderBudget, TLC
CONSTANTS r1, r2, c1, c2, c3, c4, c5

Symmetry == Permutations({c1, c2, c3, c4, c5}) \union Permutations({r1, r2})

Limit(calls, input, output, cost) ==
  [calls |-> calls, input |-> input, output |-> output, cost |-> cost]
Rate(input, output) == [input |-> input, output |-> output]
Prices == {Rate(1, 1)}
\* For one call; for two that exceed its tokens; for two that just fit.
CampaignLimits == {Limit(1, 2, 1, None), Limit(2, 2, 1, None), Limit(2, 4, 3, 6)}
Floors == [role \in Roles |-> 1]

\* Room for all calls, no reviews and nothing reserved: the campaign's limits decide.
WideBudget == [calls |-> 6, verifier |-> 0, input |-> 6, output |-> 6,
               reservedCalls |-> 0, reservedInput |-> 0, reservedOutput |-> 0]

\* Two verifier calls reserved, room for five calls of small prompts.
TightBudget == [calls |-> 5, verifier |-> 4, input |-> 8, output |-> 9,
                reservedCalls |-> 2, reservedInput |-> 4, reservedOutput |-> 2]
============================================================================
