-------------------------- MODULE ProviderBudget --------------------------
(***************************************************************************)
(* The two budgets every provider call of an investigation is charged to:  *)
(* the run's own (budget_limits, usage) and, for runs of the evidence      *)
(* phase, the campaign all those runs share.                               *)
(*                                                                         *)
(* _reserve_model_call admits a call and reserves its tokens and cost;     *)
(* after the provider has answered, the executor settles the campaign's    *)
(* reservation or marks it uncertain, books the run's usage and closes the *)
(* call, each in a transaction of its own.  Runs, the continuation of the  *)
(* campaign, aborts, failures and crashes interleave between those         *)
(* transactions.                                                           *)
(***************************************************************************)
EXTENDS Integers, FiniteSets, FiniteSetsExt

CONSTANTS
  Runs,           \* investigation runs
  Funded,         \* those bound to the evidence campaign
  Calls,          \* InvestigationModelCall rows, each created at most once
  NoRun,
  Budget,         \* run.budget_limits
  Floor,          \* role -> MIN_..._COMPLETION_TOKENS
  LimitChoices,   \* campaign limits an owner may authorise
  RateChoices,    \* price lists, in microunits per RateScale tokens
  RateScale,
  Prompts,        \* estimated prompt tokens
  Rooms,          \* completion tokens the role and the context allow
  Figures,        \* token figures the provider may report
  Costs,          \* costs it may report
  MaxOverrun,     \* by how much reported usage may exceed the reservation
  MaxRevision     \* bound: authorisations of the campaign

Roles == {"planner", "synthesizer", "verifier"}

\* A missing limit, price or usage figure.
None == -1
Known(n) == IF n = None THEN 0 ELSE n

ASSUME BudgetAssumption ==
  /\ Funded \subseteq Runs
  /\ NoRun \notin Runs
  /\ Budget \in [calls : Nat, verifier : Nat, input : Nat, output : Nat,
                 reservedCalls : Nat, reservedInput : Nat, reservedOutput : Nat]
  /\ Floor \in [Roles -> Nat \ {0}]
  /\ LimitChoices \subseteq [calls : Nat \ {0}, input : Nat \ {0},
                             output : Nat \ {0}, cost : (Nat \ {0}) \union {None}]
  /\ RateChoices \subseteq [input : Nat, output : Nat]
  /\ RateScale \in Nat \ {0}
  /\ Prompts \subseteq Nat \ {0}
  /\ Rooms \subseteq Nat
  /\ Figures \subseteq Nat
  /\ Costs \subseteq Nat
  /\ MaxOverrun \in Nat
  /\ MaxRevision \in Nat

ASSUME FiniteAssumption == IsFiniteSet(Runs) /\ IsFiniteSet(Calls)

VARIABLES
  revision,   \* campaign.revision, 0 before create_evidence_campaign
  limits,     \* campaign.limits
  rates,      \* campaign.pricing, {} when incomplete
  used,       \* campaign.usage
  history,    \* the budget revisions
  usage,      \* each run's usage
  status,     \* each run: may its executor still write
  call,       \* each call: its run and status
  resv,       \* its reservation
  paid,       \* the reservation's actual usage
  stage,      \* how far the executor is with the call
  answer      \* what the executor knows of the provider's answer

campaignVars == <<revision, limits, rates, used, history>>
vars == <<campaignVars, usage, status, call, resv, paid, stage, answer>>

InProgress == {"asked", "answered", "accounted", "failing"}
NoUse      == [input |-> 0, output |-> 0, cost |-> 0]
NoAnswer   == [kind |-> "none", input |-> None, output |-> None, cost |-> None,
               capped |-> FALSE]
Capped     == limits.cost # None
CallsOf(r) == {c \in Calls : call[c].run = r}

Init ==
  /\ revision = 0
  /\ limits = [calls |-> 0, input |-> 0, output |-> 0, cost |-> None]
  /\ rates = {}
  /\ used = [calls |-> 0, input |-> 0, output |-> 0, cost |-> 0,
             rinput |-> 0, routput |-> 0, rcost |-> 0, uncertain |-> 0]
  /\ history = {}
  /\ usage = [r \in Runs |-> [calls |-> 0, verifier |-> 0, input |-> 0, output |-> 0]]
  /\ status = [r \in Runs |-> "running"]
  /\ call = [c \in Calls |-> [run |-> NoRun, st |-> "none"]]
  /\ resv = [c \in Calls |-> [st |-> "none", input |-> 0, output |-> 0, cost |-> None]]
  /\ paid = [c \in Calls |-> NoUse]
  /\ stage = [c \in Calls |-> "unused"]
  /\ answer = [c \in Calls |-> NoAnswer]

---------------------------------------------------------------------------
(* The campaign: creation and authorised continuation.                     *)

\* The pricing a request may leave the campaign with; a cap needs a complete one.
Pricings == {{}} \union {{p} : p \in RateChoices}
Normalized(l, p) == l.cost # None => p # {}

Authorized(n, l, p) ==
  /\ revision' = n
  /\ limits' = l
  /\ rates' = p
  /\ history' = history \union {[revision |-> n, limits |-> l, used |-> used]}
  /\ UNCHANGED <<used, usage, status, call, resv, paid, stage, answer>>

CreateCampaign(l, p) ==
  /\ revision = 0
  /\ Normalized(l, p)
  /\ Authorized(1, l, p)

\* Limits without a cap are refused as the removal of an active one.
RemovesCap(l) == l.cost = None /\ used.cost + used.rcost > 0

\* Used and reserved budget cannot be taken back.
CoversCommitted(l) ==
  /\ l.calls >= used.calls
  /\ l.input >= used.input + used.rinput
  /\ l.output >= used.output + used.routput
  /\ l.cost # None => l.cost >= used.cost + used.rcost
  /\ ~RemovesCap(l)

\* authorize_campaign_continuation
Authorize(l, p) ==
  /\ revision \in 1 .. MaxRevision - 1
  /\ CoversCommitted(l)
  /\ Normalized(l, p)
  /\ Authorized(revision + 1, l, p)

---------------------------------------------------------------------------
(* Admission: what a further call may take.                                *)

AtLeast0(n)     == IF n > 0 THEN n ELSE 0
Smaller(m, n)   == IF m < n THEN m ELSE n
CeilDiv(n, d)   == (n + d - 1) \div d
Larger1(n)      == IF n > 1 THEN n ELSE 1

\* _max_cost_for_tokens
MaxCost(i, o) ==
  IF ~Capped THEN None
  ELSE LET price == CHOOSE p \in rates : TRUE
       IN CeilDiv(i * price.input + o * price.output, RateScale)

\* Faulty variant: open and uncertain reservations do not count.
FitsUsed(i, o) ==
  /\ used.calls + 1 <= limits.calls
  /\ used.input + i <= limits.input
  /\ used.output + o <= limits.output
  /\ Capped => used.cost + MaxCost(i, o) <= limits.cost

\* _would_exceed, negated
Fits(i, o) ==
  /\ used.calls + 1 <= limits.calls
  /\ used.input + used.rinput + i <= limits.input
  /\ used.output + used.routput + o <= limits.output
  /\ Capped => used.cost + used.rcost + MaxCost(i, o) <= limits.cost

\* max_reservable_output_tokens: the search for the largest completion that fits.
Reservable(i, upTo, kept) ==
  Max({0} \union {o \in 1 .. upTo : Fits(i + kept.input, o + kept.output)})

\* The guaranteed verifier calls that are still to come.
ReviewsLeft(r) ==
  Budget.reservedCalls - Smaller(Budget.reservedCalls, usage[r].verifier)

\* _remaining_verifier_reserve
VerifierReserve(r) ==
  LET share(total) == IF ReviewsLeft(r) = 0 THEN 0
                      ELSE CeilDiv(total * ReviewsLeft(r), Budget.reservedCalls)
  IN [calls |-> ReviewsLeft(r),
      input |-> share(Budget.reservedInput), output |-> share(Budget.reservedOutput)]

\* _remaining_synthesis_reserve
SynthesisReserve ==
  LET share(total) == CeilDiv(total, Larger1(Budget.calls))
  IN [calls |-> 1, input |-> share(Budget.input), output |-> share(Budget.output)]

\* Faulty variant: the synthesis need not leave anything for the reviews.
KeptByPlanner(r, role) ==
  IF role = "planner" THEN VerifierReserve(r) ELSE [calls |-> 0, input |-> 0, output |-> 0]

\* What a call of the role has to leave for the calls that must follow it.  A
\* verifier call may use its floor and an equal share of the reserved input.
Kept(r, role) ==
  LET v == VerifierReserve(r)
      left == Larger1(Budget.verifier - usage[r].verifier)
  IN CASE role = "planner" ->
            [calls  |-> v.calls + SynthesisReserve.calls,
             input  |-> v.input + SynthesisReserve.input,
             output |-> v.output + SynthesisReserve.output]
       [] role = "synthesizer" -> v
       [] role = "verifier" ->
            [calls  |-> v.calls,
             input  |-> AtLeast0(v.input - CeilDiv(v.input, left)),
             output |-> AtLeast0(v.output - Floor[role])]

\* budget_exhausted with reserve_verifier, and reserve_synthesis for a planner.
Exhausted(r, kept) ==
  \/ Budget.calls - usage[r].calls <= kept.calls
  \/ Budget.input - usage[r].input <= kept.input
  \/ Budget.output - usage[r].output <= kept.output

\* The run's own limits; its time and its tool calls may refuse a call as well.
RunAdmits(r, role, prompt) ==
  /\ usage[r].calls < Budget.calls
  /\ usage[r].output < Budget.output
  /\ prompt <= Budget.input - usage[r].input - Kept(r, role).input
  /\ IF role = "verifier" THEN usage[r].verifier < Budget.verifier
                          ELSE ~Exhausted(r, Kept(r, role))

\* The completion tokens a call gets.
Granted(r, role, prompt, room) ==
  LET offered == Smaller(room, Budget.output - usage[r].output - Kept(r, role).output)
  IN IF r \in Funded THEN Reservable(prompt, AtLeast0(offered), Kept(r, role))
                     ELSE offered

\* reserve_provider_attempt
Charge(i, o) ==
  used' = [used EXCEPT !.calls = @ + 1, !.rinput = @ + i, !.routput = @ + o,
                       !.rcost = @ + Known(MaxCost(i, o))]

\* An executor makes one call after the other.
Idle(r) == \A c \in CallsOf(r) : stage[c] \notin InProgress \union {"dead"}

\* _reserve_model_call
Ask(r, c, role, prompt, room) ==
  /\ stage[c] = "unused"
  /\ status[r] = "running"
  /\ Idle(r)
  /\ RunAdmits(r, role, prompt)
  /\ LET tokens == Granted(r, role, prompt, room) IN
       /\ tokens >= Floor[role]
       /\ IF r \in Funded
          THEN /\ revision > 0
               /\ Fits(prompt, tokens)
               /\ Charge(prompt, tokens)
               /\ resv' = [resv EXCEPT ![c] = [st |-> "open", input |-> prompt,
                             output |-> tokens, cost |-> MaxCost(prompt, tokens)]]
          ELSE /\ resv' = [resv EXCEPT ![c].input = prompt, ![c].output = tokens]
               /\ UNCHANGED used
  /\ usage' = [usage EXCEPT ![r].calls = @ + 1,
                            ![r].verifier = IF role = "verifier" THEN @ + 1 ELSE @]
  /\ call' = [call EXCEPT ![c] = [run |-> r, st |-> "running"]]
  /\ stage' = [stage EXCEPT ![c] = "asked"]
  /\ UNCHANGED <<revision, limits, rates, history, status, paid, answer>>

---------------------------------------------------------------------------
(* The answer: accounting, booking and closing.                            *)

IsFunded(c) == call[c].run \in Funded

\* What the provider may report: nothing, or figures beyond the reservation by
\* at most MaxOverrun.  Only a complete or a truncated response has figures.
Reported(bound) == {None} \union {n \in Figures : n <= bound + MaxOverrun}
CostsOf(c) ==
  {None} \union {x \in Costs : resv[c].cost # None => x <= resv[c].cost + MaxOverrun}
Answers(c) ==
  [kind : {"ok", "truncated"}, input : Reported(resv[c].input),
   output : Reported(resv[c].output), cost : CostsOf(c),
   capped : {IsFunded(c) /\ Capped}]
  \union {[NoAnswer EXCEPT !.kind = "unusable"]}

\* The provider answers (or fails: unavailable, or not the JSON object asked
\* for); the executor reads, unlocked, whether the campaign has a cost cap.
Respond(c) ==
  /\ stage[c] = "asked"
  /\ \E a \in Answers(c) : answer' = [answer EXCEPT ![c] = a]
  /\ stage' = [stage EXCEPT ![c] = "answered"]
  /\ UNCHANGED <<campaignVars, usage, status, call, resv, paid>>

\* The answer has all the figures its accounting needs.
Complete(c) ==
  /\ answer[c].kind \in {"ok", "truncated"}
  /\ answer[c].input # None /\ answer[c].output # None
  /\ answer[c].capped => answer[c].cost # None

\* The executor is through with the answer, or gone.
Leave(c, how) ==
  /\ stage' = [stage EXCEPT ![c] = how]
  /\ answer' = [answer EXCEPT ![c] = NoAnswer]

\* Faulty variant: the usage of a truncated answer is not booked.
BookableIfUsable(c) == answer[c].kind = "ok"
\* A usable or completely reported answer is booked after the accounting.
Bookable(c) == answer[c].kind = "ok" \/ Complete(c)

\* After the accounting the reported cost is no longer needed.
Accounted(c) ==
  IF Bookable(c)
  THEN /\ stage' = [stage EXCEPT ![c] = "accounted"]
       /\ answer' = [answer EXCEPT ![c].cost = None, ![c].capped = FALSE]
  ELSE Leave(c, "failing")

\* settle_provider_attempt accepts the reported usage.
WithinLimits(a) ==
  /\ used.input + a.input <= limits.input
  /\ used.output + a.output <= limits.output
  /\ Capped => a.cost # None /\ used.cost + a.cost <= limits.cost

\* Faulty variant: a reservation is released whatever became of it before.
Released(c) == TRUE
\* Only an open reservation is settled or marked.
StillOpen(c) == resv[c].st = "open"

\* settle_provider_attempt
Settle(c) ==
  LET a == answer[c] IN
  /\ stage[c] = "answered" /\ IsFunded(c) /\ Complete(c)
  /\ IF ~StillOpen(c)
     THEN UNCHANGED <<used, resv, paid>>
     ELSE /\ WithinLimits(a)
          /\ used' = [used EXCEPT
               !.rinput = AtLeast0(@ - resv[c].input),
               !.routput = AtLeast0(@ - resv[c].output),
               !.rcost = AtLeast0(@ - Known(resv[c].cost)),
               !.input = @ + a.input,
               !.output = @ + a.output,
               !.cost = @ + Known(a.cost)]
          /\ resv' = [resv EXCEPT ![c].st = "settled"]
          /\ paid' = [paid EXCEPT ![c] =
               [input |-> a.input, output |-> a.output, cost |-> Known(a.cost)]]
  /\ Accounted(c)
  /\ UNCHANGED <<revision, limits, rates, history, usage, status, call>>

\* The settlement raises and is rolled back; nobody handles its error codes, so
\* the exception ends the executor with the call open.
SettleRaises(c) ==
  /\ stage[c] = "answered" /\ IsFunded(c) /\ Complete(c)
  /\ StillOpen(c) /\ ~WithinLimits(answer[c])
  /\ Leave(c, "dead")
  /\ UNCHANGED <<campaignVars, usage, status, call, resv, paid>>

\* mark_provider_attempt_uncertain: the reservation is kept.
MarkUncertain(c) ==
  IF StillOpen(c)
  THEN /\ used' = [used EXCEPT !.uncertain = @ + 1]
       /\ resv' = [resv EXCEPT ![c].st = "uncertain"]
  ELSE UNCHANGED <<used, resv>>

Doubt(c) ==
  /\ stage[c] = "answered" /\ IsFunded(c) /\ ~Complete(c)
  /\ MarkUncertain(c)
  /\ Accounted(c)
  /\ UNCHANGED <<revision, limits, rates, history, usage, status, call, paid>>

\* A run without a campaign has no reservation to settle.
Unaccounted(c) ==
  /\ stage[c] = "answered" /\ ~IsFunded(c)
  /\ Accounted(c)
  /\ UNCHANGED <<campaignVars, usage, status, call, resv, paid>>

\* Faulty variant: a missing figure is booked as it is.
BookedAsReported(known, estimates) == {known}
\* _usage_tokens estimates a missing figure; the estimate is taken not to exceed
\* what the call was granted.
Booked(known, estimates) == IF known # None THEN {known} ELSE estimates

AddUsage(r, i, o) == [usage EXCEPT ![r].input = @ + i, ![r].output = @ + o]

\* The last transaction of _structured_provider_call, or for a truncated answer
\* that of _record_truncated_usage.  A superseded executor's result is discarded.
Book(c) ==
  LET r == call[c].run IN
  /\ stage[c] = "accounted"
  /\ \E i \in Booked(answer[c].input, {resv[c].input}),
        o \in Booked(answer[c].output, 1 .. resv[c].output) :
       usage' = AddUsage(r, i, o)
  /\ IF answer[c].kind = "ok"
     THEN /\ \E st \in IF status[r] = "running" THEN {"success", "failed"} ELSE {"discarded"} :
               call' = [call EXCEPT ![c].st = st]
          /\ Leave(c, "closed")
     ELSE Leave(c, "failing") /\ UNCHANGED call
  /\ UNCHANGED <<campaignVars, status, resv, paid>>

\* _mark_model_failure
CloseFailed(c) ==
  /\ stage[c] = "failing"
  /\ call' = [call EXCEPT ![c].st = IF @ = "running" THEN "failed" ELSE @]
  /\ Leave(c, "closed")
  /\ UNCHANGED <<campaignVars, usage, status, resv, paid>>

---------------------------------------------------------------------------
(* The end of runs and executors, and the benchmark's recovery.            *)

\* fail_execution, or the same transition of the benchmark's recovery: the run
\* ends and its running calls are discarded; reservations are not looked at.
FailRun(r) ==
  /\ status[r] = "running"
  /\ status' = [status EXCEPT ![r] = "ended"]
  /\ call' = [c \in Calls |-> IF call[c].run = r /\ call[c].st = "running"
                              THEN [call[c] EXCEPT !.st = "discarded"] ELSE call[c]]
  /\ UNCHANGED <<campaignVars, usage, resv, paid, stage, answer>>

\* The loop ends the run between two calls, or a user aborts it at any time.
EndRun(r) ==
  /\ status[r] = "running"
  /\ status' = [status EXCEPT ![r] = "ended"]
  /\ UNCHANGED <<campaignVars, usage, call, resv, paid, stage, answer>>

\* The executor's process is killed.
Die(c) ==
  /\ stage[c] \in InProgress
  /\ Leave(c, "dead")
  /\ UNCHANGED <<campaignVars, usage, status, call, resv, paid>>

\* Started again, the benchmark command finds the run still running and marks its
\* open reservations before it fails the run; it cannot tell an interrupted call
\* from one another process is still waiting for.
FenceReservation(c) ==
  /\ stage[c] \notin {"unused", "closed"}
  /\ status[call[c].run] = "running"
  /\ StillOpen(c)
  /\ MarkUncertain(c)
  /\ UNCHANGED <<revision, limits, rates, history, usage, status, call, paid,
                 stage, answer>>

Handle(c) ==
  \/ Respond(c)
  \/ Settle(c) \/ SettleRaises(c) \/ Doubt(c) \/ Unaccounted(c)
  \/ Book(c) \/ CloseFailed(c)
  \/ Die(c) \/ FenceReservation(c)

Next ==
  \/ \E l \in LimitChoices, p \in Pricings : CreateCampaign(l, p)
  \/ \E l \in LimitChoices, p \in Pricings : Authorize(l, p)
  \/ \E r \in Runs, c \in Calls, role \in Roles, prompt \in Prompts, room \in Rooms :
       Ask(r, c, role, prompt, room)
  \/ \E c \in Calls : Handle(c)
  \/ \E r \in Runs : FailRun(r) \/ EndRun(r)

Spec == Init /\ [][Next]_vars

---------------------------------------------------------------------------
(* Safety.                                                                 *)

\* Every variable has its type.
TypeOK ==
  /\ revision \in 0 .. MaxRevision + 1
  /\ limits \in [calls : Nat, input : Nat, output : Nat, cost : Nat \union {None}]
  /\ rates \in Pricings
  /\ used \in [calls : Nat, input : Nat, output : Nat, cost : Nat, rinput : Nat,
               routput : Nat, rcost : Nat, uncertain : Nat]
  /\ history \subseteq [revision : Nat, used : [calls : Nat, input : Nat,
                 output : Nat, cost : Nat, rinput : Nat, routput : Nat,
                 rcost : Nat, uncertain : Nat],
               limits : [calls : Nat, input : Nat, output : Nat, cost : Nat \union {None}]]
  /\ usage \in [Runs -> [calls : Nat, verifier : Nat, input : Nat, output : Nat]]
  /\ status \in [Runs -> {"running", "ended"}]
  /\ call \in [Calls -> [run : Runs \union {NoRun},
                 st : {"none", "running", "success", "failed", "discarded"}]]
  /\ resv \in [Calls -> [st : {"none", "open", "settled", "uncertain"},
                 input : Nat, output : Nat, cost : Nat \union {None}]]
  /\ paid \in [Calls -> [input : Nat, output : Nat, cost : Nat]]
  /\ stage \in [Calls -> InProgress \union {"unused", "dead", "closed"}]
  /\ answer \in [Calls -> [kind : {"none", "ok", "truncated", "unusable"},
                   input : Nat \union {None}, output : Nat \union {None},
                   cost : Nat \union {None}, capped : BOOLEAN]]

Settled  == {c \in Calls : resv[c].st = "settled"}
Held     == {c \in Calls : resv[c].st \in {"open", "uncertain"}}

\* What is reserved and what was paid, and their sums over a set of calls.
ReservedInput  == [c \in Calls |-> resv[c].input]
ReservedOutput == [c \in Calls |-> resv[c].output]
ReservedCost   == [c \in Calls |-> Known(resv[c].cost)]
PaidInput      == [c \in Calls |-> paid[c].input]
PaidOutput     == [c \in Calls |-> paid[c].output]
PaidCost       == [c \in Calls |-> paid[c].cost]
Total(f, S)    == MapThenSumSet(LAMBDA c : f[c], S)

\* The campaign's counters are the sums of its reservations, whatever order
\* attempts were reserved, settled, marked and continued in: an attempt that was
\* interrupted or is uncertain stays charged, none is charged or released twice
\* (reserve_, settle_ and mark_provider_attempt).
LedgerBalances ==
  /\ used.calls = Cardinality(Settled \union Held)
  /\ used.uncertain = Cardinality({c \in Held : resv[c].st = "uncertain"})
  /\ used.rinput = Total(ReservedInput, Held)
  /\ used.routput = Total(ReservedOutput, Held)
  /\ used.rcost = Total(ReservedCost, Held)
  /\ used.input = Total(PaidInput, Settled)
  /\ used.output = Total(PaidOutput, Settled)
  /\ used.cost = Total(PaidCost, Settled)

\* Settled usage stays within the limits whatever the provider reports.  Together
\* with what is reserved it stays within them too, also after a continuation with
\* smaller ones, unless a provider has exceeded a reservation; for the cost, if no
\* attempt was reserved without a price.  And no authorisation on record took back
\* what had been used or reserved until then (_would_exceed, settle_provider_attempt,
\* authorize_campaign_continuation).
CommittedWithinLimits ==
  /\ used.calls <= limits.calls /\ used.input <= limits.input /\ used.output <= limits.output
  /\ Capped => used.cost <= limits.cost
  /\ (\A c \in Settled : paid[c].input <= resv[c].input)
       => used.input + used.rinput <= limits.input
  /\ (\A c \in Settled : paid[c].output <= resv[c].output)
       => used.output + used.routput <= limits.output
  /\ Capped /\ (\A c \in Settled \union Held : resv[c].cost # None)
            /\ (\A c \in Settled : paid[c].cost <= resv[c].cost)
       => used.cost + used.rcost <= limits.cost
  /\ \A h \in history :
       /\ h.used.calls <= h.limits.calls
       /\ h.used.input + h.used.rinput <= h.limits.input
       /\ h.revision = revision => h.limits = limits

\* The run's own usage contains what its calls cost the campaign whenever the
\* run may make a further call, although both are written in transactions of
\* their own and the executor may die between them.
RunCoversCampaign ==
  \A r \in Funded : status[r] = "running" /\ Idle(r) =>
    /\ usage[r].input >= Total(PaidInput, CallsOf(r) \intersect Settled)
    /\ usage[r].output >= Total(PaidOutput, CallsOf(r) \intersect Settled)

\* Whatever planner and synthesizer calls have used, what is reserved for the
\* verifier calls still to come is left, counting the call in progress at its
\* reservation (_remaining_verifier_reserve; ADR 0008).
InFlight(r) == {c \in CallsOf(r) : stage[c] \in {"asked", "answered", "accounted"}}
ReviewsStayPossible ==
  \A r \in Runs :
    /\ Budget.calls - usage[r].calls >= VerifierReserve(r).calls
    /\ Budget.input - usage[r].input - Total(ReservedInput, InFlight(r))
         >= VerifierReserve(r).input
    /\ Budget.output - usage[r].output - Total(ReservedOutput, InFlight(r))
         >= VerifierReserve(r).output

---------------------------------------------------------------------------
(* What no step may do.                                                    *)

\* A settled or uncertain attempt is never accounted again.
AccountedOnce ==
  [][\A c \in Calls : resv[c].st \in {"settled", "uncertain"} =>
       resv'[c] = resv[c] /\ paid'[c] = paid[c]]_vars

============================================================================
