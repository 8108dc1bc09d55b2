# TLA+ specification of KI-Ideenwerkstatt

KI-Ideenwerkstatt is a Django application that takes AI use cases from an idea
to operation. People capture a process in guided questions, a language model
suggests values for fields and whole objects, a use case is assessed, approved
by two people, prepared for delivery and put into a pilot. Its most intricate
part is a bounded, agentic *investigation* of a process analysis: a run that a
background worker executes in a child process, that calls language models and
tools under hard budgets, may stop for a clarification by a human, and ends
with a decision brief, a failure or an abort. This directory specifies the
parts where several actors share database rows without sharing memory.

Paths below are relative to `src/ki_radar/` unless they begin with `docs/`,
`SETUP.md` or `compose`; references such as `EX:107` use these abbreviations:

| | file |
|---|---|
| EX | `accelerator/investigation_execution.py` |
| WK | `accelerator/management/commands/run_investigation_worker.py` |
| RT | `accelerator/investigation_runtime.py` |
| LP | `accelerator/investigation_loop.py` |
| LL | `accelerator/investigation_llm.py` |
| EV | `accelerator/investigation_evidence.py` |
| US | `use_cases/services.py` |
| DS | `delivery/services.py` |
| SO | `accelerator/structured_adoption_orchestrator.py` |

## 1. The system

| component | state | operations | interacts through |
|---|---|---|---|
| dispatch and worker (EX, WK) | `execution_*` columns of the run; per supervisor a dict of child processes and a stop flag | `request_execution`, `claim_execution`, `renew_execution`, `fail_execution`, `reap_executions`, `supervise`, `execute_run` | the run's row, an advisory lock, processes, signals |
| run runtime (RT, `investigation_models.py`, `investigation_views.py`) | `InvestigationRun` with status, executor token and generation, usage; steps | `start_investigation`, `continue_with_human_input`, `abort_investigation`, `recover_investigation`, `execute_tool_step` | row locks; generation checks of the executor |
| loop, policy, provider calls (LP, LL, `investigation_policy.py`) | claim register, model calls, verifier reports | `advance_investigation`, `run_until_boundary`, `_reserve_model_call`, `_structured_provider_call` | tool steps, the provider, the run's budget |
| evidence campaign (EV) | limits, prices, usage, revisions, reservations | create, authorise continuation, reserve, settle, mark uncertain | the campaign's row, shared by all its runs |
| evidence experiments (`run_issue106_baseline`, `issue118_execution.py`) | slots, experiment-wide cost cap | run or resume a slot, fence an interrupted run | runs and reservations |
| decision brief (`investigation_brief.py`, `architecture/investigation_adoption.py`) | canonical brief, adoption records | materialise, adopt | hashes as idempotency keys |
| capture and analysis (`accelerator/services.py`, `analysis_service.py`, `retention.py`, ...) | captures with revision and retention, analyses, quotas | save, complete, discard, bind, expire, purge; prepare, store, fail | row locks, quota rows, the provider |
| adoption (`adoption_service.py`, `structured_review.py`, SO, ...) | candidates, review batches with items, audit records | offer, adopt, reject; open a review, decide, commit | candidates and targets that people edit |
| solution generation (`solution_generation_service.py`, critic, repair, quality runs) | drafts, quality runs | generate, criticise, repair | draft snapshots |
| provider client (`core/openrouter.py`, `core/llm_tasks.py`) | none | one HTTP request with bounded retries | the provider |
| use cases (US, `transition_policy.py`, `outcome_contract.py`, `forms.py`) | status, decision, assessments, approval decisions, outcome revision | assess, submit, confirm, return, edit, revise and confirm the outcome, adopt a draft | whole-row saves of objects a request has loaded; row locks in decisions only |
| governance and reviews (`governance/`, `reviews/services.py`) | screening, formal reviews, lifecycle reviews | screen, review, `create_review` | the use case |
| delivery packages (`delivery/`) | versions, section reviews, owner | create, edit, review a section, resolve an owner change, mark ready, hand over | the use case and its final approval; pages that age |
| architecture selection, focus, retirement | selected solutions | select, retire | row locks |
| accounts | anonymisation ledger | anonymise, replay after a restore | file and database |
| blueprints, reporting, exports | none of their own | import, export, render | files |

`PROJECT.json` lists the same components with what is modelled of each.

**What is hard.** Two supervisors and any number of orphaned children act on
one run at the same time; what tells them apart is the pair of generation and
token. Leases are judged by clocks read before the UPDATE that uses them. The
supervisor reads a run, polls its process and acts in three steps. Processes
die between a committed claim and its spawn, between a provider call and its
accounting, between the accounting of the campaign and that of the run.
Provider answers arrive after aborts, failures and continuations. The budgets
are updated by transactions that each see a part of it. `PROJECT.json` lists
these hazards with their lines and the properties that cover them.

The web side has no processes of its own, but every request works on objects
it loaded before its service ran, and most saves write a whole row: an old form
may bring back what was decided since. Provider answers come back outside any
transaction, requests die between two of them, and captures run out meanwhile.

**What makes the components correct.**

* Worker: one executor per generation; no wrongful failure of a healthy run; a
  capacity over all supervisors; an interrupted provider call is never repeated;
  finished runs are final; every claim comes to an end and every dispatch is
  served.
* Runtime and loop: budgets are kept including what is reserved for the
  verifier; a retry happens at most once; a result is bound to the claim
  register it was computed for.
* Campaign: the counters are the sums of the attempts; nothing is released or
  charged twice; limits authorised later cannot take back what is committed.
* Use case: an approval is decided by separate people on the outcome as it is,
  gates are passed in order and once, whatever old copy of a row is written.
* Delivery: what is handed over was confirmed by both sides, and stays.
* Adoption: a suggestion enters its target at most once, from a live capture,
  over the value it was offered for; objects that belong together come together.
* Brief: idempotent under repetition.

## 2. Modules

| module | contents |
|---|---|
| `InvestigationExecution` | dispatch, worker, executor and environment: 33 actions over the run's row, the supervisors and the processes |
| `DispatchContract` | what the worker promises to those who start and answer runs |
| `InvestigationLoop` | one run from the inside: loop, stop policy, model calls, tool steps |
| `RunContract` | what a run promises its actors, whoever drives it |
| `ProviderBudget` | run budget and evidence campaign, with the executor's path through one provider call |
| `UseCaseLifecycle` | assessments, decisions, second approvals, governance, outcome and status of one use case |
| `DeliveryPackages` | extends it with the versions of its delivery package and their handover |
| `StageGates` | what the lifecycle promises the organisation |
| `CaptureAnalysis` | captures, analyses, quotas and retention; the ground of the next two |
| `FieldAdoption` | suggestions for single text fields |
| `SuggestionContract` | what field adoption promises a text that people edit |
| `StructuredAdoption` | review and commit of suggestions that belong together |
| `InvestigationExecutionProofs`, `InvestigationLoopProofs`, `ProviderBudgetProofs`, `UseCaseLifecycleProofs`, `DeliveryPackagesProofs`, `FieldAdoptionProofs`, `StructuredAdoptionProofs` | the theorems about the module of that name (section 4) |
| `CaptureAnalysisProofs` | the lemmas on captures that the last two share |
| `MC...` | the instances for TLC |

### InvestigationExecution

The run's row is `status`, `gen` (executor generation; the code draws a new
token exactly where it increments it), `exec`, `worker`, `lease`, `requested`
and the calls the runs have stored. `procs` holds the living executor children
with their position; `pc`, `todo`, `cur`, `stale`, `ago`, `stopping` and
`children` are a supervisor's program counter and local variables.

One action is one transaction or one step outside of any: the supervisor's
loop (WK:85-146) is cut where another actor can get in between, that is between
`reap_executions`' query and each of its failures (`ReapRead`, `ReapAct`), the
read of a run and the poll of its process (`PollRead`, `PollAct`), the clock
reading and the UPDATE of a renewal (`RenewRead`, `RenewWrite`), and the claim
and the spawn (`ClaimRun`, `SpawnOk`, `SpawnFail`). A supervisor is an
*incarnation*: a restart draws a new `worker_id`, so a dead supervisor does not
come back and its successor is another element of `Workers`.

Time is relative. `lease[r]` is the time left, `age[r]` the time since
`started_at`; `Tick` lets one unit pass. `Faults` says what the environment may
do in a run: `child` and `supervisor` crashes, `spawn` errors, `database`
errors in the loop, `unfenced` (a second error while the finally clause
fences), `terminal` (Ctrl-C reaches the children as well), `actor` (the run has
no usable actor any more).

The executor is abstracted to its transactions: it reserves a call or tool
step, gets an answer, and pauses, concludes or fails the run. Which of these it
chooses is left open, so everything proved here holds for every policy of
`investigation_policy.py`. A failed record and the retry that follows are not
kept apart, a call or step with the result `failed` leaves the set.

`DispatchContract` is the abstract specification: a run is idle, queued,
executing, paused or over; each dispatch is executed at most once; an execution that is
broken off ends the run. `ImplementsContract` maps the row to these phases.

### ProviderBudget

`limits`, `rates`, `used`, `revision` and `history` are the campaign and its
budget revisions, `usage` and `status` the run, `call` and `resv` the stored
model call with its reservation. `stage` and `answer` are the executor's memory
of a call: asked, answered, accounted, failing, closed or dead.

`Ask` is `_reserve_model_call` in full: reserves for the verifier and the
synthesis (RT:729-769), the run's limits (RT:772), the room left by the
campaign (EV:323) and the reservation (EV:356), one transaction. The answer is
then handled in one transaction each: settle, refuse to settle, or mark
(`Settle`, `SettleRaises`, `Doubt`), `Book` and `CloseFailed`. Between any two
of them the run may be aborted or failed, the campaign continued, the executor
killed, or the reservation marked by the benchmark command's recovery.

Abstractions: the run's time and tool-call limits only ever refuse a call, so
refusing is always possible by not taking `Ask`. Negative or malformed usage
figures are left out (they raise like `SettleRaises`). The binary search of
`max_reservable_output_tokens` is replaced by the maximum it searches for; both
agree because the condition it tests is monotone in the completion tokens. A
missing figure is booked as an estimate no larger than the grant; LL:410
estimates from the texts, which bound it only approximately. For a run without
campaign, `resv` only records what the call was granted.

### InvestigationLoop

`run`, `steps`, `calls` and `report` are the rows; `ex[e]` is where executor `e`
is in the loop, with its local variables. `Route` decides which way an
iteration of `advance_investigation` takes, `Policy` is `evaluate_policy`, and
every transaction in between is an action: `Ask`, the answers (`Planned`,
`Synthesized`, `Verified`, `Record`, `LateAnswer`), the failures (`Error`), the
application of a plan (`Apply`, `Relate`, `Note`), a tool step (`OpenStep`,
`ToolError`, `ToolAnswer`, `Counter`) and the boundaries (`Suspend`,
`MakeReady`, `Fail`). Between any two of them the run may be aborted, answered,
failed by the worker, taken over, or the executor killed.

A package is a model value that is thin (calls a source relevant), hollow
(rests on an empty column) or blocked (breaks the deterministic contract); a
report is bound to `Hash`. The planner's reasons for a clarification are two of
the four; the loop treats them alike. A tool is asked with valid parameters: an
invalid one ends in the failure `Planned` reaches for a broken contract.
`Recover` has no caller outside the tests; `taken` tells the behaviours with a
takeover from those without, since `ReadyIsEarned` holds for the latter only.

`RunContract` is the abstract specification: running, waiting, ended for good,
with a generation that every hand-on advances. `InvestigationExecution` shows
the worker around the executor and leaves its choices open, this module shows
the choices and leaves the worker away but for its failing a run.

### UseCaseLifecycle and DeliveryPackages

A service is one transaction and one step. What a request has loaded before its
service ran is a *page*, an element of `pages`; an operation says which of its
data it takes from there and which it reads again. `create_decision_assessment`
writes the loaded row back, `submit_approval_decision` locks and reads, the
confirmation judges the loaded decision and then locks. `SaveAllowed` is the
guard of `UseCase.save`, its read and the UPDATE taken as one.

`DeliveryPackages` extends the module: `CreatePackage` takes the last final
approval, reviews and forms work on `packages` or on a page of one, and the
pilot of the lifecycle asks for a recorded handover, so the two are checked
composed. `StageGates` is the abstract specification: a set of passed gates, each
passed once and after those it rests on; `PassedGates` reads it off the rows.

Abstractions: goals of go-live (metric, rollback, support) and the text rules of
readiness may refuse at any time; the mirrored governance flags of legacy rows,
the source hash of an AP2 draft and the evidence that a confirmation resets are
left out; the actor of a lifecycle command is not recorded; the commands that
pause, continue or rework change nothing modelled.

### CaptureAnalysis, FieldAdoption, StructuredAdoption

An analysis is three steps, since the provider is asked outside any
transaction: `Prepare` counts the quotas and binds the revision, the answer is
stored or refused, and the request in between may die (`Die`) and leaves the
analysis running for good. `Lapse` lets the retention of a capture run out at
any moment; `Expire` and `Purge` are the job.

`FieldAdoption` has one text field per target: `Offer` supersedes what was open,
`Adopt`, `Reject` and `DiscardConflict` settle it, anybody may `Write` the text or
archive the target. `SuggestionContract` is its abstract specification.

`StructuredAdoption` cuts a commit where the code does: read the batch, check
it, reserve it under the idempotency key, execute everything in one transaction
that `RolledBack` undoes, record a failure. Between any two another tab decides
items, another request commits, or the request vanishes. One metric stands for
the metric fields; confirming a clear item is editing it to the same value.

Abstractions of both: one owner and one quota day; contract version 1 and the
flag for field adoption on; no autonomous captures (`WAITING_HUMAN`); a capture
is not purged while a commit request is at work on its batch.

## 3. What TLC checks

The operators commented as faulty or as-if variants (`ClaimableAgain`,
`FitsUsed`, ...) are mutants: put in the place of the operator they stand
beside, each breaks a property of the run it is listed for in `PROJECT.json`.

| run | instance | properties |
|---|---|---|
| `MCExecutionFailover` | 1 run continued once, 2 supervisors (one `--once`), all faults, late renewals | `SingleExecutor`, `ExecutorsAreWatched`, `OpenCallsAreOwned`, `UncertainCallsAreNotRepeated`, `FinishedStaysFinished`, `HealthyExecutorIsNotFailed`, `ImplementsContract` |
| `MCExecutionCapacity` | 2 supervisors, 2 runs, capacity 1, punctual renewals | `CapacityRespected`, `StopReachesBoundary` |
| `MCExecutionRecovery` | 1 mortal and 1 surviving supervisor, 1 run, fair | `ExitFencesClaims`, `ClaimEnds`, `StopDrains` |
| `MCExecutionQueue` | 1 supervisor, 2 runs, capacity 1, fair | `DispatchIsServed` |
| `MCLoop` | 2 executors, 5 model calls, 2 tools, a thin and a hollow package, 1 answer or takeover | `LoopTypeOK`, `ReadyIsEarned`, `RetriesAreBounded`, `OpenWorkIsOwned`, `ExecutorsStop`, `KeepsContract` |
| `MCBudgetCampaign` | 2 runs, 2 calls, 3 possible limits, 1 continuation, usage beyond reservations | `TypeOK`, `LedgerBalances`, `CommittedWithinLimits`, `RunCoversCampaign`, `AccountedOnce` |
| `MCBudgetReviews` | 1 run without campaign, 4 calls of all roles, a budget they can exhaust | `ReviewsStayPossible` |
| `MCLifecycle` | 3 coordinators, 2 owners (one a coordinator), 2 assessments, 2 decisions, 2 outcome revisions, 1 page | `ApprovalIsDecided`, `OneOpenSecondApproval`, `DutiesAreSeparate`, `ApprovalsStandOnOutcome` |
| `MCDelivery` | the same use case with 2 coordinators, 1 package with a section of both sides, 1 page | `DeliveryTypeOK`, `HandedOverWasConfirmed`, `KeepsGates` |
| `MCFieldAdoption` | 2 captures and 2 analyses for one target, 2 texts | `FieldTypeOK`, `OutcomesStayOnRecord`, `AdoptsFromLiveCapture`, `KeepsContract` |
| `MCStructuredAdoption` | 1 capture, 1 analysis, 2 commit requests, 2 values | `StructuredTypeOK`, `AllOrNothing`, `CommitsWhatWasRead`, `OverwritesOnlyWhatWasShown` |

**A run that shows a disagreement.** `MCDeliveryHandedOver`
(`HandedOverVersionStays`): the sections of a version that was handed over can
still be reviewed, reset or blocked, because `review_delivery_section` never
touches the package's row (DS:719); README.md:193 of the repository says
"Übergebene Package-Versionen bleiben unveränderlich."

**Known divergences without a run of their own.**

* A renewal whose UPDATE is late revives a lease another supervisor has already
  counted as free (EX:111), so that more than two leases are live, against the
  comment at EX:73. The model shows it with `MaxRenewDelay = 1`, two runs and
  two supervisors; `CapacityRespected` is checked and proved for 0.
* Ctrl-C in the terminal of a natively started worker kills the children too;
  their runs fail instead of reaching a boundary (WK:66, against SETUP.md:337).
  The model shows it with the fault `"terminal"` in the capacity instance.
* A cap introduced by a continuation takes outstanding attempts without a price
  as free (EV:221, against `docs/planning/VS1_EVIDENCE_REPORT.md:93`).
* A campaign without a cap that has collected reported cost cannot be continued
  without one, although the message (EV:229) speaks of an active cap (EV:227).

**Bounds and why they are enough.** Two supervisors and two runs are the
smallest instance in which a claim, a stale list, a lost lease or a capacity
count can be another's; generations need two values to tell an old executor
from a new one. A lease of two ticks lets a renewal be early, in time and late;
one tick of delay is all it takes to revive a lease, `MaxRenewDelay = 0` states
punctuality. `RuntimeTicks` 0 to 2 makes a run overdue inside the bound.

In the loop five calls, two of them kept for reviews, are enough for a plan, a
synthesis, a rejected and a second review and one failure with its retry;
`MaxCalls`, `MaxTools`, `MaxReads` and `MaxIterations` are limits of the code
with smaller values, `MaxHandovers` alone is a bound of the model.

Two calls of two runs are the smallest instance with a foreign open
reservation; the limits are chosen so that one call fits, two do not, or two
just fit, and the figures so that a reservation is met, undercut (no figure) or
exceeded. With four calls and a prompt of 1 or 2 the review budget is exhausted
on every path.

Two decisions and two assessments let an old proposal meet a new basis, three
coordinators are the fewest that can assess, decide and confirm, and the third
may own the use case. One page may be kept while everything else moves on,
which is what a single lost update takes. In `MCDelivery` one decision and one
package suffice for a handover and everything after it. Two analyses are one
offer and its successor; two commit requests one race.

Deadlock is checked in the execution, loop, lifecycle and delivery runs (a run
that has ended keeps stuttering by `Ended`); in the budget and adoption runs
calls and analyses are a bounded supply, and the system stops when they are
used up.

**Fairness.** `FairSpec` assumes that a supervisor which can take a step of its
loop eventually does (WK:85 loops for ever, and `compose.prod.yml:44` restarts
the service) and that time passes; the latter strongly, because `Tick` is
disabled whenever a renewal has reached its maximal delay. Nothing is assumed
of the executors: a provider call may hang for ever, and `ClaimEnds`, `StopDrains`
and `DispatchIsServed` hold all the same, by the supervisor's runtime limit.
`LoopFairness` assumes of each executor what the supervisor enforces from
outside: it goes on, and providers and tools answer or time out (their clients
have timeouts). `ExecutorsStop` then says that the guards of the loop end it;
answers, aborts, edits and crashes are not fair, and nothing is assumed of them.

## 4. What is proved

Every invariant and every action property the passing runs check, and every
refinement, is a theorem as well: the runs show it on a small instance, the
proofs for all values of the constants. The constants are constrained by the
assumptions next to their declarations (`ConstantsAssumption`,
`FinitenessAssumption`, `LimitsAssumption`, `BudgetAssumption`,
`LifecycleAssumption`, `CaptureAssumption`, `FieldAssumption`): bounds are
natural numbers, markers such as `NoText` are not values, calls and runs are
finitely many. Some theorems have a hypothesis of their own; it is in the last
column, and the reason below.

| theorem | statement | under |
|---|---|---|
| *InvestigationExecutionProofs* | | |
| `TypeCorrect`, `Discipline` | `[]TypeOK`, `[]IInv` | |
| `ExecutionIsExclusive` | `[]SingleExecutor` | |
| `OpenCallsHaveOwners` | `[]OpenCallsAreOwned` | |
| `NothingIsRepeated` | `[]UncertainCallsAreNotRepeated` | |
| `FinishedRunsAreFinal` | `FinishedStaysFinished` | |
| `PunctualRenewalsRespectCapacity` | `[]CapacityRespected` | `MaxRenewDelay = 0` |
| `RuntimeImplementsContract` | `ImplementsContract` | |
| `ClaimsAreKnown`, `ExecutorsStayWatched` | `[]Watching`, `[]ExecutorsAreWatched` | |
| `ExitsAlwaysFence` | `[]ExitFencesClaims` | no fault `"unfenced"` |
| `HealthyExecutorsAreNotFailed` | `HealthyExecutorIsNotFailed` | |
| `StopsReachBoundaries` | `StopReachesBoundary` | `Calm` |
| *InvestigationLoopProofs* | | |
| `LoopInvariant`, `LoopTypes` | `[]LoopInv`, `[]LoopTypeOK` | |
| `ReadyIsAlwaysEarned` | `[]ReadyIsEarned` | |
| `RetriesAreAlwaysBounded` | `[]RetriesAreBounded` | |
| `OpenWorkIsAlwaysOwned` | `[]OpenWorkIsOwned` | |
| `ContractOfTheRun` | `KeepsContract` (refines `RunContract`) | |
| `ExecutorsRunDown` | `[]LeftIsBound`, `RunsDown`: a bound on the steps an executor takes | `Reads` is finite |
| *ProviderBudgetProofs* | | |
| `BudgetInvariant`, `BudgetTypes` | `[]BudgetInv`, `[]TypeOK` | |
| `LedgerAlwaysBalances` | `[]LedgerBalances` | |
| `LimitsAreKept` | `[]CommittedWithinLimits` | |
| `CampaignIsCovered` | `[]RunCoversCampaign` | |
| `AttemptsAreAccountedOnce` | `AccountedOnce` | |
| `ReviewsAlwaysStayPossible` | `[]ReviewsStayPossible` | `ReserveIsDivided` |
| `DefaultReserveIsDivided` | the reserve of `DEFAULT_BUDGET` satisfies `ReserveIsDivided` | |
| *UseCaseLifecycleProofs* | | |
| `LifecycleTypes` | `[]LifecycleTypeOK` | |
| `ApprovalIsAlwaysDecided` | `[]ApprovalIsDecided` | |
| `OneSecondApprovalIsOpen` | `[]OneOpenSecondApproval` | |
| `DutiesAreAlwaysSeparate` | `DutiesAreSeparate` | |
| `ApprovalsAlwaysStand` | `ApprovalsStandOnOutcome` | |
| *DeliveryPackagesProofs* | | |
| `DeliveryTypes` | `[]DeliveryTypeOK` | |
| `HandedOverWasAlwaysConfirmed` | `[]HandedOverWasConfirmed` | |
| `GatesAreKept` | `KeepsGates` (refines `StageGates`) | |
| *FieldAdoptionProofs* | | |
| `FieldTypes` | `[]FieldTypeOK` | |
| `RecordsAreKept` | `OutcomesStayOnRecord` | |
| `AdoptionsAreLive` | `AdoptsFromLiveCapture` | |
| `ContractIsKept` | `KeepsContract` (refines `SuggestionContract`) | |
| *StructuredAdoptionProofs* | | |
| `StructuredTypes` | `[]StructuredTypeOK` | |
| `AllOrNothingAlways` | `[]AllOrNothing` | |
| `CommitsAreAsRead` | `CommitsWhatWasRead` | |
| `MetricsAreAsShown` | `OverwritesOnlyWhatWasShown` | |

Each proof has the same plan: an invariant strong enough to be inductive, a
lemma per action (or per kind of change several actions make), and a last step
of temporal logic. What makes each invariant inductive:

**One executor.** That no generation has two executors does not follow from
itself: a second process could come from a claim not yet spawned. `IInv` says
of every place that can hold a generation how it relates to the row.
`GenerationsAdvance`: a run is at most one generation ahead of its last claim,
a paused one not at all, and no process or call is. `ClaimIsFresh`: a claim that
waits for its process is the only trace of its generation, so spawning cannot
make a second executor. `ExecutorStateAgrees`: an executor still in its loop has
the generation last claimed, and between two calls has none open; with it, an
open call whose run pauses would contradict the executor that pauses it.
`DiscardedCallsAreLast`: what a failure discarded belongs to the last generation
of a finished run. The set of live leases grows in `ClaimRun` only, which has
counted it; a renewal without delay can only prolong a live lease, and that is
where `MaxRenewDelay = 0` enters. The refinement uses `IInv` where a claim could
otherwise be one of a generation already executed.

**What a supervisor knows.** `Watching` adds the supervisor's memory: a claim it
holds is in its dict, in its hands while it spawns, or on the list of its
finally clause (`LoopKnows`, `ExitKnows`); what it polls and reaps is its own and
no newer than the row (`KnowsOwnOnly`, `KnowsPast`); and what it has read as
stale is outdated for good (`StaleIsStale`), although the read is a step before
the use. Only a claim makes a claim (`NoNewClaims`), so all other steps preserve
`Watching` by one lemma. A healthy run then cannot fail by another: a reaper
needs a lease that has run out, a poll the absence of a process, an exit the end
of the loop. `Staffed`, for the normal stop, says that a live claim has a process
at work; `Calm` are the conditions under which SETUP.md:337 can be meant:
punctual renewals, no `--once`, and no crash of a child, error of spawn or
database, or Ctrl-C in a terminal. Each of these does end a run early, by design
or as section 3 says; crashes of supervisors and lost actors are allowed.

**The loop.** Whoever holds what is said with tokens: `TokensTell` and
`NobodyElse` (before the first takeover, a working executor is the run's or was
until the run ended), `StepsAreHeld` and `CallsAreHeld` (nobody but its executor
settles a step or call). `VerdictsAreBound` and `RelevanceFollows` connect a
report and a relevance statement to the package while either is under way: that
is why no answer in between makes a package ready that was not reviewed. The
failures of a role are counted together with the calls that may still fail
(`FailuresAreCounted`): a takeover leaves at most one such call behind, hence
`2 + taken`.

`ExecutorsRunDown` is the safety half of `ExecutorsStop`. `Left(e)` counts
iterations, then the sources a review has not asked for, then the place inside
the iteration (`Rank`); every step of the executor is of one of four kinds
(`WaysOn`: it stops, starts the next iteration, comes to a lower place, or turns to
a source it has not asked for), and each lowers `Left(e)`. Nobody else raises it, so
between start and end there are at most `1 + (MaxIterations + 1) * Lap` steps.
That the steps are taken is fairness, and left to TLC.

**The budget.** The counters are sums over the attempts. `Total` is a fold, and
the prover knows nothing about it, nor can it use an induction theorem for it. So
the module first proves that a finite set has exactly one sum
(`SumsAreUnique`, `SumsExist`, by a smallest subset that has none, from the
well-foundedness of strict inclusion), that `Total` is that sum, and that it
splits and grows as expected; `SameTotal`, `JoinedTotal` and `LeftTotal` are then
all that the actions need. `BudgetInv` adds to the properties that an attempt not
yet asked is free, that only an answered one is settled, and that a run that can
go on has no attempt whose cost the campaign knows and the run does not
(`Covered`).

**The reserve for reviews.** A planner or synthesizer call leaves the reserve
alone because `Ask` subtracts it; a verifier call takes its share, and what is
left must cover the reviews still to come. With n of them left the reserve is
`Share(total, n)`, rounded up, and a verifier call may ask for what is left
divided by the verifier calls left (RT:729-769). `SharesSuffice` says that this
leaves `Share(total, n - 1)`; that is arithmetic about the budget, not about any
behaviour, and not every budget `budget_from_snapshot` (RT:244) lets through
satisfies it: with a reserve for completions below two minimal ones, or an odd
reserve for prompts and no verifier call to spare (rounding up takes one token
more than half), what the first review leaves is less than the share of the next. `DefaultReserveIsDivided` proves it for the reserve of
`DEFAULT_BUDGET` (RT:124), whatever the other limits are lowered to as long as
they hold the reserve. `MaxOverrun = 0` (the provider reports no more than was
reserved) is part of it; the other budget theorems do without.

**Use case and packages.** `PagesWereRead` says what an old page can hold, and
`BasesAdvance` that later approvals rest on later revisions of the outcome;
without it the confirmation of an old proposal could make an approval with an
older basis the one that counts. The lemmas are about a step of the lifecycle or
of a request that keeps a page, so that `DeliveryPackagesProofs` cites them for
the composition. There `SoundnessIsRecorded` covers what a page shows as ready
but the rows no longer do, which is what a handover works from, and
`StatusesWereReached` the copies of the row that may be written back.

**Adoption.** `CaptureAnalysisProofs` has the facts both modules need: who an
analysis belongs to (`CInv`) and what a step of captures and analyses leaves
alone. For fields, `OneOffer` (the unique constraint of the table) and
`OffersAreUnsettled` make the refinement's `CHOOSE` the offer itself. For batches
`MadeOK` says with sets what `AllOrNothing` says with cardinalities, and
`RequestsHaveBatch` ties a request to a batch.

**What the proofs changed in the models.** `LoopTypeOK` bounded the repeats by
`MaxRepeats + 1`; that holds in the instance but not for `MaxRepeats = 0`, where
a takeover finds the counter already at its limit and adds one more. The bound is
`MaxRepeats + 1 + taken`, and `RepeatsAreCounted` is what it takes. The sums
of `ProviderBudget` are written with named functions, and some assumptions on
constants are stated that were only implied (`NoSession \notin Sessions`,
`NoText \notin Analyses`, bounds that are numbers).

**Only model-checked.** The four liveness properties (`DispatchIsServed`,
`ClaimEnds`, `StopDrains`, `ExecutorsStop`): fairness and ENABLED are beyond the
prover. What recursive definitions compute is not at stake: the modules have none.

## 5. What is not modelled

The components in `PROJECT.json` with the status `not_modelled` have a reason
there: solution generation (quality runs around provider answers), the decision
brief, architecture selection and retirement (sequential services under row
locks), the anonymisation ledger, the provider client, and presentation.

Of the modelled components: the order of row locks and the database's deadlocks
(`execute_tool_step` and `fail_execution`, continuation and reservation of a
campaign, storing and adopting a suggestion lock in different orders; the
database ends one of two and the models show a transaction that fails), what
tools compute, the text of prompts, answers and sections, permissions, and
everything that only reads (`execution_health`, `pending_execution_state`,
`campaign_budget_snapshot`).

Seen in the code, part of the models or beside them, and not ruled on by any
document:

* a search sets `processed` back although another search's hits were covered
  (RT:2418), which costs one more read; a column without values is asked about
  again after each answer as long as the package rests on it (RT:1538); a tool
  step refused for an exhausted budget fails the run (RT:2257);
* `recover_investigation` does not queue the run (RT:1039); `--once` may fail
  the runs it has just claimed (WK:144);
* a usage figure that is no number raises outside every handler (LL:1251);
* when the owner changes after a proposal, nobody may be left to confirm or
  return it while it keeps others from being made (US:814); confirming and
  returning at once leaves a decision final and returned (US:947); "terminal"
  is checked for assessments, not for decisions (US:769);
* an analysis or a batch whose request dies stays running or processing
  (`extraction_validation.py:394`, SO:817); two analyses stored at once meet
  `uniq_open_adoption_target_field` unhandled (`models.py:339`); the snapshot of
  a metric is never refreshed (`structured_review.py:239`); a structured commit
  asks neither for the capture's retention nor for an archived target (SO:342).

## 6. Plan

1. The safety half of the worker's liveness as well: that a dispatched run stays
   claimable until it is claimed (for `DispatchIsServed`), and that a supervisor's
   round ends (for `ClaimEnds` and `StopDrains`).
2. Budgets beyond the default: for which reserves `SharesSuffice` holds, in
   terms of `reservedCalls`, `verifier` and the floors.
3. An abstract specification of a batch that is committed once, refined by
   `StructuredAdoption`.
4. Decision briefs and their adoption, quality runs, the experiment-wide cost
   cap of `issue118_execution.py`, lock orders.
