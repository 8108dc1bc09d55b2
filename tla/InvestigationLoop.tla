-------------------------- MODULE InvestigationLoop --------------------------
(***************************************************************************)
(* One investigation run from the inside: the loop that asks the planner,  *)
(* the synthesizer and the verifier, runs their tools, and stops at the    *)
(* boundaries the stop policy names.  Every handler of the loop is cut     *)
(* where a transaction ends or a provider, a tool or a human is waited     *)
(* for, so that aborts, answers, crashes and takeovers fall in between.    *)
(***************************************************************************)
EXTENDS Integers, Sequences, FiniteSets

CONSTANTS
  Executors,        \* processes that may drive the run
  Reads, Searches,  \* the tool calls a model may ask for, named by their step key
  Hits,             \* Hits[s]: the reads that cover what the counterevidence search s finds
  Packages,         \* the decision packages a synthesis may return
  Relevant,         \* Relevant[p]: the reads of the sources package p calls relevant
  Blocked,          \* packages that break the deterministic contract
  Gaps,             \* packages that rest on a column without any value
  None,
  MaxCalls, MaxTools, MaxReads,     \* max_model_calls, max_tool_calls, max_verifier_reads
  ReservedReviews,                  \* max_verifier_calls = verifier_reserved_model_calls
  MaxIterations,                    \* max_iterations of run_until_boundary
  MaxRepeats, MaxChurn,             \* MAX_IDENTICAL_ACTION_STATE_REPEATS, MAX_SYNTHESIS_PASSES_...
  MaxHandovers                      \* bounds the answers and takeovers of a behaviour

ASSUME SourcesAssumption ==
  /\ Reads \cap Searches = {} /\ None \notin Reads \cup Searches \cup Packages
  /\ Hits \in [Searches -> SUBSET Reads] /\ Relevant \in [Packages -> SUBSET Reads]
  /\ Blocked \subseteq Packages /\ Gaps \subseteq Packages

ASSUME LimitsAssumption ==
  /\ {MaxCalls, MaxTools, MaxReads, ReservedReviews, MaxRepeats, MaxHandovers} \subseteq Nat
  /\ {MaxIterations, MaxChurn} \subseteq Nat \ {0}

VARIABLES
  run,      \* the row: status, reason, generation, package, relevance, counters
  steps,    \* steps[k]: the tool step with key k
  calls,    \* model calls in the order of their creation
  report,   \* the latest verifier report
  level,    \* tokens and time left: "open", "reserve" (kept for reviews) or "spent"
  moved,    \* the process analysis got another version than the run's
  ex,       \* ex[e]: where executor e is in the loop, and its local variables
  taken     \* takeovers so far

vars == <<run, steps, calls, report, level, moved, ex, taken>>

Keys     == Reads \cup Searches
Roles    == {"planner", "synthesizer", "verifier"}
Terminal == {"ready", "failed", "aborted"}
Reasons  == {"missing_evidence", "value_tradeoff", "budget_exhausted", "technical_failure"}

----------------------------------------------------------------------------
(* What the run's rows say. *)

\* register_hash and brief_hash: the package, its relevance and the inputs.
Hash == [package |-> run.package, relevance |-> run.relevance, inputs |-> run.inputs]

Succeeded == {k \in Keys : steps[k].st = "success"}

CallsOf(role) == {i \in DOMAIN calls : calls[i].role = role}
Successes(role) == {i \in CallsOf(role) : calls[i].st = "success"}

\* Failures of a role since its last success; other roles do not count.
Failures(role) ==
  Cardinality({i \in CallsOf(role) :
                 /\ calls[i].st \in {"failed", "fatal"}
                 /\ \A j \in Successes(role) : j < i})

\* A column that carries the recommendation has no value at all.
Gap ==
  /\ run.package \in Gaps
  /\ run.relevance # None /\ run.searched /\ run.processed

\* The deterministic contract a package has to meet before it is reviewed.
PreBlocked == run.package \in Blocked \cup {None} \/ run.relevance = None

\* The review the package still lacks.
Unreviewed == report = None \/ report.hash # Hash
ReviewedWhateverSaid == ~Unreviewed
Reviewed   == ~Unreviewed /\ report.ok

\* evaluate_policy, as far as the loop asks it.
Policy == IF Gap THEN "gap" ELSE IF ~PreBlocked /\ Reviewed THEN "ready" ELSE "continue"

----------------------------------------------------------------------------
(* Budgets. *)

CallsLeftAndOne == MaxCalls + 1 - Len(calls)

CallsLeft == MaxCalls - Len(calls)

\* Calls kept for the reviews that are still owed.
ReviewReserve == IF Cardinality(CallsOf("verifier")) >= ReservedReviews THEN 0
                 ELSE ReservedReviews - Cardinality(CallsOf("verifier"))

Spent == level = "spent" \/ run.tools >= MaxTools \/ CallsLeft <= 0

\* budget_exhausted with reserve_verifier.
InReserve == Spent \/ level = "reserve" \/ CallsLeft <= ReviewReserve

\* A planner call leaves a call for the synthesis as well.
Refused(role) ==
  CASE role = "planner"     -> InReserve \/ CallsLeft <= ReviewReserve + 1
    [] role = "synthesizer" -> InReserve
    [] role = "verifier"    -> level = "spent" \/ CallsLeft <= 0 \/ ReviewReserve = 0

----------------------------------------------------------------------------
(* Which way an iteration takes. *)

LastCallFailed(role) ==
  /\ calls # <<>>
  /\ calls[Len(calls)] = [role |-> role, st |-> "failed"]
  /\ Failures(role) <= 1

\* A complete package that nothing has outdated since its synthesis.
VerificationDue == ~PreBlocked /\ Unreviewed /\ Successes("synthesizer") # {} /\ ~run.fresh

\* A rejected package gets one direct repair.
VerifierRepairDue ==
  /\ report # None /\ ~report.ok /\ report.hash = Hash
  /\ \A i \in Successes("synthesizer") : i <= report.after

PackageRepairDue ==
  /\ PreBlocked
  /\ run.searched \/ Cardinality(Successes("synthesizer")) >= 2
  /\ run.since > 0

Route ==
  CASE Policy = "gap"                                              -> "gap"
    [] Policy = "ready"                                            -> "ready"
    [] Policy = "continue" /\ Spent                                -> "budget"
    [] Policy = "continue" /\ ~Spent
       /\ (LastCallFailed("verifier") \/ (VerificationDue /\ ~VerifierRepairDue)) -> "verify"
    [] OTHER ->
         IF PackageRepairDue /\ run.since >= MaxChurn THEN "churn"
         ELSE IF VerifierRepairDue \/ LastCallFailed("synthesizer") \/ PackageRepairDue
              THEN "synthesize" ELSE "plan"

----------------------------------------------------------------------------
(* Executors. *)

Active == run.status \in {"running", "waiting"}

\* assert_active and assert_executor inside the transaction.
Fenced(e) == Active /\ ex[e].token = run.gen

Idle == [pc |-> "idle", token |-> 0, round |-> 0, call |-> 0, act |-> None, asked |-> {}, seen |-> None]

Goto(e, label)  == ex' = [ex EXCEPT ![e].pc = label]
Quit(e)         == ex' = [ex EXCEPT ![e] = [Idle EXCEPT !.pc = "done"]]
NextRound(e)    == ex' = [ex EXCEPT ![e] = [Idle EXCEPT !.pc = "loop", !.token = ex[e].token,
                                                        !.round = ex[e].round + 1]]
Raise(e)        == ex' = [ex EXCEPT ![e] = [Idle EXCEPT !.pc = "raised", !.token = ex[e].token]]

Writes == {"gap", "budget", "clarify", "ready", "churn", "guard", "repeats", "provider",
           "contract", "plan", "synthesize", "verify", "apply", "relate", "note", "tool", "read", "counter"}

Init ==
  /\ run = [status |-> "running", reason |-> "", gen |-> 0, package |-> None, relevance |-> None,
            inputs |-> 0, searched |-> FALSE, processed |-> FALSE, tools |-> 0, reads |-> 0,
            since |-> 0, fresh |-> FALSE, repeated |-> [of |-> None, times |-> 0]]
  /\ steps = [k \in Keys |-> [st |-> "none", tries |-> 0]]
  /\ calls = <<>> /\ report = None
  /\ level = "open" /\ moved = FALSE /\ taken = 0
  /\ ex = [e \in Executors |-> Idle]

\* An executor is started with the run's present token.
Start(e) ==
  /\ ex[e].pc \in {"idle", "done"} /\ run.status = "running"
  /\ \A f \in Executors : ex[f].pc \in {"idle", "done"} \/ ex[f].token # run.gen
  /\ ex' = [ex EXCEPT ![e] = [Idle EXCEPT !.pc = "loop", !.token = run.gen]]
  /\ UNCHANGED <<run, steps, calls, report, level, moved, taken>>

AdvanceAfterLoss(e) ==
  /\ ex[e].pc = "loop"
  /\ Goto(e, IF ex[e].round >= MaxIterations THEN "guard" ELSE IF Fenced(e) THEN Route ELSE "loop")
  /\ UNCHANGED <<run, steps, calls, report, level, moved, taken>>

\* The head of advance_investigation reads the run and decides; whatever it
\* decides is done in a later transaction.
Advance(e) ==
  /\ ex[e].pc = "loop"
  /\ IF ex[e].round >= MaxIterations THEN Goto(e, "guard")
     ELSE IF Fenced(e) THEN Goto(e, Route) ELSE Raise(e)
  /\ UNCHANGED <<run, steps, calls, report, level, moved, taken>>

\* Every write of an executor that lost the run, or whose run has ended.
Lockout(e) ==
  /\ ex[e].pc \in Writes /\ ~Fenced(e)
  /\ Raise(e)
  /\ UNCHANGED <<run, steps, calls, report, level, moved, taken>>

\* _set_waiting_human
Suspend(e) ==
  /\ ex[e].pc \in {"gap", "budget", "clarify"} /\ Fenced(e)
  /\ run' = [run EXCEPT !.status = "waiting",
                        !.reason = CASE ex[e].pc = "gap"    -> "missing_evidence"
                                     [] ex[e].pc = "budget" -> "budget_exhausted"
                                     [] OTHER               -> ex[e].act.what]
  /\ Quit(e)
  /\ UNCHANGED <<steps, calls, report, level, moved, taken>>

\* _set_ready evaluates the policy again under the lock.
MakeReady(e) ==
  /\ ex[e].pc = "ready" /\ Fenced(e)
  /\ IF Policy = "ready"
     THEN run' = [run EXCEPT !.status = "ready", !.gen = @ + 1] /\ Quit(e)
     ELSE UNCHANGED run /\ Raise(e)
  /\ UNCHANGED <<steps, calls, report, level, moved, taken>>

\* _set_failed_runtime: no convergence, no progress, no iteration or retry left;
\* _set_failed_planner_contract: an action that is not allowed, which then raises.
Fail(e) ==
  /\ ex[e].pc \in {"churn", "guard", "repeats", "provider", "contract"} /\ Fenced(e)
  /\ run' = [run EXCEPT !.status = "failed", !.reason = "technical_failure", !.gen = @ + 1]
  /\ IF ex[e].pc = "contract" THEN Raise(e) ELSE Quit(e)
  /\ UNCHANGED <<steps, calls, report, level, moved, taken>>

----------------------------------------------------------------------------
(* Model calls. *)

RoleOf(label) == CASE label = "plan" -> "planner" [] label = "synthesize" -> "synthesizer"
                   [] label = "verify" -> "verifier"

\* _reserve_model_call; a verifier is shown the package there is.
Ask(e) ==
  /\ ex[e].pc \in {"plan", "synthesize", "verify"} /\ Fenced(e)
  /\ LET role == RoleOf(ex[e].pc) IN
       IF Refused(role) THEN Goto(e, "budget") /\ UNCHANGED calls
       ELSE /\ calls' = Append(calls, [role |-> role, st |-> "running"])
            /\ ex' = [ex EXCEPT ![e].pc = "asked", ![e].call = Len(calls) + 1,
                                 ![e].seen = IF role = "verifier" THEN Hash ELSE None]
  /\ UNCHANGED <<run, steps, report, level, moved, taken>>

RetriableWhateverItIs(role, open, st) == Failures(role) + (IF open THEN 1 ELSE 0) <= 1

\* One more attempt for a passing error, the failure at hand counted in.
Retriable(role, open, st) == Failures(role) + (IF open THEN 1 ELSE 0) <= 1 /\ st = "failed"

Settled(e, st) == calls' = [calls EXCEPT ![ex[e].call].st = st]

\* The provider fails, or its answer breaks the structured contract.  The call
\* is closed whoever owns the run, unless somebody closed it before.
Error(e, st) ==
  /\ ex[e].pc = "asked" /\ st \in {"failed", "fatal"}
  /\ LET role == calls[ex[e].call].role
         open == calls[ex[e].call].st = "running"
     IN /\ IF open THEN Settled(e, st) ELSE UNCHANGED calls
        /\ IF Retriable(role, open, st) THEN NextRound(e) ELSE Goto(e, "provider")
  /\ UNCHANGED <<run, steps, report, level, moved, taken>>

\* The answer of a locked out executor is kept as discarded.
LateAnswer(e) ==
  /\ ex[e].pc = "asked" /\ ~(run.status = "running" /\ ex[e].token = run.gen)
  /\ Settled(e, "discarded") /\ Raise(e)
  /\ UNCHANGED <<run, steps, report, level, moved, taken>>

Accepted(e, role) ==
  /\ ex[e].pc = "asked" /\ run.status = "running" /\ ex[e].token = run.gen
  /\ calls[ex[e].call].role = role
  /\ Settled(e, "success")

Then(e, label, what) == ex' = [ex EXCEPT ![e].pc = label, ![e].act = what, ![e].call = 0]

\* request_planner_action: a tool, a question, straight on to the synthesis, or
\* an action that _planner_contract_error rejects.
Planned(e) ==
  /\ Accepted(e, "planner")
  /\ \/ \E k \in Keys : Then(e, "note", [kind |-> "tool", what |-> k])
     \/ \E r \in {"missing_evidence", "value_tradeoff"} : Then(e, "note", [kind |-> "clarify", what |-> r])
     \/ Goto(e, "synthesize")
     \/ Goto(e, "contract")
  /\ UNCHANGED <<run, steps, report, level, moved, taken>>

\* request_synthesis_package: a package whose relevant sources were read, a
\* question, or a wish for more work.
Synthesized(e) ==
  /\ Accepted(e, "synthesizer")
  /\ run' = [run EXCEPT !.since = IF @ > MaxChurn THEN @ ELSE @ + 1, !.fresh = FALSE]
  /\ \/ \E p \in Packages : /\ Relevant[p] \subseteq Succeeded
                            /\ Then(e, "apply", [kind |-> "package", what |-> p])
     \/ Then(e, "note", [kind |-> "clarify", what |-> "missing_evidence"])
     \/ NextRound(e)
  /\ UNCHANGED <<steps, report, level, moved, taken>>

\* request_verifier_report: a verdict, or evidence it has not read in this review.
Verified(e) ==
  /\ Accepted(e, "verifier")
  /\ \/ \E ok \in BOOLEAN : Then(e, "record", [kind |-> "verdict", what |-> ok])
     \/ \E k \in Reads \ ex[e].asked :
          ex' = [ex EXCEPT ![e].pc = "read", ![e].act = [kind |-> "tool", what |-> k],
                           ![e].asked = @ \cup {k}]
  /\ UNCHANGED <<run, steps, report, level, moved, taken>>

\* _record_verifier_report binds the verdict to the hashes the run has now; it
\* takes the row's lock and asks neither for the token nor for the status.
Record(e) ==
  /\ ex[e].pc = "record"
  /\ report' = [ok |-> ex[e].act.what, hash |-> Hash, after |-> Len(calls),
                about |-> ex[e].seen, by |-> ex[e].token, for |-> run.gen]
  /\ run' = [run EXCEPT !.since = 0]
  /\ IF Policy' = "ready" THEN Goto(e, "ready") ELSE NextRound(e)
  /\ UNCHANGED <<steps, calls, level, moved, taken>>

----------------------------------------------------------------------------
(* Packages and tools. *)

\* apply_planner_state
Apply(e) ==
  /\ ex[e].pc = "apply" /\ Fenced(e)
  /\ run' = [run EXCEPT !.package = ex[e].act.what]
  /\ Goto(e, "relate")
  /\ UNCHANGED <<steps, calls, report, level, moved, taken>>

\* set_source_relevance, and the boundary check that follows.
Relate(e) ==
  /\ ex[e].pc = "relate" /\ Fenced(e)
  /\ run' = [run EXCEPT !.relevance = ex[e].act.what]
  /\ Goto(e, IF Gap' THEN "gap" ELSE "note")
  /\ UNCHANGED <<steps, calls, report, level, moved, taken>>

\* What _action_state_fingerprint hashes.
Fingerprint(e) ==
  IF ex[e].act.kind = "clarify" THEN None
  ELSE [act |-> IF ex[e].act.kind = "tool" THEN ex[e].act ELSE [kind |-> "package"],
        hash |-> Hash, steps |-> [k \in Keys |-> steps[k].st],
        report |-> IF report = None THEN None ELSE report.ok]

\* _record_action_state_repeat, and the branch on the action's kind.
Note(e) ==
  /\ ex[e].pc = "note" /\ Fenced(e)
  /\ LET f == Fingerprint(e)
         n == IF f = None THEN 0
              ELSE IF run.repeated.of = f THEN run.repeated.times + 1 ELSE 1
     IN /\ run' = [run EXCEPT !.repeated = [of |-> f, times |-> n]]
        /\ IF n > MaxRepeats THEN Goto(e, "repeats")
           ELSE CASE ex[e].act.kind = "tool"    -> Goto(e, "tool")
                  [] ex[e].act.kind = "clarify" -> Goto(e, "clarify")
                  [] ex[e].act.kind = "package" -> IF PreBlocked THEN NextRound(e)
                                                   ELSE Goto(e, "verify")
  /\ UNCHANGED <<steps, calls, report, level, moved, taken>>

\* A step may be run if it is new, or failed once for a passing reason.
Runnable(k) == steps[k].st = "none" \/ (steps[k].st = "failed" /\ steps[k].tries < 2)

\* The first transaction of execute_tool_step.  Only a verifier's read turns an
\* exhausted budget into a boundary; any other refusal leaves the loop.
OpenStep(e) ==
  /\ ex[e].pc \in {"tool", "read"} /\ Fenced(e)
  /\ LET k == ex[e].act.what
         reading == ex[e].pc = "read"
         barred == moved \/ run.status # "running"
         known == steps[k].st = "success"
         empty == IF reading THEN run.reads >= MaxReads ELSE InReserve
     IN \/ /\ ~barred /\ ~known /\ ~empty /\ Runnable(k)
           /\ steps' = [steps EXCEPT ![k] = [st |-> "running", tries |-> @.tries + 1]]
           /\ run' = IF reading THEN [run EXCEPT !.reads = @ + 1] ELSE [run EXCEPT !.tools = @ + 1]
           /\ Goto(e, IF reading THEN "reading" ELSE "tooling")
        \/ /\ ~barred /\ known
           /\ Goto(e, IF reading THEN "verify" ELSE "counter")
           /\ UNCHANGED <<run, steps>>
        \/ /\ ~barred /\ ~known /\ empty /\ reading
           /\ Goto(e, "budget") /\ UNCHANGED <<run, steps>>
        \/ /\ barred \/ (~known /\ (IF empty THEN ~reading ELSE ~Runnable(k)))
           /\ Raise(e) /\ UNCHANGED <<run, steps>>
  /\ UNCHANGED <<calls, report, level, moved, taken>>

\* The tool raises: the step is closed by its owner only, the exception ends
\* the loop either way.
ToolError(e, st) ==
  /\ ex[e].pc \in {"tooling", "reading"} /\ st \in {"failed", "broken"}
  /\ IF ex[e].token = run.gen THEN steps' = [steps EXCEPT ![ex[e].act.what].st = st]
                              ELSE UNCHANGED steps
  /\ Raise(e)
  /\ UNCHANGED <<run, calls, report, level, moved, taken>>

\* The tool answers: evidence for its owner, discarded for anybody else.
ToolAnswer(e) ==
  /\ ex[e].pc \in {"tooling", "reading"}
  /\ LET k == ex[e].act.what IN
       IF ex[e].token = run.gen /\ run.status = "running"
       THEN /\ steps' = [steps EXCEPT ![k].st = "success"]
            /\ run' = [run EXCEPT !.since = 0, !.fresh = TRUE,
                         !.searched = @ \/ k \in Searches,
                         !.processed = IF k \in Searches THEN Hits[k] = {} ELSE @]
            /\ Goto(e, IF ex[e].pc = "reading" THEN "verify" ELSE "counter")
       ELSE /\ steps' = [steps EXCEPT ![k].st = "discarded"]
            /\ UNCHANGED run
            /\ Raise(e)
  /\ UNCHANGED <<calls, report, level, moved, taken>>

\* mark_counterevidence_processed, if a search has left hits unread until now.
Counter(e) ==
  /\ ex[e].pc = "counter" /\ Fenced(e)
  /\ run' = [run EXCEPT !.processed =
               @ \/ (run.searched /\ \A s \in Searches \cap Succeeded : Hits[s] \subseteq Succeeded)]
  /\ NextRound(e)
  /\ UNCHANGED <<steps, calls, report, level, moved, taken>>

----------------------------------------------------------------------------
(* The worker around the loop, and the humans around the worker. *)

FailExecutionRunOnly(e) ==
  /\ ex[e].pc = "raised"
  /\ IF run.status = "running" /\ ex[e].token = run.gen
     THEN run' = [run EXCEPT !.status = "failed", !.reason = "technical_failure", !.gen = @ + 1]
     ELSE UNCHANGED run
  /\ Quit(e)
  /\ UNCHANGED <<steps, calls, report, level, moved, taken>>

\* fail_execution after an exception or the death of the process.
FailExecution(e) ==
  /\ ex[e].pc = "raised"
  /\ IF run.status = "running" /\ ex[e].token = run.gen
     THEN /\ run' = [run EXCEPT !.status = "failed", !.reason = "technical_failure", !.gen = @ + 1]
          /\ steps' = [k \in Keys |-> IF steps[k].st = "running"
                                      THEN [steps[k] EXCEPT !.st = "discarded"] ELSE steps[k]]
          /\ calls' = [i \in DOMAIN calls |-> IF calls[i].st = "running"
                                              THEN [calls[i] EXCEPT !.st = "discarded"] ELSE calls[i]]
     ELSE UNCHANGED <<run, steps, calls>>
  /\ Quit(e)
  /\ UNCHANGED <<report, level, moved, taken>>

\* The process dies wherever it is.
Crash(e) ==
  /\ ex[e].pc \notin {"idle", "done", "raised"}
  /\ Raise(e)
  /\ UNCHANGED <<run, steps, calls, report, level, moved, taken>>

ContinueUnderOldToken ==
  /\ run.status = "waiting" /\ run.inputs + taken < MaxHandovers
  /\ run' = [run EXCEPT !.status = "running", !.reason = "", !.inputs = @ + 1, !.since = 0,
                        !.fresh = TRUE]
  /\ UNCHANGED <<steps, calls, report, level, moved, ex, taken>>

\* continue_with_human_input
Continue ==
  /\ run.status = "waiting" /\ run.inputs + taken < MaxHandovers
  /\ run' = [run EXCEPT !.status = "running", !.reason = "", !.gen = @ + 1,
                        !.inputs = @ + 1, !.since = 0, !.fresh = TRUE]
  /\ UNCHANGED <<steps, calls, report, level, moved, ex, taken>>

\* abort_investigation
Abort ==
  /\ Active
  /\ run' = [run EXCEPT !.status = "aborted", !.gen = @ + 1]
  /\ UNCHANGED <<steps, calls, report, level, moved, ex, taken>>

\* recover_investigation hands the run to a new token while the old executor
\* may still be at work.
Recover ==
  /\ run.status = "running" /\ run.inputs + taken < MaxHandovers
  /\ run' = [run EXCEPT !.gen = @ + 1] /\ taken' = taken + 1
  /\ UNCHANGED <<steps, calls, report, level, moved, ex>>

\* Calls cost tokens, and time passes.
Burn ==
  /\ run.status = "running" /\ level # "spent"
  /\ level' = IF level = "open" THEN "reserve" ELSE "spent"
  /\ UNCHANGED <<run, steps, calls, report, moved, ex, taken>>

\* Somebody edits the process analysis.
EditProcess ==
  /\ run.status = "running" /\ ~moved /\ moved' = TRUE
  /\ UNCHANGED <<run, steps, calls, report, level, ex, taken>>

\* Nothing is left to do for a run that has ended.
Ended ==
  /\ run.status \in Terminal /\ \A e \in Executors : ex[e].pc \in {"idle", "done"}
  /\ UNCHANGED vars

Step(e) ==
  \/ Start(e) \/ Advance(e) \/ Lockout(e) \/ Suspend(e) \/ MakeReady(e) \/ Fail(e)
  \/ Ask(e) \/ Error(e, "failed") \/ Error(e, "fatal") \/ LateAnswer(e)
  \/ Planned(e) \/ Synthesized(e) \/ Verified(e) \/ Record(e)
  \/ Apply(e) \/ Relate(e) \/ Note(e)
  \/ OpenStep(e) \/ ToolError(e, "failed") \/ ToolError(e, "broken") \/ ToolAnswer(e) \/ Counter(e)
  \/ FailExecution(e)

LoopNext ==
  \/ \E e \in Executors : Step(e) \/ Crash(e)
  \/ Continue \/ Abort \/ Recover \/ Burn \/ EditProcess \/ Ended

\* A process that runs goes on, and providers and tools answer or time out; a
\* queued run is started.
LoopFairness == \A e \in Executors : WF_vars(Step(e))

LoopSpec == Init /\ [][LoopNext]_vars /\ LoopFairness

----------------------------------------------------------------------------
(* Properties. *)

Labels == Writes \cup {"idle", "loop", "asked", "record", "tooling", "reading", "raised", "done"}
Hashes == [package : Packages \cup {None}, relevance : Packages \cup {None}, inputs : 0 .. MaxHandovers]

\* Every row and every executor holds values of its kind.
LoopTypeOK ==
  /\ run.status \in Terminal \cup {"running", "waiting"} /\ run.reason \in Reasons \cup {""}
  /\ run.gen \in Nat /\ Hash \in Hashes
  /\ run.tools \in 0 .. MaxTools /\ run.reads \in 0 .. MaxReads
  /\ run.since \in 0 .. MaxChurn + 1 /\ run.repeated.times \in 0 .. MaxRepeats + 1 + taken
  /\ steps \in [Keys -> [st : {"none", "running", "success", "failed", "broken", "discarded"},
                         tries : 0 .. 2]]
  /\ calls \in Seq([role : Roles, st : {"running", "success", "failed", "fatal", "discarded"}])
  /\ Len(calls) <= MaxCalls
  /\ level \in {"open", "reserve", "spent"} /\ taken \in 0 .. MaxHandovers
  /\ \A e \in Executors : /\ ex[e].pc \in Labels /\ ex[e].token \in 0 .. run.gen
                          /\ ex[e].round \in 0 .. MaxIterations

\* While nobody took the run over, a run that is ready has earned it and keeps it:
\* the package a human is about to adopt is the one the verifier was shown and
\* approved, its relevance was stated for this package and after its sources
\* were read, and no late answer, review or edit overturns the stop policy's verdict.
ReadyIsEarned ==
  run.status = "ready" /\ taken = 0 =>
    /\ Policy = "ready" /\ report.ok /\ report.about = Hash
    /\ run.relevance = run.package /\ Relevant[run.package] \subseteq Succeeded

\* One retry per role, and for passing errors only: without a takeover nothing
\* is asked after an error that does not pass and a role never fails three times
\* in a row; a takeover adds at most the failure of the executor it replaced.
RetriesAreBounded ==
  /\ \A role \in Roles : Failures(role) <= 2 + taken
  /\ taken = 0 => \A i \in DOMAIN calls : calls[i].st = "fatal" => i = Len(calls)
  /\ \A k \in Keys : steps[k].tries <= 2

\* The run's owner raised or died: the worker is about to fail the run.
Falls == \E e \in Executors : ex[e].pc = "raised" /\ ex[e].token = run.gen

\* While nobody took the run over, a step or a call that is still open has an
\* executor that will settle it, or the run was aborted under it.
OpenWorkIsOwned ==
  taken = 0 /\ run.status # "aborted" =>
    /\ \A k \in Keys : steps[k].st = "running" => Falls \/ \E e \in Executors :
         ex[e].pc \in {"tooling", "reading"} /\ ex[e].act.what = k
    /\ \A i \in DOMAIN calls : calls[i].st = "running" => Falls \/ \E e \in Executors :
         ex[e].pc = "asked" /\ ex[e].call = i

\* Whoever drives the run stops: at a boundary, at a limit, or at the guard that
\* counts iterations.
ExecutorsStop ==
  (\E e \in Executors : ex[e].pc = "loop") ~> (\A e \in Executors : ex[e].pc \in {"idle", "done"})

\* The loop keeps the contract every run has with its actors.
Contract == INSTANCE RunContract WITH
  state <- IF run.status \in Terminal THEN "ended" ELSE run.status, generation <- run.gen
KeepsContract == Contract!Spec
=============================================================================
